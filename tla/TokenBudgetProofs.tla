---- MODULE TokenBudgetProofs ----
(***************************************************************************)
(* Proofs about TokenBudget, for any finite set of requests, any number of *)
(* principals, any limits and any age of the clock readings.               *)
(***************************************************************************)
EXTENDS TokenBudget, FunctionTheorems, FiniteSetTheorems, TLAPS

-----------------------------------------------------------------------------
(***************************************************************************)
(* Types.                                                                  *)
(***************************************************************************)
(* An entry that is stored has the type of an entry.                       *)
LEMMA WindowType ==
    ASSUME TypeOK, BudgetAssumption, NEW r \in Requests
    PROVE  /\ Window(r) \in UsageWindow
           /\ FreshWindow(r) \in UsageWindow
  <1>1. reading[r] \in Nat /\ principal[r] \in Principals
    BY DEF TypeOK, BudgetAssumption
  <1>2. FreshWindow(r) \in UsageWindow
    BY <1>1 DEF FreshWindow, UsageWindow
  <1>3. ASSUME principal[r] \in DOMAIN usage
        PROVE  usage[principal[r]] \in UsageWindow
    BY <1>3 DEF TypeOK
  <1>. QED BY <1>2, <1>3 DEF Window

(* Storing an entry adds the principal to the map and leaves the others.   *)
LEMMA StoreEffect ==
    ASSUME TypeOK, NEW r \in Requests, NEW e \in UsageWindow, Store(r, e)
    PROVE  /\ DOMAIN usage' = DOMAIN usage \cup {principal[r]}
           /\ DOMAIN usage' \subseteq Principals
           /\ usage' \in [DOMAIN usage' -> UsageWindow]
           /\ usage'[principal[r]] = e
           /\ \A p \in DOMAIN usage : p # principal[r] => usage'[p] = usage[p]
  <1>1. principal[r] \in Principals
    BY DEF TypeOK
  <1>2. \A p \in DOMAIN usage : usage[p] \in UsageWindow
    BY DEF TypeOK
  <1>. QED BY <1>1, <1>2 DEF TypeOK, Store

LEMMA TypeStep == BudgetAssumption /\ TypeOK /\ [Next]_vars => TypeOK'
  <1>. SUFFICES ASSUME BudgetAssumption, TypeOK, [Next]_vars PROVE TypeOK'
    OBVIOUS
  <1>1. ASSUME NEW r \in Requests, RejectOversize(r) PROVE TypeOK'
    BY <1>1 DEF RejectOversize, TypeOK, Phases, inputs
  <1>2. ASSUME NEW r \in Requests, ReadClock(r) PROVE TypeOK'
    BY <1>2 DEF ReadClock, TypeOK, Phases, inputs
  <1>3. ASSUME NEW r \in Requests, Charge(r) PROVE TypeOK'
    <2>. DEFINE e == [start |-> Window(r).start,
                      tokens |-> Window(r).tokens + tokens[r]]
    <2>1. Window(r).start \in Nat /\ Window(r).tokens \in Nat /\ tokens[r] \in Nat
      BY WindowType DEF UsageWindow, TypeOK, BudgetAssumption
    <2>2. e \in UsageWindow /\ Store(r, e)
      BY <1>3, <2>1 DEF UsageWindow, Charge
    <2>3. /\ DOMAIN usage' \subseteq Principals
          /\ usage' \in [DOMAIN usage' -> UsageWindow]
      BY <2>2, StoreEffect
    <2>4. charge' \in [Requests -> [process : Nat, start : Nat, at : Nat]]
      <3>1. process \in Nat /\ now \in Nat
        BY DEF TypeOK, BudgetAssumption
      <3>. QED BY <1>3, <2>1, <3>1 DEF Charge, TypeOK
    <2>. QED BY <1>3, <2>3, <2>4 DEF Charge, TypeOK, Phases, inputs
  <1>4. ASSUME NEW r \in Requests, RejectExhausted(r) PROVE TypeOK'
    <2>1. /\ DOMAIN usage' \subseteq Principals
          /\ usage' \in [DOMAIN usage' -> UsageWindow]
      BY <1>4, WindowType, StoreEffect DEF RejectExhausted
    <2>. QED BY <1>4, <2>1 DEF RejectExhausted, TypeOK, Phases, inputs
  <1>5. CASE Tick
    BY <1>5 DEF Tick, TypeOK, BudgetAssumption, inputs
  <1>6. CASE Restart
    BY <1>6 DEF Restart, TypeOK, BudgetAssumption, inputs, Phases, NoUsage
  <1>7. CASE Rest \/ UNCHANGED vars
    BY <1>7 DEF Rest, vars, TypeOK
  <1>. QED
    BY <1>1, <1>2, <1>3, <1>4, <1>5, <1>6, <1>7 DEF Next, Inspect

(* The variables keep their types in every reachable state: the entries of *)
(* the usage map (token_budget.rs:20-24) stay entries of known principals. *)
THEOREM TypeCorrect == Spec => []TypeOK
  <1>1. Init => TypeOK
    BY BudgetAssumption DEF Init, TypeOK, BudgetAssumption, Phases, NoUsage
  <1>. QED
    BY <1>1, TypeStep, BudgetAssumption, PTL DEF Spec

-----------------------------------------------------------------------------
(***************************************************************************)
(* Sums of estimates, as numbers of charged tokens.                        *)
(***************************************************************************)
LEMMA SpentType ==
    ASSUME BudgetAssumption, NEW S \in SUBSET Requests
    PROVE  /\ IsFiniteSet(ChargedTokens(S))
           /\ Spent(S) \in Nat
  <1>1. IsFiniteSet(S) /\ IsFiniteSet(1..MaxRequestTokens)
    BY FS_Subset, FS_Interval DEF BudgetAssumption
  <1>2. IsFiniteSet(S \X (1..MaxRequestTokens))
    BY <1>1, FS_Product
  <1>3. ChargedTokens(S) \subseteq S \X (1..MaxRequestTokens)
    BY DEF ChargedTokens
  <1>4. IsFiniteSet(ChargedTokens(S))
    BY <1>2, <1>3, FS_Subset
  <1>. QED BY <1>4, FS_CardinalityType DEF Spent

(* Nobody has spent nothing.                                               *)
LEMMA SpentNothing == Spent({}) = 0
  <1>1. ChargedTokens({}) = {}
    BY DEF ChargedTokens
  <1>. QED BY <1>1, FS_EmptySet DEF Spent

(* Spending grows with the set of requests.                                *)
LEMMA SpentMonotone ==
    ASSUME BudgetAssumption, NEW T \in SUBSET Requests, NEW S \in SUBSET T
    PROVE  Spent(S) <= Spent(T)
  <1>1. ChargedTokens(S) \subseteq ChargedTokens(T)
    BY DEF ChargedTokens
  <1>2. IsFiniteSet(ChargedTokens(T))
    BY SpentType
  <1>. QED BY <1>1, <1>2, FS_Subset DEF Spent

(* Two sets of requests spend together at most what each spends.           *)
LEMMA SpentUnion ==
    ASSUME BudgetAssumption, NEW S \in SUBSET Requests, NEW T \in SUBSET Requests
    PROVE  /\ Spent(S \cup T) <= Spent(S) + Spent(T)
           /\ S \cap T = {} => Spent(S \cup T) = Spent(S) + Spent(T)
  <1>. DEFINE X == ChargedTokens(S)
              Y == ChargedTokens(T)
  <1>1. ChargedTokens(S \cup T) = X \cup Y
    BY DEF ChargedTokens
  <1>2. IsFiniteSet(X) /\ IsFiniteSet(Y) /\ IsFiniteSet(X \cap Y)
    BY SpentType, FS_Subset, X \cap Y \in SUBSET X
  <1>3. Cardinality(X \cup Y) = Cardinality(X) + Cardinality(Y) - Cardinality(X \cap Y)
    BY <1>2, FS_Union
  <1>4. Cardinality(X) \in Nat /\ Cardinality(Y) \in Nat /\ Cardinality(X \cap Y) \in Nat
    BY <1>2, FS_CardinalityType
  <1>5. /\ Spent(S \cup T) = Cardinality(X \cup Y)
        /\ Spent(S) = Cardinality(X)
        /\ Spent(T) = Cardinality(Y)
    BY <1>1 DEF Spent
  <1>6. ASSUME S \cap T = {} PROVE Spent(S \cup T) = Spent(S) + Spent(T)
    <2>1. X \cap Y = {}
      BY <1>6 DEF ChargedTokens
    <2>2. Cardinality(X \cap Y) = 0
      BY <2>1, FS_EmptySet
    <2>. HIDE DEF X, Y
    <2>. QED BY <1>3, <1>4, <1>5, <2>2
  <1>. HIDE DEF X, Y
  <1>7. Spent(S \cup T) <= Spent(S) + Spent(T)
    BY <1>3, <1>4, <1>5
  <1>. QED BY <1>6, <1>7

(* One request within the request limit spends its estimate.               *)
LEMMA SpentAlone ==
    ASSUME BudgetAssumption, NEW r \in Requests,
           tokens[r] \in Nat, tokens[r] <= MaxRequestTokens
    PROVE  Spent({r}) = tokens[r]
  <1>. DEFINE Own == {r} \X (1..tokens[r])
  <1>1. ChargedTokens({r}) = Own
    BY DEF ChargedTokens, BudgetAssumption
  <1>2. IsFiniteSet({r}) /\ Cardinality({r}) = 1
    BY FS_Singleton, Zenon
  <1>3. IsFiniteSet(1..tokens[r]) /\ Cardinality(1..tokens[r]) = tokens[r]
    <2>1. 1 \in Int /\ tokens[r] \in Int
      OBVIOUS
    <2>2. IsFiniteSet(1..tokens[r])
      BY <2>1, FS_Interval, Zenon
    <2>3. Cardinality(1..tokens[r]) = IF 1 > tokens[r] THEN 0 ELSE tokens[r] - 1 + 1
      BY <2>1, FS_Interval, Zenon
    <2>. QED BY <2>2, <2>3
  <1>4. Cardinality(Own) = 1 * tokens[r]
    BY <1>2, <1>3, FS_Product
  <1>5. Spent({r}) = Cardinality(Own)
    BY <1>1 DEF Spent
  <1>. HIDE DEF Own
  <1>. QED BY <1>4, <1>5

(* Charging one more request adds its estimate to the sum.                 *)
LEMMA SpentOneMore ==
    ASSUME BudgetAssumption, NEW S \in SUBSET Requests, NEW r \in Requests \ S,
           tokens[r] \in Nat, tokens[r] <= MaxRequestTokens
    PROVE  Spent(S \cup {r}) = Spent(S) + tokens[r]
  BY SpentUnion, SpentAlone, S \cap {r} = {}

(* Estimates never change, so neither does what a set of requests spends.  *)
LEMMA SpentStable ==
    ASSUME NEW S, tokens' = tokens
    PROVE  Spent(S)' = Spent(S)
  BY DEF Spent, ChargedTokens

-----------------------------------------------------------------------------
(***************************************************************************)
(* The window limit.                                                       *)
(***************************************************************************)
(* The requests charged to a window are requests.                          *)
LEMMA PassedInType == \A p, g, s : PassedIn(p, g, s) \in SUBSET Requests
  BY DEF PassedIn, Passed

(* The balance a request finds is what its window has admitted so far, and *)
(* a window it opens starts after every earlier one has ended.             *)
LEMMA WindowBalance ==
    ASSUME BudgetAssumption, TypeOK, BudgetInv, NEW r \in Requests
    PROVE  LET w == Window(r)
           IN  /\ w.tokens = Spent(PassedIn(principal[r], process, w.start))
               /\ w.start <= now
               /\ \A q \in Passed(principal[r], process) :
                     \/ charge[q].start = w.start
                     \/ charge[q].start + WindowSecs < w.start
  <1>. DEFINE p == principal[r]
              w == Window(r)
  <1>0. /\ p \in Principals /\ reading[r] \in Nat /\ reading[r] <= now /\ now \in Nat
        /\ process \in Nat
        /\ \A q \in Requests : charge[q].start \in Nat
    BY DEF TypeOK, BudgetAssumption, BudgetInv, ClocksInPast
  <1>1. ASSUME p \notin DOMAIN usage
        PROVE  /\ w.tokens = Spent(PassedIn(p, process, w.start))
               /\ w.start <= now
               /\ \A q \in Passed(p, process) :
                     \/ charge[q].start = w.start
                     \/ charge[q].start + WindowSecs < w.start
    <2>1. w = [start |-> reading[r], tokens |-> 0]
      BY <1>1 DEF Window, FreshWindow
    <2>2. Passed(p, process) = {}
      BY <1>1 DEF BudgetInv, ChargesPrecedeEntry, Passed
    <2>3. PassedIn(p, process, w.start) = {}
      BY <2>2 DEF PassedIn
    <2>. QED BY <1>0, <2>1, <2>2, <2>3, SpentNothing
  <1>2. ASSUME p \in DOMAIN usage
        PROVE  /\ w.tokens = Spent(PassedIn(p, process, w.start))
               /\ w.start <= now
               /\ \A q \in Passed(p, process) :
                     \/ charge[q].start = w.start
                     \/ charge[q].start + WindowSecs < w.start
    <2>0. /\ usage[p].start \in Nat /\ usage[p].tokens \in Nat
          /\ usage[p].start <= now
          /\ usage[p].tokens = Spent(PassedIn(p, process, usage[p].start))
      BY <1>2 DEF TypeOK, UsageWindow, BudgetInv, ClocksInPast, BalanceIsWindowSum
    <2>1. \A q \in Passed(p, process) :
             \/ charge[q].start = usage[p].start
             \/ charge[q].start + WindowSecs < usage[p].start
      BY DEF BudgetInv, ChargesPrecedeEntry, Passed
    <2>2. CASE ~Expired(r)
      <3>1. w = usage[p]
        BY <1>2, <2>2 DEF Window
      <3>. QED BY <2>0, <2>1, <3>1
    <2>3. CASE Expired(r)
      <3>1. w = [start |-> reading[r], tokens |-> 0]
        BY <2>3 DEF Window, FreshWindow
      <3>2. reading[r] > usage[p].start + WindowSecs
        BY <1>0, <2>0, <2>3 DEF Expired, Elapsed, BudgetAssumption
      <3>3. \A q \in Passed(p, process) : charge[q].start + WindowSecs < reading[r]
        BY <1>0, <2>0, <2>1, <3>2 DEF Passed, BudgetAssumption
      <3>4. PassedIn(p, process, w.start) = {}
        BY <1>0, <3>1, <3>3 DEF PassedIn, Passed, BudgetAssumption
      <3>. QED BY <1>0, <3>1, <3>3, <3>4, SpentNothing
    <2>. QED BY <2>2, <2>3
  <1>. QED BY <1>1, <1>2

(* A step that admits nobody leaves the admissions of every window alone,  *)
(* and with them all that is said of charges only.                         *)
LEMMA NobodyAdmitted ==
    ASSUME TypeOK, TypeOK', BudgetInv,
           UNCHANGED <<principal, tokens, charge>>,
           \A q \in Requests : phase'[q] = "passed" <=> phase[q] = "passed"
    PROVE  /\ \A p, g, s : PassedIn(p, g, s)' = PassedIn(p, g, s)
           /\ \A p, g, s : Spent(PassedIn(p, g, s))' = Spent(PassedIn(p, g, s))
           /\ WindowWithinLimit'
           /\ WindowsApart'
  <1>1. \A p, g, s : PassedIn(p, g, s)' = PassedIn(p, g, s)
    BY DEF PassedIn, Passed
  <1>2. \A p, g, s : Spent(PassedIn(p, g, s))' = Spent(PassedIn(p, g, s))
    BY <1>1 DEF Spent, ChargedTokens
  <1>3. WindowWithinLimit'
    BY <1>2 DEF WindowWithinLimit, BudgetInv
  <1>4. WindowsApart'
    BY DEF WindowsApart, BudgetInv
  <1>. QED BY <1>1, <1>2, <1>3, <1>4

(* A request that only moves on in front of the lock.                      *)
LEMMA BudgetInv_OutsideLock ==
    ASSUME BudgetAssumption, TypeOK, TypeOK', BudgetInv, NEW r \in Requests,
           RejectOversize(r) \/ ReadClock(r)
    PROVE  BudgetInv'
  <1>. USE DEF RejectOversize, ReadClock, inputs
  <1>1. /\ \A q \in Requests : phase'[q] = "passed" <=> phase[q] = "passed"
        /\ UNCHANGED <<principal, tokens, charge, usage, process, now>>
    BY DEF TypeOK
  <1>2. ClocksInPast'
    BY DEF TypeOK, BudgetInv, ClocksInPast
  <1>3. RequestWithinLimit'
    BY DEF TypeOK, BudgetInv, RequestWithinLimit
  <1>4. BalanceWithinLimit' /\ ChargesPrecedeEntry'
    BY <1>1 DEF BudgetInv, BalanceWithinLimit, ChargesPrecedeEntry
  <1>5. BalanceIsWindowSum'
    BY <1>1, NobodyAdmitted DEF BudgetInv, BalanceIsWindowSum
  <1>. QED BY <1>1, <1>2, <1>3, <1>4, <1>5, NobodyAdmitted DEF BudgetInv

(* Admission: the window of r gains r and its estimate.                    *)
LEMMA AdmissionEffect ==
    ASSUME TypeOK, BudgetInv, NEW r \in Requests, Charge(r)
    PROVE  LET key == <<principal[r], process, Window(r).start>>
           IN  \A p, g, s :
                  PassedIn(p, g, s)' =
                      IF <<p, g, s>> = key
                      THEN PassedIn(p, g, s) \cup {r}
                      ELSE PassedIn(p, g, s)
  <1>1. /\ phase'[r] = "passed"
        /\ phase[r] # "passed"
        /\ charge'[r].process = process
        /\ charge'[r].start = Window(r).start
        /\ principal' = principal
        /\ \A q \in Requests : q # r => phase'[q] = phase[q] /\ charge'[q] = charge[q]
    BY DEF Charge, TypeOK, inputs
  <1>. QED BY <1>1 DEF PassedIn, Passed

LEMMA BudgetInv_Charge ==
    ASSUME BudgetAssumption, TypeOK, TypeOK', BudgetInv, NEW r \in Requests, Charge(r)
    PROVE  BudgetInv'
  <1>. DEFINE w == Window(r)
              p0 == principal[r]
              Now == PassedIn(p0, process, w.start)
              e == [start |-> w.start, tokens |-> w.tokens + tokens[r]]
  <1>1. /\ w.start \in Nat /\ w.tokens \in Nat /\ tokens[r] \in Nat
        /\ w.tokens = Spent(Now)
        /\ w.start <= now
        /\ w.tokens + tokens[r] <= MaxWindowTokens
        /\ tokens[r] <= MaxRequestTokens
    BY WindowType, WindowBalance
    DEF UsageWindow, TypeOK, BudgetAssumption, Charge, Fits, BudgetInv, RequestWithinLimit
  <1>2. /\ DOMAIN usage' = DOMAIN usage \cup {p0}
        /\ usage'[p0].start = w.start
        /\ usage'[p0].tokens = w.tokens + tokens[r]
        /\ \A p \in DOMAIN usage : p # p0 => usage'[p] = usage[p]
    <2>1. e \in UsageWindow /\ Store(r, e)
      BY <1>1 DEF Charge, UsageWindow
    <2>2. /\ e.start = w.start
          /\ e.tokens = w.tokens + tokens[r]
      OBVIOUS
    <2>. HIDE DEF e, w
    <2>. QED BY <2>1, <2>2, StoreEffect
  <1>3. /\ UNCHANGED <<now, process, principal, tokens, reading>>
        /\ phase[r] = "timed" /\ phase'[r] = "passed"
        /\ charge'[r].process = process /\ charge'[r].start = w.start
        /\ \A q \in Requests : q # r => phase'[q] = phase[q] /\ charge'[q] = charge[q]
    BY DEF Charge, TypeOK, inputs
  <1>4. /\ Spent(Now \cup {r}) = w.tokens + tokens[r]
        /\ \A p, g, s :
              Spent(PassedIn(p, g, s))' =
                  IF <<p, g, s>> = <<p0, process, w.start>>
                  THEN w.tokens + tokens[r]
                  ELSE Spent(PassedIn(p, g, s))
    <2>1. r \notin Now
      BY <1>3 DEF PassedIn, Passed
    <2>2. Now \in SUBSET Requests
      BY PassedInType
    <2>3. Spent(Now \cup {r}) = w.tokens + tokens[r]
      BY <1>1, <2>1, <2>2, SpentOneMore
    <2>4. \A p, g, s :
              Spent(PassedIn(p, g, s))' =
                  IF <<p, g, s>> = <<p0, process, w.start>>
                  THEN Spent(Now \cup {r})
                  ELSE Spent(PassedIn(p, g, s))
      <3>. SUFFICES ASSUME NEW p, NEW g, NEW s
                    PROVE  Spent(PassedIn(p, g, s))' =
                              IF <<p, g, s>> = <<p0, process, w.start>>
                              THEN Spent(Now \cup {r})
                              ELSE Spent(PassedIn(p, g, s))
        OBVIOUS
      <3>1. PassedIn(p, g, s)' = IF <<p, g, s>> = <<p0, process, w.start>>
                                 THEN PassedIn(p, g, s) \cup {r}
                                 ELSE PassedIn(p, g, s)
        BY AdmissionEffect
      <3>. QED BY <1>3, <3>1 DEF Spent, ChargedTokens
    <2>. QED BY <2>3, <2>4
  <1>5. ClocksInPast'
    BY <1>1, <1>2, <1>3 DEF BudgetInv, ClocksInPast
  <1>6. RequestWithinLimit'
    BY <1>1, <1>3 DEF BudgetInv, RequestWithinLimit
  <1>7. BalanceWithinLimit'
    BY <1>1, <1>2 DEF BudgetInv, BalanceWithinLimit
  <1>8. \A q \in Passed(p0, process) :
           charge[q].start = w.start \/ charge[q].start + WindowSecs < w.start
    BY WindowBalance
  <1>9. ChargesPrecedeEntry'
    <2>. SUFFICES ASSUME NEW q \in Requests, phase'[q] = "passed"
                  PROVE  /\ charge'[q].process <= process
                         /\ charge'[q].process = process =>
                              /\ principal[q] \in DOMAIN usage'
                              /\ \/ charge'[q].start = usage'[principal[q]].start
                                 \/ charge'[q].start + WindowSecs
                                        < usage'[principal[q]].start
      BY <1>3 DEF ChargesPrecedeEntry
    <2>1. CASE q = r
      BY <1>2, <1>3, <2>1 DEF TypeOK, BudgetAssumption
    <2>2. CASE q # r /\ principal[q] = p0
      BY <1>2, <1>3, <1>8, <2>2 DEF BudgetInv, ChargesPrecedeEntry, Passed
    <2>3. CASE q # r /\ principal[q] # p0
      BY <1>2, <1>3, <2>3 DEF BudgetInv, ChargesPrecedeEntry
    <2>. QED BY <2>1, <2>2, <2>3
  <1>10. BalanceIsWindowSum'
    BY <1>2, <1>3, <1>4 DEF BudgetInv, BalanceIsWindowSum
  <1>11. WindowWithinLimit'
    BY <1>1, <1>3, <1>4 DEF BudgetInv, WindowWithinLimit
  <1>12. WindowsApart'
    <2>1. \A q \in Requests : charge[q].start \in Nat
      BY DEF TypeOK
    <2>2. ASSUME NEW q \in Requests, q # r, phase[q] = "passed",
                 principal[q] = p0, charge[q].process = process
          PROVE  charge[q].start = w.start \/ charge[q].start + WindowSecs < w.start
      BY <1>8, <2>2 DEF Passed
    <2>. QED
      BY <1>1, <1>3, <2>1, <2>2 DEF BudgetInv, WindowsApart, BudgetAssumption
  <1>. QED
    BY <1>5, <1>6, <1>7, <1>9, <1>10, <1>11, <1>12 DEF BudgetInv

(* A refusal: it charges nothing, but may have opened a window.            *)
LEMMA BudgetInv_RejectExhausted ==
    ASSUME BudgetAssumption, TypeOK, TypeOK', BudgetInv, NEW r \in Requests,
           RejectExhausted(r)
    PROVE  BudgetInv'
  <1>. DEFINE w == Window(r)
              p0 == principal[r]
  <1>1. /\ UNCHANGED <<now, process, principal, tokens, reading, charge>>
        /\ phase[r] = "timed" /\ phase'[r] = "rejected"
        /\ \A q \in Requests : q # r => phase'[q] = phase[q]
        /\ \A q \in Requests : phase'[q] = "passed" <=> phase[q] = "passed"
    BY DEF RejectExhausted, TypeOK, inputs
  <1>2. /\ w.start \in Nat /\ w.tokens \in Nat
        /\ w.tokens = Spent(PassedIn(p0, process, w.start))
        /\ w.start <= now
    BY WindowType, WindowBalance DEF UsageWindow
  <1>3. /\ DOMAIN usage' = DOMAIN usage \cup {p0}
        /\ usage'[p0] = w
        /\ \A p \in DOMAIN usage : p # p0 => usage'[p] = usage[p]
    BY WindowType, StoreEffect DEF RejectExhausted
  <1>4. w.tokens <= MaxWindowTokens
    BY DEF Window, FreshWindow, BudgetInv, BalanceWithinLimit, BudgetAssumption
  <1>5. ClocksInPast'
    BY <1>1, <1>2, <1>3 DEF BudgetInv, ClocksInPast
  <1>6. RequestWithinLimit'
    BY <1>1 DEF BudgetInv, RequestWithinLimit
  <1>7. BalanceWithinLimit'
    BY <1>3, <1>4 DEF BudgetInv, BalanceWithinLimit
  <1>8. \A q \in Passed(p0, process) :
           charge[q].start = w.start \/ charge[q].start + WindowSecs < w.start
    BY WindowBalance
  <1>9. ChargesPrecedeEntry'
    BY <1>1, <1>3, <1>8 DEF BudgetInv, ChargesPrecedeEntry, Passed
  <1>10. /\ BalanceIsWindowSum'
         /\ WindowWithinLimit'
         /\ WindowsApart'
    <2>1. /\ \A p, g, s : Spent(PassedIn(p, g, s))' = Spent(PassedIn(p, g, s))
          /\ WindowWithinLimit'
          /\ WindowsApart'
      BY <1>1, NobodyAdmitted
    <2>2. BalanceIsWindowSum'
      BY <1>1, <1>2, <1>3, <2>1 DEF BudgetInv, BalanceIsWindowSum
    <2>. QED BY <2>1, <2>2
  <1>. QED
    BY <1>5, <1>6, <1>7, <1>9, <1>10 DEF BudgetInv

LEMMA BudgetInv_Tick ==
    ASSUME BudgetAssumption, TypeOK, TypeOK', BudgetInv, Tick
    PROVE  BudgetInv'
  <1>. USE DEF Tick, inputs
  <1>1. /\ \A p, g, s : Spent(PassedIn(p, g, s))' = Spent(PassedIn(p, g, s))
        /\ WindowWithinLimit'
        /\ WindowsApart'
    BY NobodyAdmitted
  <1>2. ClocksInPast'
    BY DEF TypeOK, UsageWindow, BudgetInv, ClocksInPast
  <1>3. /\ RequestWithinLimit'
        /\ BalanceWithinLimit'
        /\ ChargesPrecedeEntry'
    BY DEF BudgetInv, RequestWithinLimit, BalanceWithinLimit, ChargesPrecedeEntry
  <1>4. BalanceIsWindowSum'
    BY <1>1 DEF BudgetInv, BalanceIsWindowSum
  <1>. QED BY <1>1, <1>2, <1>3, <1>4 DEF BudgetInv

(* A restart empties the map; no charge was ever made by the new process.  *)
LEMMA BudgetInv_Restart ==
    ASSUME BudgetAssumption, TypeOK, TypeOK', BudgetInv, Restart
    PROVE  BudgetInv'
  <1>1. /\ UNCHANGED <<now, principal, tokens, reading, charge>>
        /\ process' = process + 1 /\ process \in Nat
        /\ DOMAIN usage' = {}
        /\ \A q \in Requests : phase'[q] = "passed" <=> phase[q] = "passed"
        /\ \A q \in Requests : phase'[q] = "timed" => phase[q] = "timed"
    BY DEF Restart, TypeOK, BudgetAssumption, inputs, NoUsage
  <1>2. WindowWithinLimit' /\ WindowsApart'
    BY <1>1, NobodyAdmitted
  <1>3. ChargesPrecedeEntry'
    BY <1>1 DEF TypeOK, BudgetInv, ChargesPrecedeEntry
  <1>4. ClocksInPast' /\ RequestWithinLimit' /\ BalanceWithinLimit' /\ BalanceIsWindowSum'
    BY <1>1 DEF BudgetInv, ClocksInPast, RequestWithinLimit, BalanceWithinLimit,
                BalanceIsWindowSum
  <1>. QED BY <1>2, <1>3, <1>4 DEF BudgetInv

LEMMA BudgetInvStep ==
    BudgetAssumption /\ TypeOK /\ BudgetInv /\ [Next]_vars => BudgetInv'
  <1>. SUFFICES ASSUME BudgetAssumption, TypeOK, BudgetInv, [Next]_vars
                PROVE  BudgetInv'
    OBVIOUS
  <1>1. TypeOK'
    BY TypeStep
  <1>2. ASSUME NEW r \in Requests, Inspect(r) PROVE BudgetInv'
    <2>1. CASE RejectOversize(r) \/ ReadClock(r)
      BY <1>1, <2>1, BudgetInv_OutsideLock
    <2>2. CASE Charge(r)
      BY <1>1, <2>2, BudgetInv_Charge
    <2>3. CASE RejectExhausted(r)
      BY <1>1, <2>3, BudgetInv_RejectExhausted
    <2>. QED BY <1>2, <2>1, <2>2, <2>3 DEF Inspect
  <1>3. CASE Tick
    BY <1>1, <1>3, BudgetInv_Tick
  <1>4. CASE Restart
    BY <1>1, <1>4, BudgetInv_Restart
  <1>5. CASE Rest \/ UNCHANGED vars
    <2>1. UNCHANGED vars
      BY <1>5 DEF Rest
    <2>. QED
      BY <2>1 DEF vars, BudgetInv, ClocksInPast, RequestWithinLimit, BalanceWithinLimit,
                  ChargesPrecedeEntry, BalanceIsWindowSum, WindowWithinLimit,
                  WindowsApart, Spent, ChargedTokens, PassedIn, Passed
  <1>. QED BY <1>2, <1>3, <1>4, <1>5 DEF Next

(* The invariant that carries the limit holds in every reachable state.    *)
THEOREM BudgetInvariant == Spec => []BudgetInv
  <1>1. Init => BudgetInv
    BY BudgetAssumption
    DEF Init, BudgetInv, ClocksInPast, RequestWithinLimit, BalanceWithinLimit,
        ChargesPrecedeEntry, BalanceIsWindowSum, WindowWithinLimit, WindowsApart,
        NoUsage, BudgetAssumption
  <1>. QED
    BY <1>1, BudgetInvStep, TypeCorrect, BudgetAssumption, PTL DEF Spec

(* token_budget.rs:66-85 keeps every window of every principal within      *)
(* max_window_tokens, whatever the interleaving and the age of a reading.  *)
THEOREM WindowLimit == Spec => []WindowWithinLimit
  BY BudgetInvariant, PTL DEF BudgetInv

(* Windows of a principal start more than window_secs apart.               *)
THEOREM WindowsSeparated == Spec => []WindowsApart
  BY BudgetInvariant, PTL DEF BudgetInv

(* The balance of an entry is the sum of what its window admitted.         *)
THEOREM BalanceExact == Spec => []BalanceIsWindowSum
  BY BudgetInvariant, PTL DEF BudgetInv

-----------------------------------------------------------------------------
(***************************************************************************)
(* The rate over real time.                                                *)
(***************************************************************************)
(* A request never reads the clock after its window has ended.             *)
LEMMA ReadingInWindow ==
    ASSUME BudgetAssumption, TypeOK, NEW r \in Requests
    PROVE  reading[r] <= Window(r).start + WindowSecs
  <1>1. reading[r] \in Nat /\ WindowSecs \in Nat
    BY DEF TypeOK, BudgetAssumption
  <1>2. CASE principal[r] \notin DOMAIN usage \/ Expired(r)
    BY <1>1, <1>2 DEF Window, FreshWindow
  <1>3. CASE principal[r] \in DOMAIN usage /\ ~Expired(r)
    <2>1. usage[principal[r]].start \in Nat
      BY <1>3 DEF TypeOK, UsageWindow
    <2>. QED BY <1>1, <1>3, <2>1 DEF Window, Expired, Elapsed
  <1>. QED BY <1>2, <1>3

LEMMA ChargeTimesStep ==
    ASSUME BudgetAssumption, TypeOK, BudgetInv, ChargeTimes, [Next]_vars
    PROVE  ChargeTimes'
  <1>0. /\ now \in Nat /\ MaxStale \in Nat /\ WindowSecs \in Nat
        /\ \A r \in Requests : reading[r] \in Nat /\ reading[r] <= now
        /\ \A r \in Requests : charge[r].start \in Nat /\ charge[r].at \in Nat
    BY DEF TypeOK, BudgetAssumption, BudgetInv, ClocksInPast
  <1>1. ASSUME NEW r \in Requests, RejectOversize(r) \/ RejectExhausted(r) PROVE ChargeTimes'
    BY <1>1 DEF RejectOversize, RejectExhausted, ChargeTimes, TypeOK, inputs
  <1>2. ASSUME NEW r \in Requests, ReadClock(r) PROVE ChargeTimes'
    BY <1>0, <1>2 DEF ReadClock, ChargeTimes, TypeOK, inputs
  <1>3. ASSUME NEW r \in Requests, Charge(r) PROVE ChargeTimes'
    <2>. DEFINE w == Window(r)
    <2>1. w.start \in Nat /\ w.start <= now
      BY WindowType, WindowBalance DEF UsageWindow
    <2>2. reading[r] <= w.start + WindowSecs /\ now - reading[r] <= MaxStale
      BY <1>3, ReadingInWindow DEF Charge, ChargeTimes
    <2>3. /\ charge'[r].start = w.start /\ charge'[r].at = now
          /\ phase'[r] = "passed" /\ now' = now /\ reading' = reading
          /\ \A q \in Requests \ {r} : charge'[q] = charge[q] /\ phase'[q] = phase[q]
      BY <1>3 DEF Charge, TypeOK, inputs
    <2>. HIDE DEF w
    <2>. QED BY <1>0, <2>1, <2>2, <2>3 DEF ChargeTimes
  <1>4. CASE Tick
    BY <1>0, <1>4 DEF Tick, ChargeTimes, inputs
  <1>5. CASE Restart
    BY <1>5 DEF Restart, ChargeTimes, inputs
  <1>6. CASE Rest \/ UNCHANGED vars
    BY <1>6 DEF Rest, vars, ChargeTimes
  <1>. QED
    BY <1>1, <1>2, <1>3, <1>4, <1>5, <1>6 DEF Next, Inspect

(* A charge is made while its window lasts, give or take a stale reading.  *)
THEOREM ChargesInWindow == Spec => []ChargeTimes
  <1>1. Init => ChargeTimes
    BY DEF Init, ChargeTimes
  <1>. QED
    BY <1>1, ChargeTimesStep, TypeCorrect, BudgetInvariant, BudgetAssumption, PTL DEF Spec

(* What stands against a refused request was admitted in its window.       *)
LEMMA RefusalStep ==
    ASSUME BudgetAssumption, TypeOK, BudgetInv, ChargeTimes, [Next]_vars,
           NEW r \in Requests, phase[r] = "timed", phase'[r] = "rejected"
    PROVE  Spent({q \in Passed(principal[r], process) :
                    now - charge[q].at <= WindowSecs + MaxStale})
             + tokens[r] > MaxWindowTokens
  <1>. DEFINE w == Window(r)
              window == PassedIn(principal[r], process, w.start)
              recent == {q \in Passed(principal[r], process) :
                           now - charge[q].at <= WindowSecs + MaxStale}
  <1>1. RejectExhausted(r)
    <2>1. \A q \in Requests : RejectOversize(q) \/ ReadClock(q) \/ Charge(q)
            => ~(phase[r] = "timed" /\ phase'[r] = "rejected")
      BY DEF RejectOversize, ReadClock, Charge, TypeOK
    <2>2. \A q \in Requests : RejectExhausted(q) => q = r
      BY DEF RejectExhausted, TypeOK
    <2>3. ~Tick /\ ~Restart /\ ~Rest /\ ~UNCHANGED vars
      BY DEF Tick, Restart, Rest, vars
    <2>. QED BY <2>1, <2>2, <2>3 DEF Next, Inspect
  <1>2. w.tokens + tokens[r] > MaxWindowTokens
    BY <1>1, WindowType DEF RejectExhausted, Fits, UsageWindow, TypeOK, BudgetAssumption
  <1>3. w.tokens = Spent(window) /\ w.start \in Nat /\ w.tokens \in Nat
    BY WindowBalance, WindowType DEF UsageWindow
  <1>4. window \subseteq recent
    <2>. SUFFICES ASSUME NEW q \in window PROVE now - charge[q].at <= WindowSecs + MaxStale
      BY DEF PassedIn
    <2>1. q \in Requests /\ phase[q] = "passed" /\ charge[q].start = w.start
      BY DEF PassedIn, Passed
    <2>2. /\ w.start <= charge[q].at
          /\ reading[r] <= w.start + WindowSecs /\ now - reading[r] <= MaxStale
      BY <1>1, <2>1, ReadingInWindow DEF ChargeTimes
    <2>3. /\ now \in Nat /\ reading[r] \in Nat /\ WindowSecs \in Nat /\ MaxStale \in Nat
          /\ charge[q].at \in Nat
      BY <2>1 DEF TypeOK, BudgetAssumption
    <2>. HIDE DEF w, window
    <2>. QED BY <1>3, <2>2, <2>3
  <1>5. recent \in SUBSET Requests
    BY DEF Passed
  <1>6. Spent(window) <= Spent(recent) /\ Spent(recent) \in Nat /\ tokens[r] \in Nat
    BY <1>4, <1>5, SpentMonotone, SpentType DEF TypeOK, BudgetAssumption
  <1>7. MaxWindowTokens \in Nat
    BY DEF BudgetAssumption
  <1>. HIDE DEF w, window, recent
  <1>8. Spent(recent) + tokens[r] > MaxWindowTokens
    BY <1>2, <1>3, <1>6, <1>7
  <1>. QED BY <1>8 DEF recent

(* Old charges never refuse a request (token_budget.rs:73-84): what stands *)
(* against it was admitted within window_secs and the age of a reading.    *)
THEOREM RefusalsAreRecent == Spec => RefusedForRecentUse
  <1>1. BudgetAssumption /\ TypeOK /\ BudgetInv /\ ChargeTimes /\ [Next]_vars
        => [\A r \in Requests :
              (phase[r] = "timed" /\ phase'[r] = "rejected")
                  => Spent({q \in Passed(principal[r], process) :
                              now - charge[q].at <= WindowSecs + MaxStale})
                       + tokens[r] > MaxWindowTokens]_vars
    BY RefusalStep
  <1>. QED
    BY <1>1, TypeCorrect, BudgetInvariant, ChargesInWindow, BudgetAssumption, PTL
    DEF Spec, RefusedForRecentUse

(* Quotients of numbers that lie a divisor apart differ.                   *)
LEMMA DivisionFact ==
    ASSUME NEW a \in Nat, NEW d \in Nat \ {0}
    PROVE  a \div d \in Nat /\ d * (a \div d) <= a /\ a < d * (a \div d) + d
  OBVIOUS

LEMMA QuotientsApart ==
    ASSUME NEW a \in Nat, NEW b \in Nat, NEW d \in Nat \ {0}, b - a >= d
    PROVE  a \div d # b \div d
  <1>. SUFFICES ASSUME a \div d = b \div d PROVE FALSE
    OBVIOUS
  <1>. DEFINE m == d * (a \div d)
  <1>1. m \in Int /\ a < m + d /\ m <= b /\ m <= a /\ b < m + d
    BY DivisionFact
  <1>. HIDE DEF m
  <1>. QED BY <1>1

LEMMA QuotientsOrdered ==
    ASSUME NEW a \in Nat, NEW b \in Nat, NEW d \in Nat \ {0}, a <= b
    PROVE  a \div d <= b \div d
  BY DivisionFact

(* What a window admitted can be numbered within the limit.                *)
LEMMA Numbering ==
    ASSUME BudgetAssumption, NEW S \in SUBSET Requests, Spent(S) <= MaxWindowTokens
    PROVE  Injection(ChargedTokens(S), 1..MaxWindowTokens) # {}
  <1>. DEFINE n == Spent(S)
              X == ChargedTokens(S)
  <1>1. IsFiniteSet(X) /\ n \in Nat /\ n = Cardinality(X) /\ MaxWindowTokens \in Nat
    BY SpentType DEF Spent, BudgetAssumption
  <1>2. ExistsBijection(1..n, X)
    BY <1>1, FS_CardinalityType
  <1>3. ExistsBijection(X, 1..n)
    BY <1>2, Fun_ExistsBijSymmetric
  <1>4. PICK f \in Bijection(X, 1..n) : TRUE
    BY <1>3, Fun_ExistsBij
  <1>. HIDE DEF n, X
  <1>5. f \in [X -> 1..n] /\ \A a, b \in X : f[a] = f[b] => a = b
    BY <1>4, Fun_BijectionProperties
  <1>6. 1..n \subseteq 1..MaxWindowTokens
    BY <1>1 DEF n
  <1>7. f \in [X -> 1..MaxWindowTokens]
    BY <1>5, <1>6
  <1>8. f \in Injection(X, 1..MaxWindowTokens)
    BY <1>5, <1>7, Fun_IsInj
  <1>. QED BY <1>8 DEF X

(* Each token admitted in the span is told by the number of its window     *)
(* among the windows in sight and its own number in the window.            *)
LEMMA SpanSpent ==
    ASSUME BudgetAssumption, TypeOK, BudgetInv, ChargeTimes,
           NEW p \in Principals, NEW g \in 0..process, NEW t \in 0..now
    PROVE  Spent({r \in Passed(p, g) : charge[r].at \in t..(t + WindowSecs)})
             <= WindowsInSight * MaxWindowTokens
  <1>. DEFINE S == {r \in Passed(p, g) : charge[r].at \in t..(t + WindowSecs)}
              X == ChargedTokens(S)
              start(u) == charge[u[1]].start
              window(s) == ChargedTokens(PassedIn(p, g, s))
              number(s) == CHOOSE h : h \in Injection(window(s), 1..MaxWindowTokens)
              place(s) == s + WindowSecs + MaxStale - t
              which(s) == place(s) \div (WindowSecs + 1)
              K == WindowsInSight
              T == (0..(K - 1)) \X (1..MaxWindowTokens)
              f == [u \in X |-> <<which(start(u)), number(start(u))[u]>>]
  <1>1. /\ WindowSecs \in Nat /\ MaxStale \in Nat /\ t \in Nat /\ MaxWindowTokens \in Nat
        /\ WindowSecs + 1 \in Nat \ {0}
    BY DEF BudgetAssumption, TypeOK
  <1>2. K \in Nat /\ K - 1 = (2 * WindowSecs + MaxStale) \div (WindowSecs + 1)
    BY <1>1, DivisionFact DEF WindowsInSight
  <1>3. ASSUME NEW u \in X
        PROVE  /\ u[1] \in S /\ u[1] \in Requests /\ phase[u[1]] = "passed"
               /\ principal[u[1]] = p /\ charge[u[1]].process = g
               /\ start(u) \in Nat
               /\ u \in window(start(u))
    BY DEF ChargedTokens, Passed, PassedIn, TypeOK
  <1>4. ASSUME NEW u \in X
        PROVE  place(start(u)) \in 0..(2 * WindowSecs + MaxStale)
    <2>1. charge[u[1]].at \in t..(t + WindowSecs)
      BY <1>3
    <2>2. /\ start(u) <= charge[u[1]].at
          /\ charge[u[1]].at <= start(u) + WindowSecs + MaxStale
          /\ start(u) \in Nat /\ charge[u[1]].at \in Nat
      BY <1>3 DEF ChargeTimes, TypeOK
    <2>. HIDE DEF start
    <2>. QED BY <1>1, <2>1, <2>2
  <1>5. ASSUME NEW u \in X PROVE which(start(u)) \in 0..(K - 1)
    <2>. DEFINE a == place(start(u))
                b == 2 * WindowSecs + MaxStale
    <2>1. a \in Nat /\ a <= b /\ b \in Nat
      BY <1>1, <1>4
    <2>. HIDE DEF a, b
    <2>2. a \div (WindowSecs + 1) \in Nat
          /\ a \div (WindowSecs + 1) <= b \div (WindowSecs + 1)
      BY <1>1, <2>1, QuotientsOrdered, DivisionFact
    <2>. HIDE DEF K
    <2>. QED BY <1>2, <2>2 DEF a, b
  <1>6. ASSUME NEW u \in X
        PROVE  number(start(u)) \in Injection(window(start(u)), 1..MaxWindowTokens)
    <2>1. PassedIn(p, g, start(u)) \in SUBSET Requests
      BY PassedInType
    <2>2. Spent(PassedIn(p, g, start(u))) <= MaxWindowTokens
      BY <1>3 DEF BudgetInv, WindowWithinLimit
    <2>3. Injection(window(start(u)), 1..MaxWindowTokens) # {}
      BY <2>1, <2>2, Numbering
    <2>. HIDE DEF window, start
    <2>. QED BY <2>3
  <1>7. ASSUME NEW u \in X
        PROVE  /\ number(start(u))[u] \in 1..MaxWindowTokens
               /\ \A v \in window(start(u)) :
                     number(start(u))[u] = number(start(u))[v] => u = v
    <2>1. u \in window(start(u))
      BY <1>3
    <2>. HIDE DEF window, start, number
    <2>. QED BY <1>6, <2>1, Fun_InjectionProperties
  <1>8. f \in [X -> T]
    <2>. HIDE DEF which, number, start, X, K
    <2>. QED BY <1>5, <1>7
  <1>9. ASSUME NEW u \in X, NEW v \in X, which(start(u)) = which(start(v))
        PROVE  start(u) = start(v)
    <2>1. /\ start(u) \in Nat /\ start(v) \in Nat
          /\ start(u) < start(v) => start(v) - start(u) > WindowSecs
          /\ start(v) < start(u) => start(u) - start(v) > WindowSecs
      BY <1>3 DEF BudgetInv, WindowsApart
    <2>2. place(start(u)) \in Nat /\ place(start(v)) \in Nat
      BY <1>1, <1>4
    <2>3. start(u) < start(v) => place(start(v)) - place(start(u)) >= WindowSecs + 1
      <3>. HIDE DEF start
      <3>. QED BY <1>1, <2>1
    <2>4. start(v) < start(u) => place(start(u)) - place(start(v)) >= WindowSecs + 1
      <3>. HIDE DEF start
      <3>. QED BY <1>1, <2>1
    <2>. HIDE DEF start, place
    <2>5. ~(start(u) < start(v)) /\ ~(start(v) < start(u))
      BY <1>1, <1>9, <2>2, <2>3, <2>4, QuotientsApart
    <2>. QED BY <2>1, <2>5
  <1>10. \A u, v \in X : f[u] = f[v] => u = v
    <2>. SUFFICES ASSUME NEW u \in X, NEW v \in X, f[u] = f[v] PROVE u = v
      OBVIOUS
    <2>1. /\ which(start(u)) = which(start(v))
          /\ number(start(u))[u] = number(start(v))[v]
      <3>. HIDE DEF which, number, start, X
      <3>. QED OBVIOUS
    <2>2. start(u) = start(v)
      BY <1>9, <2>1
    <2>3. v \in window(start(v))
      BY <1>3
    <2>. HIDE DEF which, number, start, X, window
    <2>. QED BY <1>7, <2>1, <2>2, <2>3
  <1>11. IsFiniteSet(T) /\ Cardinality(T) = K * MaxWindowTokens
    <2>. HIDE DEF K
    <2>1. /\ IsFiniteSet(0..(K - 1)) /\ Cardinality(0..(K - 1)) = K
      <3>1. 0 \in Int /\ K - 1 \in Int
        BY <1>2
      <3>2. /\ IsFiniteSet(0..(K - 1))
            /\ Cardinality(0..(K - 1)) = IF 0 > K - 1 THEN 0 ELSE (K - 1) - 0 + 1
        BY <3>1, FS_Interval, Zenon
      <3>. QED BY <1>2, <3>2
    <2>2. IsFiniteSet(1..MaxWindowTokens) /\ Cardinality(1..MaxWindowTokens) = MaxWindowTokens
      <3>1. 1 \in Int /\ MaxWindowTokens \in Int
        BY <1>1
      <3>2. /\ IsFiniteSet(1..MaxWindowTokens)
            /\ Cardinality(1..MaxWindowTokens)
                  = IF 1 > MaxWindowTokens THEN 0 ELSE MaxWindowTokens - 1 + 1
        BY <3>1, FS_Interval, Zenon
      <3>. QED BY <1>1, <3>2
    <2>. QED BY <2>1, <2>2, FS_Product
  <1>. HIDE DEF f, X, T
  <1>12. Cardinality(X) <= Cardinality(T)
    BY <1>8, <1>10, <1>11, Fun_IsInj, FS_Injection
  <1>. QED BY <1>11, <1>12 DEF Spent, X

(* The rate that is really enforced (token_budget.rs:66-87): within any    *)
(* window_secs of real time a principal gets at most as many windows' worth *)
(* of tokens as can have charges in that time, two when readings are fresh. *)
THEOREM RateOfCharges == Spec => []ThroughputBound
  <1>1. BudgetAssumption /\ TypeOK /\ BudgetInv /\ ChargeTimes => ThroughputBound
    BY SpanSpent DEF ThroughputBound
  <1>. QED
    BY <1>1, TypeCorrect, BudgetInvariant, ChargesInWindow, BudgetAssumption, PTL

-----------------------------------------------------------------------------
(***************************************************************************)
(* The detector implements WindowQuota.                                    *)
(***************************************************************************)
Balance == [p \in Principals |-> IF p \in DOMAIN usage THEN usage[p].tokens ELSE 0]

VerdictOf == [r \in Requests |->
                 IF phase[r] \in {"waiting", "timed"} THEN "pending" ELSE phase[r]]

(* A step that changes the phase of one request changes its verdict only.  *)
LEMMA VerdictStep ==
    ASSUME TypeOK, NEW r \in Requests, NEW v \in {"passed", "rejected"},
           phase[r] \in {"waiting", "timed"}, phase' = [phase EXCEPT ![r] = v]
    PROVE  /\ VerdictOf[r] = "pending"
           /\ VerdictOf' = [VerdictOf EXCEPT ![r] = v]
  BY DEF VerdictOf, TypeOK

(* Storing an entry for r changes the balance of its principal only.       *)
LEMMA BalanceStep ==
    ASSUME TypeOK, NEW r \in Requests, NEW e \in UsageWindow, Store(r, e)
    PROVE  Balance' = [Balance EXCEPT ![principal[r]] = e.tokens]
  <1>1. principal[r] \in Principals
    BY DEF TypeOK
  <1>2. /\ DOMAIN usage' = DOMAIN usage \cup {principal[r]}
        /\ usage'[principal[r]] = e
        /\ \A p \in DOMAIN usage : p # principal[r] => usage'[p] = usage[p]
    BY StoreEffect
  <1>3. \A p \in Principals :
           (IF p \in DOMAIN usage' THEN usage'[p].tokens ELSE 0) =
           (IF p = principal[r] THEN e.tokens
            ELSE IF p \in DOMAIN usage THEN usage[p].tokens ELSE 0)
    BY <1>1, <1>2
  <1>. QED BY <1>1, <1>3 DEF Balance

(* A request starts from the balance of its principal or from nothing.     *)
LEMMA BalanceFound ==
    ASSUME TypeOK, NEW r \in Requests
    PROVE  Window(r).tokens \in {Balance[principal[r]], 0}
  <1>1. principal[r] \in Principals
    BY DEF TypeOK
  <1>. QED BY <1>1 DEF Window, FreshWindow, Balance

LEMMA QuotaStep ==
    ASSUME BudgetAssumption, TypeOK, BudgetInv, [Next]_vars
    PROVE  [Quota!QuotaNext]_(Quota!quotaVars)
  <1>. USE DEF Quota!QuotaNext, Quota!quotaVars
  <1>1. ASSUME NEW r \in Requests, RejectOversize(r) PROVE Quota!QuotaNext
    <2>1. Quota!TurnAwayOversize(r)
      BY <1>1, VerdictStep
      DEF RejectOversize, inputs, VerdictOf, Quota!TurnAwayOversize, Quota!Verdict
    <2>. QED BY <2>1
  <1>2. ASSUME NEW r \in Requests, ReadClock(r) PROVE UNCHANGED Quota!quotaVars
    BY <1>2 DEF ReadClock, inputs, TypeOK
  <1>3. ASSUME NEW r \in Requests, Charge(r) PROVE Quota!QuotaNext
    <2>. DEFINE b == Window(r).tokens
                e == [start |-> Window(r).start, tokens |-> b + tokens[r]]
    <2>1. /\ e \in UsageWindow /\ e.tokens = b + tokens[r]
      BY WindowType DEF UsageWindow, TypeOK, BudgetAssumption
    <2>2. Balance' = [Balance EXCEPT ![principal[r]] = b + tokens[r]]
      BY <1>3, <2>1, BalanceStep DEF Charge
    <2>3. VerdictOf[r] = "pending" /\ VerdictOf' = [VerdictOf EXCEPT ![r] = "passed"]
      BY <1>3, VerdictStep DEF Charge
    <2>4. tokens[r] <= MaxRequestTokens
      BY <1>3 DEF Charge, BudgetInv, RequestWithinLimit
    <2>5. b \in {Balance[principal[r]], 0} /\ b + tokens[r] <= MaxWindowTokens
      BY <1>3, BalanceFound DEF Charge, Fits
    <2>6. Quota!Admit(r)
      BY <1>3, <2>2, <2>3, <2>4, <2>5
      DEF Charge, inputs, Balance, VerdictOf, Quota!Admit, Quota!Balances, Quota!Verdict
    <2>. QED BY <2>6
  <1>4. ASSUME NEW r \in Requests, RejectExhausted(r) PROVE Quota!QuotaNext
    <2>. DEFINE b == Window(r).tokens
    <2>1. Balance' = [Balance EXCEPT ![principal[r]] = b]
      BY <1>4, WindowType, BalanceStep DEF RejectExhausted
    <2>2. VerdictOf[r] = "pending" /\ VerdictOf' = [VerdictOf EXCEPT ![r] = "rejected"]
      BY <1>4, VerdictStep DEF RejectExhausted
    <2>3. tokens[r] <= MaxRequestTokens
      BY <1>4 DEF RejectExhausted, BudgetInv, RequestWithinLimit
    <2>4. b \in {Balance[principal[r]], 0}
      BY BalanceFound
    <2>5. b + tokens[r] > MaxWindowTokens
      BY <1>4, WindowType
      DEF RejectExhausted, Fits, UsageWindow, TypeOK, BudgetAssumption
    <2>6. Quota!TurnAwayExhausted(r)
      BY <1>4, <2>1, <2>2, <2>3, <2>4, <2>5
      DEF RejectExhausted, inputs, Balance, VerdictOf,
          Quota!TurnAwayExhausted, Quota!Balances, Quota!Verdict
    <2>. QED BY <2>6
  <1>5. CASE Tick
    BY <1>5 DEF Tick, inputs
  <1>6. CASE Restart
    <2>. DEFINE lost == {r \in Requests : phase[r] = "timed"}
    <2>1. lost \in SUBSET {r \in Requests : VerdictOf[r] = "pending"}
      BY DEF VerdictOf
    <2>2. Balance' = [p \in Principals |-> 0]
      BY <1>6 DEF Restart, NoUsage, Balance
    <2>3. VerdictOf' = [r \in Requests |->
                           IF r \in lost THEN "dropped" ELSE VerdictOf[r]]
      BY <1>6 DEF Restart, VerdictOf, TypeOK
    <2>4. Quota!Forget
      BY <1>6, <2>1, <2>2, <2>3
      DEF Restart, inputs, Balance, VerdictOf, Quota!Forget
    <2>. QED BY <2>4
  <1>7. CASE Rest \/ UNCHANGED vars
    BY <1>7 DEF Rest, vars
  <1>. QED
    BY <1>1, <1>2, <1>3, <1>4, <1>5, <1>6, <1>7 DEF Next, Inspect

(* Every behaviour of the detector is one of the quota: each verdict of    *)
(* inspect_request is one indivisible decision on its principal's balance. *)
THEOREM QuotaRefinement == Spec => ImplementsQuota
  <1>1. Init => Quota!QuotaInit
    BY DEF Init, NoUsage, Quota!QuotaInit
  <1>. QED
    BY <1>1, QuotaStep, TypeCorrect, BudgetInvariant, BudgetAssumption, PTL
    DEF Spec, ImplementsQuota, Quota!QuotaSpec
====
