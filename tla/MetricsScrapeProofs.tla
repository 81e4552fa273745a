---- MODULE MetricsScrapeProofs ----
(***************************************************************************)
(* Proofs about MetricsScrape, for any number of requests, pages and       *)
(* restarts: what a page shows lies between the counters as it was begun   *)
(* and as it is done, the pages of a process grow, and the requests ended  *)
(* by a page exceed those started by it by at most the requests that       *)
(* started while it was rendered.                                          *)
(*                                                                         *)
(* The handlers are those of ProxyHandler, whose invariants carry over;    *)
(* what is new is that between two loads every counter only grows.         *)
(***************************************************************************)
EXTENDS MetricsScrape, ProxyAccountProofs

-----------------------------------------------------------------------------
(***************************************************************************)
(* The handlers beside the endpoint.                                       *)
(***************************************************************************)
(* The handlers do beside the endpoint what they do without it.            *)
LEMMA HandlersStep ==
    ASSUME [ScrapeNext]_scrapeVars
    PROVE  [Next]_vars
<1>1. CASE BeginPage \/ LoadCounter \/ EndPage
  BY <1>1 DEF BeginPage, LoadCounter, Load, EndPage, vars
<1>2. CASE Handlers
  BY <1>2 DEF Handlers, Next
<1>3. CASE RestartScrape
  BY <1>3 DEF RestartScrape, Next
<1>4. CASE RestScrape
  BY <1>4 DEF RestScrape, Next
<1>5. CASE UNCHANGED scrapeVars
  BY <1>5 DEF scrapeVars
<1> QED
  BY <1>1, <1>2, <1>3, <1>4, <1>5 DEF ScrapeNext

(* So their invariants hold here too.                                      *)
LEMMA HandlersInvariant == ScrapeSpec => [](TypeOK /\ HandlerInv /\ AccountInv)
<1>1. ScrapeInit => TypeOK /\ HandlerInv /\ AccountInv
  BY TypeOK_Init, Trail_Init, AccountStart DEF ScrapeInit, HandlerInv, Trail
<1>2. TypeOK /\ HandlerInv /\ AccountInv /\ [ScrapeNext]_scrapeVars
      => (TypeOK /\ HandlerInv /\ AccountInv)'
  BY HandlersStep, Next_Invariant, Next_Account
<1> QED
  BY <1>1, <1>2, PTL DEF ScrapeSpec

(* While a process lives its counters only grow.                           *)
LEMMA CountersGrow ==
    ASSUME TypeOK, NEW r \in Requests, Account(r), Step(r), NEW c \in Counters
    PROVE  metrics[c] <= metrics'[c]
<1>1. metrics[c] \in Nat
  BY DEF TypeOK
<1>2. CASE StartRequest(r)
  BY <1>1, <1>2 DEF StartRequest, Increment, TypeOK
<1>3. CASE Count(r)
  BY <1>1, <1>3 DEF Count, Increment, TypeOK
<1>4. CASE ~StartRequest(r) /\ ~Count(r)
  BY <1>1, <1>4, NotCounting
<1> QED
  BY <1>2, <1>3, <1>4

-----------------------------------------------------------------------------
(***************************************************************************)
(* The invariant of the page.                                              *)
(***************************************************************************)
LEMMA LoadsType ==
    ASSUME NEW v
    PROVE  v \in Loads <=> DOMAIN v \subseteq Counters /\ v \in [DOMAIN v -> Nat]
  BY DEF Loads

LEMMA NoneLoaded == None \in Loads /\ DOMAIN None = {}
<1>1. DOMAIN None = {} /\ None \in [{} -> Nat]
  BY DEF None
<1> QED
  BY <1>1 DEF Loads

LEMMA Scrape_Begin ==
    ASSUME TypeOK, ScrapeInv, BeginPage PROVE ScrapeInv'
<1>1. /\ ~loaded.rendering /\ loaded' = [rendering |-> TRUE, values |-> None]
      /\ since' = metrics /\ metrics' = metrics /\ page' = page
  BY DEF BeginPage, vars
<1>2. metrics \in Counts /\ \A c \in Counters : metrics[c] <= metrics[c]
  BY DEF TypeOK, Counts
<1> QED
  BY <1>1, <1>2, NoneLoaded DEF ScrapeInv

LEMMA Scrape_Load ==
    ASSUME TypeOK, ScrapeInv, LoadCounter PROVE ScrapeInv'
<1>1. PICK c \in Counters \ DOMAIN loaded.values :
         loaded' = [loaded EXCEPT !.values = WithLoad(c)]
  BY DEF LoadCounter, Load
<1>2. /\ loaded.rendering
      /\ UNCHANGED <<metrics, since, page>>
  BY DEF LoadCounter, Load, vars
<1>3. /\ loaded'.values = WithLoad(c) /\ loaded'.rendering = loaded.rendering
      /\ loaded' \in [rendering : BOOLEAN, values : {WithLoad(c)}]
  BY <1>1 DEF ScrapeInv
<1>4. /\ loaded.values \in Loads
      /\ metrics[c] \in Nat /\ since[c] \in Nat /\ since[c] <= metrics[c]
  BY <1>2 DEF ScrapeInv, TypeOK, Counts
<1>5. /\ DOMAIN WithLoad(c) = DOMAIN loaded.values \cup {c}
      /\ WithLoad(c)[c] = metrics[c]
      /\ \A n \in DOMAIN loaded.values : WithLoad(c)[n] = loaded.values[n]
      /\ WithLoad(c) \in Loads
  BY <1>4, LoadsType DEF WithLoad
<1>6. \A n \in DOMAIN WithLoad(c) : WithLoad(c)[n] \in since[n]..metrics[n]
  BY <1>2, <1>4, <1>5 DEF ScrapeInv
<1> QED
  BY <1>2, <1>3, <1>5, <1>6 DEF ScrapeInv

(* Every name is filled with the value of its own counter.                 *)
LEMMA ShownValues ==
    ASSUME NEW c \in Counters
    PROVE  Shown[c] = loaded.values[c]
<1> DEFINE i == CHOOSE j \in DOMAIN Names : Names[j] = c
<1>1. \E j \in DOMAIN Names : Names[j] = c
  BY DEF Names, Counters
<1>2. i \in DOMAIN Names /\ Names[i] = c
  BY <1>1
<1>3. Arguments = Names
  BY DEF Arguments, Names
<1>4. Shown[c] = loaded.values[Arguments[i]]
  BY DEF Shown
<1> HIDE DEF i
<1> QED
  BY <1>2, <1>3, <1>4

(* A page that ends shows values of the time it was rendered.              *)
LEMMA PageValues ==
    ASSUME TypeOK, ScrapeInv, EndPage, NEW c \in Counters
    PROVE  /\ page'[c] \in Nat /\ since[c] \in Nat /\ metrics[c] \in Nat
           /\ page' \in Counts
           /\ since[c] <= page'[c] /\ page'[c] <= metrics[c]
<1>1. \A n \in Counters : /\ loaded.values[n] \in since[n]..metrics[n]
                         /\ since[n] \in Nat /\ metrics[n] \in Nat
  BY DEF EndPage, ScrapeInv, TypeOK, Counts
<1>2. page' = Shown /\ \A n \in Counters : page'[n] = loaded.values[n]
  BY ShownValues DEF EndPage
<1>3. DOMAIN Shown = Counters /\ Shown = [n \in Counters |-> Shown[n]]
  BY DEF Shown
<1>4. \A n \in Counters : Shown[n] \in Nat
  BY <1>1, ShownValues
<1>5. page' \in Counts
  BY <1>2, <1>3, <1>4 DEF Counts
<1> QED
  BY <1>1, <1>2, <1>5

LEMMA Scrape_End ==
    ASSUME TypeOK, ScrapeInv, EndPage PROVE ScrapeInv'
<1>1. /\ loaded' = [rendering |-> FALSE, values |-> None]
      /\ metrics' = metrics
  BY DEF EndPage, Idle, vars
<1>2. page' \in Counts /\ \A c \in Counters : page'[c] <= metrics'[c]
  <2>1. \A c \in Counters : page' \in Counts /\ page'[c] <= metrics[c]
    BY PageValues
  <2>2. "requests_started" \in Counters
    BY DEF Counters
  <2> QED
    BY <1>1, <2>1, <2>2
<1>3. DOMAIN page' = Counters
  BY <1>2 DEF Counts
<1> QED
  BY <1>1, <1>2, <1>3, NoneLoaded DEF ScrapeInv

LEMMA Scrape_Handlers ==
    ASSUME TypeOK, TypeOK', AccountInv, ScrapeInv, Handlers PROVE ScrapeInv'
<1>1. UNCHANGED <<loaded, since, page>>
  BY DEF Handlers, scrape
<1>2. \A c \in Counters : metrics[c] <= metrics'[c]
  BY CountersGrow DEF Handlers, Step, AccountInv, Account
<1>3. \A c \in Counters : metrics[c] \in Nat /\ metrics'[c] \in Nat
  BY DEF TypeOK
<1>4. DOMAIN page \subseteq Counters /\ \A c \in DOMAIN page : page[c] \in Nat
  BY NoneLoaded DEF ScrapeInv, Counts
<1>5. loaded.rendering =>
         /\ \A c \in Counters : since[c] <= metrics'[c]
         /\ \A c \in DOMAIN loaded.values : loaded.values[c] \in since[c]..metrics'[c]
  <2> SUFFICES ASSUME loaded.rendering
               PROVE  /\ \A c \in Counters : since[c] <= metrics'[c]
                      /\ \A c \in DOMAIN loaded.values :
                            loaded.values[c] \in since[c]..metrics'[c]
    OBVIOUS
  <2>1. DOMAIN loaded.values \subseteq Counters
    BY LoadsType DEF ScrapeInv
  <2>2. \A c \in Counters : since[c] \in Nat /\ since[c] <= metrics[c]
    BY DEF ScrapeInv, Counts
  <2>3. \A c \in DOMAIN loaded.values : loaded.values[c] \in since[c]..metrics[c]
    BY DEF ScrapeInv
  <2> QED
    BY <1>2, <1>3, <2>1, <2>2, <2>3
<1>6. ASSUME NEW c \in DOMAIN page
      PROVE  page[c] <= (IF loaded.rendering THEN since ELSE metrics')[c]
  <2>1. page[c] <= (IF loaded.rendering THEN since ELSE metrics)[c]
    BY DEF ScrapeInv
  <2> QED
    BY <1>2, <1>3, <1>4, <2>1
<1> QED
  BY <1>1, <1>5, <1>6 DEF ScrapeInv

LEMMA Scrape_Restart ==
    ASSUME TypeOK, ScrapeInv, RestartScrape PROVE ScrapeInv'
<1>1. loaded' = [rendering |-> FALSE, values |-> None] /\ page' = None
  BY DEF RestartScrape, Idle
<1> QED
  BY <1>1, NoneLoaded DEF ScrapeInv

LEMMA Scrape_Stutter ==
    ASSUME ScrapeInv, UNCHANGED scrapeVars PROVE ScrapeInv'
  BY DEF ScrapeInv, scrapeVars, scrape, vars

LEMMA Scrape_Next ==
    ASSUME TypeOK, TypeOK', AccountInv, ScrapeInv, [ScrapeNext]_scrapeVars
    PROVE  ScrapeInv'
<1>1. RestScrape => UNCHANGED scrapeVars
  BY DEF RestScrape, Rest, scrapeVars
<1> QED
  BY <1>1, Scrape_Begin, Scrape_Load, Scrape_End, Scrape_Handlers, Scrape_Restart,
     Scrape_Stutter DEF ScrapeNext

(* However handlers, loads and restarts interleave, what is loaded and     *)
(* what was shown keep to the counters of their time.                      *)
THEOREM ScrapeInvariant == ScrapeSpec => []ScrapeInv
<1>1. ScrapeInit => ScrapeInv
  <2> SUFFICES ASSUME ScrapeInit PROVE ScrapeInv
    OBVIOUS
  <2>1. loaded = [rendering |-> FALSE, values |-> None] /\ page = None
    BY DEF ScrapeInit, Idle
  <2> QED
    BY <2>1, NoneLoaded DEF ScrapeInv
<1>2. (TypeOK /\ HandlerInv /\ AccountInv) /\ (TypeOK /\ HandlerInv /\ AccountInv)'
      /\ ScrapeInv /\ [ScrapeNext]_scrapeVars => ScrapeInv'
  BY Scrape_Next
<1> QED
  BY <1>1, <1>2, HandlersInvariant, PTL DEF ScrapeSpec

-----------------------------------------------------------------------------
(* A page shows each counter under its name, with a value the counter had  *)
(* while the page was rendered (metrics.rs:51-82).                         *)
THEOREM ShownInTime == ScrapeSpec => ShownWhileRendered
<1>1. TypeOK /\ ScrapeInv
      => [EndPage => \A c \in Counters : page'[c] \in since[c]..metrics[c]]_scrapeVars
  BY PageValues
<1> QED
  BY <1>1, HandlersInvariant, ScrapeInvariant, PTL DEF ShownWhileRendered

(* The pages a process renders never fall back.                            *)
THEOREM PagesOnlyGrow == ScrapeSpec => PagesGrow
<1>1. ASSUME TypeOK, ScrapeInv, EndPage, NEW c \in DOMAIN page
      PROVE  page[c] <= page'[c]
  <2>1. c \in Counters /\ page[c] \in Nat
    BY <1>1, NoneLoaded DEF ScrapeInv, Counts
  <2>2. page[c] <= since[c]
    BY <1>1 DEF ScrapeInv, EndPage
  <2>3. since[c] <= page'[c] /\ page'[c] \in Nat /\ since[c] \in Nat
    BY <1>1, <2>1, PageValues
  <2> QED
    BY <2>1, <2>2, <2>3
<1>2. TypeOK /\ ScrapeInv
      => [EndPage => \A c \in DOMAIN page : page[c] <= page'[c]]_scrapeVars
  BY <1>1
<1> QED
  BY <1>2, HandlersInvariant, ScrapeInvariant, PTL DEF PagesGrow

(* What a page shows as ended had ended, and it exceeds what it shows as   *)
(* started by no more than started while it was rendered.                  *)
THEOREM SkewIsBounded == ScrapeSpec => SkewBounded
<1> DEFINE counted == {r \in Requests : Counted(r)}
           begun == {r \in Requests : OfThisProcess(r)}
<1>1. ASSUME TypeOK, AccountInv, ScrapeInv, EndPage
      PROVE  /\ EndedOf(page') - page'["requests_started"]
                   <= metrics["requests_started"] - since["requests_started"]
             /\ EndedOf(page') <= Cardinality(counted)
  <2>1. \A c \in Counters : /\ page'[c] \in Nat /\ since[c] \in Nat /\ metrics[c] \in Nat
                           /\ since[c] <= page'[c] /\ page'[c] <= metrics[c]
    BY <1>1, PageValues
  <2>2. EndedOf(page') <= EndedOf(metrics) /\ EndedOf(page') \in Nat /\ EndedOf(metrics) \in Nat
    BY <2>1 DEF EndedOf, Counters
  <2>3. EndedOf(metrics) = Cardinality(counted)
    BY <1>1, EndedPartition DEF EndedTotal, EndedOf
  <2>4. metrics["requests_started"] = Cardinality(begun)
    BY <1>1 DEF AccountInv, Tally
  <2>5. Cardinality(counted) <= Cardinality(begun)
    <3>1. counted \in SUBSET begun
      BY DEF Counted
    <3>2. begun \in SUBSET Requests
      OBVIOUS
    <3> HIDE DEF counted, begun
    <3> QED
      BY <3>1, <3>2, HandlerAssumption, FS_Subset DEF HandlerAssumption
  <2>6. "requests_started" \in Counters
    BY DEF Counters
  <2> HIDE DEF counted, begun
  <2> QED
    BY <2>1, <2>2, <2>3, <2>4, <2>5, <2>6
<1>2. TypeOK /\ AccountInv /\ ScrapeInv
      => [EndPage =>
            /\ EndedOf(page') - page'["requests_started"]
                  <= metrics["requests_started"] - since["requests_started"]
            /\ EndedOf(page') <= Cardinality(counted)]_scrapeVars
  BY <1>1
<1> QED
  BY <1>2, HandlersInvariant, ScrapeInvariant, PTL DEF SkewBounded
====
