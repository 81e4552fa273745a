---- MODULE MetricsScrape ----
(***************************************************************************)
(* The metrics endpoint beside the handlers: render_prometheus of          *)
(* src/src/utils/metrics.rs, served by main.rs:79-83.  A page is put       *)
(* together from seven loads, between which handlers go on counting; the   *)
(* loads are relaxed, so they may be carried out in any order.             *)
(***************************************************************************)
EXTENDS ProxyHandler

CONSTANT MaxPages \* bound on the pages rendered

ASSUME ScrapeAssumption == MaxPages \in Nat

VARIABLES
    loaded, \* the loads made so far for the page being rendered
    since,  \* history: the counters when that page was begun
    page,   \* the last page rendered by this process: none, or what it shows
    pages   \* how many pages were rendered

scrape == <<loaded, since, page, pages>>
scrapeVars == <<vars, scrape>>

(* The names on the page and the counters that fill their places in the    *)
(* format string, by position.                                             *)
Names ==
    <<"requests_started", "requests_allowed", "request_blocks", "response_blocks",
      "validation_errors", "upstream_errors", "proxy_errors">>

(* Deviant: two of the arguments change places.                            *)
SwappedArguments ==
    <<"requests_started", "requests_allowed", "request_blocks", "response_blocks",
      "proxy_errors", "upstream_errors", "validation_errors">>

Arguments ==
    <<"requests_started", "requests_allowed", "request_blocks", "response_blocks",
      "validation_errors", "upstream_errors", "proxy_errors">>

None == [c \in {} |-> 0]
Idle == [rendering |-> FALSE, values |-> None]

ScrapeInit ==
    /\ Init
    /\ loaded = Idle
    /\ since = None
    /\ page = None
    /\ pages = 0

BeginPage ==
    /\ ~loaded.rendering
    /\ pages < MaxPages
    /\ loaded' = [rendering |-> TRUE, values |-> None]
    /\ since' = metrics
    /\ pages' = pages + 1
    /\ UNCHANGED <<vars, page>>

(* What is loaded once counter c is.                                       *)
WithLoad(c) ==
    [n \in DOMAIN loaded.values \cup {c} |->
        IF n = c THEN metrics[c] ELSE loaded.values[n]]

(* Deviant: a counter is set back when it is read.                         *)
LoadAndReset(c) ==
    /\ loaded' = [loaded EXCEPT !.values = WithLoad(c)]
    /\ metrics' = [metrics EXCEPT ![c] = 0]
    /\ UNCHANGED <<server, reading, phase, requestCtx, responseCtx, ending, sent, audited>>

Load(c) ==
    /\ loaded' = [loaded EXCEPT !.values = WithLoad(c)]
    /\ UNCHANGED vars

LoadCounter ==
    /\ loaded.rendering
    /\ \E c \in Counters \ DOMAIN loaded.values : Load(c)
    /\ UNCHANGED <<since, page, pages>>

Shown == [n \in Counters |->
             LET i == CHOOSE j \in DOMAIN Names : Names[j] = n
             IN  loaded.values[Arguments[i]]]

EndPage ==
    /\ loaded.rendering
    /\ DOMAIN loaded.values = Counters
    /\ page' = Shown
    /\ loaded' = Idle
    /\ since' = None
    /\ UNCHANGED <<vars, pages>>

Handlers ==
    /\ \E r \in Requests : FromClient(r) \/ FromUpstream(r) \/ Handle(r)
    /\ UNCHANGED scrape

(* A page being rendered is lost with its process.                         *)
RestartScrape ==
    /\ Restart
    /\ loaded' = Idle
    /\ since' = None
    /\ page' = None
    /\ UNCHANGED pages

RestScrape == Rest /\ ~loaded.rendering /\ pages = MaxPages /\ UNCHANGED scrape

ScrapeNext ==
    \/ BeginPage \/ LoadCounter \/ EndPage
    \/ Handlers
    \/ RestartScrape
    \/ RestScrape

ScrapeSpec == ScrapeInit /\ [][ScrapeNext]_scrapeVars

-----------------------------------------------------------------------------
(***************************************************************************)
(* Properties.                                                             *)
(***************************************************************************)
(* Every value on a page is one its counter had while the page was         *)
(* rendered, under the counter's own name.                                 *)
ShownWhileRendered ==
    [][EndPage => \A c \in Counters : page'[c] \in since[c]..metrics[c]]_scrapeVars

(* The pages of one process are those of counters: none shows less than    *)
(* the page before it (the TYPE lines, metrics.rs:54-72).                  *)
PagesGrow ==
    [][EndPage => \A c \in DOMAIN page : page[c] <= page'[c]]_scrapeVars

EndedOf(counts) ==
    counts["requests_allowed"] + counts["request_blocks"] + counts["response_blocks"]
        + counts["validation_errors"] + counts["upstream_errors"] + counts["proxy_errors"]

(* A page is no snapshot: it can show more requests ended than started,    *)
(* but only by requests that started while it was rendered, and never one  *)
(* of those as ended that are still on their way.                          *)
SkewBounded ==
    [][EndPage =>
          /\ EndedOf(page') - page'["requests_started"]
                <= metrics["requests_started"] - since["requests_started"]
          /\ EndedOf(page') <= Cardinality({r \in Requests : Counted(r)})
      ]_scrapeVars

(***************************************************************************)
(* The inductive invariant behind these three.  A value loaded lies        *)
(* between its counter as the page was begun and as it is now, and the     *)
(* last page shows no more than the counters had when the next was begun.  *)
(***************************************************************************)
Counts == [Counters -> Nat]
Loads == UNION {[S -> Nat] : S \in SUBSET Counters}

ScrapeInv ==
    /\ loaded \in [rendering : BOOLEAN, values : Loads]
    /\ page \in {None} \cup Counts
    /\ loaded.rendering =>
          /\ since \in Counts
          /\ \A c \in Counters : since[c] <= metrics[c]
          /\ \A c \in DOMAIN loaded.values : loaded.values[c] \in since[c]..metrics[c]
    /\ \A c \in DOMAIN page : page[c] <= (IF loaded.rendering THEN since ELSE metrics)[c]
====
