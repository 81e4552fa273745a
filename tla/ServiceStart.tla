---- MODULE ServiceStart ----
(***************************************************************************)
(* How the program comes up: src/src/main.rs and src/src/config.rs.  A     *)
(* process parses its arguments, loads the configuration it is pointed at, *)
(* lets the environment override it, validates it, builds the detectors    *)
(* and then, unless it was only to check the configuration, binds its      *)
(* address and serves.  Processes are launched in any order, one beside    *)
(* another, while the files they read are edited.                          *)
(*                                                                         *)
(* Texts of which only a class matters are named for the class: a URL is   *)
(* "http", "query", "fragment", "other_scheme" or "unparsable", an address *)
(* to bind may be blank or no address, a pattern of a rule may be one that *)
(* does not compile.                                                       *)
(***************************************************************************)
EXTENDS Integers, Sequences, FiniteSets, TLC

CONSTANTS
    Processes,     \* processes the operator may launch
    Files,         \* paths of configuration files
    Documents,     \* what a file may hold
    Environments,  \* environments a process may be launched in
    ArgumentLists, \* arguments a process may be launched with
    PatternPaths,  \* the paths that fit each route path which is a pattern
    MaxLaunches,   \* bound on the processes launched
    MaxEdits       \* bound on the edits of files

ASSUME StartAssumption ==
    /\ MaxLaunches \in Nat
    /\ MaxEdits \in Nat
    /\ Files \subseteq STRING
    /\ "llm-firewall.yaml" \in Files
    /\ ArgumentLists \subseteq Seq(STRING)
    /\ "/healthz" \notin DOMAIN PatternPaths

VARIABLES
    disk,     \* what each file holds
    proc,     \* each process: its stage, its locals and how it ended
    checked,  \* history: the contents and environments reported as OK
    launches, \* processes launched so far
    edits     \* edits made so far

startVars == <<disk, proc, checked, launches, edits>>

-----------------------------------------------------------------------------
(***************************************************************************)
(* The configuration: a document is a function from the sections and       *)
(* fields it mentions; what it leaves out takes a default.                 *)
(***************************************************************************)
ServerDefaults ==
    [allowed_paths |-> <<"/v1/chat/completions", "/v1/responses">>,
     max_body_size |-> 1024 * 1024, max_response_buffer |-> 32 * 1024,
     request_timeout_secs |-> 60, metrics_path |-> "/metrics",
     strict_chat_validation |-> TRUE]

UpstreamDefaults == [api_key_env |-> "OPENAI_API_KEY", require_api_key |-> FALSE]

LoggingDefaults == [level |-> "info", json |-> TRUE, audit_body_chars |-> 2048]

RuleDefaults == [action |-> "block"]

DefaultRules ==
    <<[name |-> "ssn", pattern |-> "ssn", action |-> "redact"],
      [name |-> "credit_card", pattern |-> "credit_card", action |-> "block"],
      [name |-> "email", pattern |-> "email", action |-> "redact"],
      [name |-> "api_key", pattern |-> "api_key", action |-> "block"]>>

DefaultPatterns ==
    {"ignore previous instructions", "disregard all prior instructions",
     "reveal your system prompt", "developer mode", "jailbreak", "do anything now",
     "disable safety"}

(* The fields of a detector's section that the section leaves out.         *)
FieldDefaults ==
    [injection |-> [enabled |-> TRUE, action |-> "block", patterns |-> DefaultPatterns],
     dlp |-> [enabled |-> TRUE, rules |-> DefaultRules],
     system_prompt |-> [enabled |-> FALSE, mode |-> "inject", prompt |-> ""],
     output_sanitizer |-> [enabled |-> TRUE, action |-> "block"],
     tool_call |-> [enabled |-> TRUE, allowed_tools |-> {}],
     token_budget |-> [enabled |-> TRUE, max_request_tokens |-> 8192,
                       max_window_tokens |-> 50000, window_secs |-> 3600],
     rate_limiter |-> [enabled |-> TRUE, requests_per_minute |-> 60]]

(* The section of a detector the document does not mention: the sanitizer  *)
(* redacts then, where an empty section makes it block.                    *)
SectionDefaults == [FieldDefaults EXCEPT !.output_sanitizer.action = "redact"]

Detectors == DOMAIN FieldDefaults

Required == {"server", "upstream", "detectors", "logging"}

(* serde finds the four sections and the two fields that have no default.  *)
Deserializes(document) ==
    /\ document.kind = "yaml"
    /\ Required \subseteq DOMAIN document.sections
    /\ "bind" \in DOMAIN document.sections.server
    /\ "url" \in DOMAIN document.sections.upstream

DetectorConfig(sections, d) ==
    IF d \notin DOMAIN sections THEN SectionDefaults[d]
    ELSE IF d = "dlp" /\ "rules" \in DOMAIN sections.dlp
      THEN [sections.dlp EXCEPT !.rules =
               [i \in DOMAIN @ |-> @[i] @@ RuleDefaults]] @@ FieldDefaults.dlp
    ELSE sections[d] @@ FieldDefaults[d]

Deserialized(document) ==
    LET s == document.sections IN
    [server |-> s.server @@ ServerDefaults,
     upstream |-> s.upstream @@ UpstreamDefaults,
     detectors |-> [d \in Detectors |-> DetectorConfig(s.detectors, d)],
     logging |-> s.logging @@ LoggingDefaults]

(* A variable that is unset or no Unicode overrides nothing.               *)
Override(env, name, value) ==
    IF name \in DOMAIN env /\ env[name] # "not_unicode" THEN env[name] ELSE value

apply_env_overrides(config, env) ==
    [config EXCEPT
       !.server.bind = Override(env, "LLMFW_BIND", @),
       !.upstream.url = Override(env, "LLMFW_UPSTREAM_URL", @),
       !.upstream.api_key_env = Override(env, "LLMFW_UPSTREAM_API_KEY_ENV", @),
       !.logging.level = Override(env, "LLMFW_LOG_LEVEL", @)]

Blank(text) == text \in {"", "  "}

RelativePaths == {"v1/responses"}

Absolute(path) == ~Blank(path) /\ path \notin RelativePaths

MaxStrictBody == 8 * 1024 * 1024

validate(config) ==
    /\ ~Blank(config.server.bind)
    /\ \A i \in DOMAIN config.server.allowed_paths : Absolute(config.server.allowed_paths[i])
    /\ config.server.max_body_size # 0
    /\ config.server.max_response_buffer # 0
    /\ config.server.strict_chat_validation => config.server.max_body_size <= MaxStrictBody
    /\ config.upstream.url \notin {"unparsable", "query", "fragment"}
    /\ config.upstream.require_api_key => ~Blank(config.upstream.api_key_env)

NoConfig == <<>>

(* Deviant: the overrides are applied after the validation.                *)
LoadThenOverride(document, env) ==
    IF Deserializes(document) /\ validate(Deserialized(document))
      THEN apply_env_overrides(Deserialized(document), env)
      ELSE NoConfig

(* Config::load: the configuration in force, or none when an error is      *)
(* returned.                                                               *)
LoadedConfig(document, env) ==
    LET config == apply_env_overrides(Deserialized(document), env) IN
    IF Deserializes(document) /\ validate(config) THEN config ELSE NoConfig

(* serde gives the sizes the type usize; a URL is of one of the classes.   *)
URLs == {"http", "query", "fragment", "other_scheme", "unparsable"}

TypedConfig(config) ==
    /\ config.server.max_body_size \in Nat
    /\ config.server.max_response_buffer \in Nat
    /\ config.upstream.url \in URLs

ASSUME TypedAssumption ==
    \A document \in Documents, env \in Environments :
        Deserializes(document) =>
            TypedConfig(apply_env_overrides(Deserialized(document), env))

Levels == {"error", "warn", "info", "debug", "trace"}

TracingLevel(config) ==
    IF config.logging.level \in Levels THEN config.logging.level ELSE "info"

(* Pipeline::from_config: only the rules' patterns can fail to compile,    *)
(* and only when the detector that has them is enabled.                    *)
PipelineBuilds(config) ==
    config.detectors.dlp.enabled =>
        \A i \in DOMAIN config.detectors.dlp.rules :
            config.detectors.dlp.rules[i].pattern # "no_regex"

(* Deviant: the metrics route is registered first.                         *)
RoutesMetricsFirst(config) ==
    <<[path |-> config.server.metrics_path, to |-> "metrics_endpoint"],
      [path |-> "/healthz", to |-> "healthz"]>>

(* The routes of the application, in the order of their registration.      *)
Routes(config) ==
    <<[path |-> "/healthz", to |-> "healthz"],
      [path |-> config.server.metrics_path, to |-> "metrics_endpoint"]>>

(* A route whose path is a pattern covers the paths that fit it.           *)
Covers(route, path) ==
    IF route.path \in DOMAIN PatternPaths THEN path \in PatternPaths[route.path]
    ELSE route.path = path

(* Who answers a request: App::route makes the method a guard of the whole *)
(* route, so a GET goes to the first route that covers its path, and what  *)
(* no route takes, any other method included, to the default service.      *)
AnsweredBy(config, path, method) ==
    LET matching == {i \in DOMAIN Routes(config) :
                        method = "GET" /\ Covers(Routes(config)[i], path)}
    IN  IF matching = {} THEN "proxy_handler"
        ELSE Routes(config)[CHOOSE i \in matching : \A j \in matching : i <= j].to

-----------------------------------------------------------------------------
(***************************************************************************)
(* The processes.                                                          *)
(***************************************************************************)
NoDocument == [kind |-> "unread"]

NotLaunched ==
    [stage |-> "ended", rest |-> <<>>, path |-> "llm-firewall.yaml", check |-> FALSE,
     env |-> <<>>, document |-> NoDocument, config |-> NoConfig, level |-> "", result |-> "none"]

StartInit ==
    /\ disk \in [Files -> Documents]
    /\ proc = [p \in Processes |-> NotLaunched]
    /\ checked = {}
    /\ launches = 0
    /\ edits = 0

(* The arguments and the environment of a process never change, the file   *)
(* it will read may.                                                       *)
Launch(p) ==
    /\ proc[p].stage = "ended"
    /\ launches < MaxLaunches
    /\ \E list \in ArgumentLists, env \in Environments :
         proc' = [proc EXCEPT ![p] =
                    [NotLaunched EXCEPT !.stage = "arguments", !.rest = list, !.env = env]]
    /\ launches' = launches + 1
    /\ UNCHANGED <<disk, checked, edits>>

EditFile ==
    /\ edits < MaxEdits
    /\ \E f \in Files, document \in Documents :
         disk' = [disk EXCEPT ![f] = document]
    /\ edits' = edits + 1
    /\ UNCHANGED <<proc, checked, launches>>

End(p, result) ==
    proc' = [proc EXCEPT ![p].stage = "ended", ![p].result = result]

(* One turn of the loop of Args::parse.                                    *)
ParseArgument(p) ==
    LET rest == proc[p].rest IN
    /\ proc[p].stage = "arguments"
    /\ \/ /\ rest = <<>>
          /\ proc' = [proc EXCEPT ![p].stage = "load"]
       \/ /\ rest # <<>>
          /\ Head(rest) \in {"--config", "-c"}
          /\ IF Tail(rest) = <<>>
               THEN End(p, "usage")
               ELSE proc' = [proc EXCEPT ![p].path = rest[2], ![p].rest = Tail(Tail(rest))]
       \/ /\ rest # <<>>
          /\ Head(rest) = "--validate-config"
          /\ proc' = [proc EXCEPT ![p].check = TRUE, ![p].rest = Tail(rest)]
       \/ /\ rest # <<>>
          /\ Head(rest) \in {"--help", "-h"}
          /\ End(p, "help")
       \/ /\ rest # <<>>
          /\ Head(rest) \notin {"--config", "-c", "--validate-config", "--help", "-h"}
          /\ End(p, "usage")
    /\ UNCHANGED <<disk, checked, launches, edits>>

(* A path that no file has reads like a file that cannot be read.          *)
Unreadable == [kind |-> "unreadable"]

Contents(path) == IF path \in Files THEN disk[path] ELSE Unreadable

Load(p) ==
    LET document == Contents(proc[p].path)
        config   == LoadedConfig(document, proc[p].env)
    IN
    /\ proc[p].stage = "load"
    /\ proc' = [proc EXCEPT ![p] =
                  IF config = NoConfig
                    THEN [@ EXCEPT !.document = document, !.stage = "ended",
                                   !.result = "config"]
                    ELSE [@ EXCEPT !.document = document, !.stage = "pipeline",
                                   !.config = config, !.level = TracingLevel(config)]]
    /\ UNCHANGED <<disk, checked, launches, edits>>

ReportOK(p) ==
    /\ End(p, "ok")
    /\ checked' = checked \union {<<proc[p].document, proc[p].env>>}

(* Deviant: a process that only checks ends before the detectors are       *)
(* built.                                                                  *)
CheckThenPipeline(p) ==
    /\ proc[p].stage = "pipeline"
    /\ IF proc[p].check THEN ReportOK(p)
       ELSE /\ IF PipelineBuilds(proc[p].config)
                 THEN proc' = [proc EXCEPT ![p].stage = "client"]
                 ELSE End(p, "pipeline")
            /\ UNCHANGED checked
    /\ UNCHANGED <<disk, launches, edits>>

BuildPipeline(p) ==
    /\ proc[p].stage = "pipeline"
    /\ IF ~PipelineBuilds(proc[p].config)
         THEN End(p, "pipeline") /\ UNCHANGED checked
         ELSE IF proc[p].check THEN ReportOK(p)
         ELSE /\ proc' = [proc EXCEPT ![p].stage = "client"]
              /\ UNCHANGED checked
    /\ UNCHANGED <<disk, launches, edits>>

BuildClient(p) ==
    /\ proc[p].stage = "client"
    /\ \/ proc' = [proc EXCEPT ![p].stage = "bind"]
       \/ End(p, "client")
    /\ UNCHANGED <<disk, checked, launches, edits>>

Serving(p) == proc[p].stage = "serving"

Held == {proc[p].config.server.bind : p \in {q \in Processes : Serving(q)}}

(* An address may be held by a program that is none of these processes.    *)
Bind(p) ==
    /\ proc[p].stage = "bind"
    /\ \/ /\ proc[p].config.server.bind \notin Held \union {"no_address"}
          /\ proc' = [proc EXCEPT ![p].stage = "serving"]
       \/ End(p, "bind")
    /\ UNCHANGED <<disk, checked, launches, edits>>

(* A signal, or a crash, ends a process that serves.                       *)
Stop(p) ==
    /\ Serving(p)
    /\ End(p, "stopped")
    /\ UNCHANGED <<disk, checked, launches, edits>>

(* Every process launched has ended and no other will be.                  *)
RestStart ==
    /\ launches = MaxLaunches
    /\ \A p \in Processes : proc[p].stage = "ended"
    /\ UNCHANGED startVars

StartNext ==
    \/ \E p \in Processes :
         \/ Launch(p) \/ ParseArgument(p) \/ Load(p) \/ BuildPipeline(p)
         \/ BuildClient(p) \/ Bind(p) \/ Stop(p)
    \/ EditFile
    \/ RestStart

StartSpec == StartInit /\ [][StartNext]_startVars

-----------------------------------------------------------------------------
(***************************************************************************)
(* Properties.                                                             *)
(***************************************************************************)
Stages == {"arguments", "load", "pipeline", "client", "bind", "serving", "ended"}
Results == {"none", "usage", "help", "config", "pipeline", "ok", "client", "bind", "stopped"}

Readable == Documents \union {Unreadable}

Configs ==
    {NoConfig} \union {LoadedConfig(d, e) : d \in Readable, e \in Environments}

ProcessStates ==
    [stage : Stages, rest : Seq(STRING), path : STRING, check : BOOLEAN,
     env : Environments \union {<<>>}, document : Readable \union {NoDocument},
     config : Configs, level : Levels \union {""}, result : Results]

TypeOK ==
    /\ disk \in [Files -> Documents]
    /\ proc \in [Processes -> ProcessStates]
    /\ checked \subseteq Readable \X Environments
    /\ launches \in 0..MaxLaunches
    /\ edits \in 0..MaxEdits

(* What a process has at hand is what it read, completed, overridden and   *)
(* validated.                                                              *)
LoadedAsRead(state) ==
    /\ state.config = LoadedConfig(state.document, state.env)
    /\ state.config # NoConfig
    /\ state.document \in Readable
    /\ state.env \in Environments

(* How far a process came tells what it has; how it ended, what it lacked. *)
Trail(state) ==
    /\ state.stage \in {"arguments", "load"} => state.env \in Environments
    /\ state.stage \in {"pipeline", "client", "bind", "serving"} => LoadedAsRead(state)
    /\ state.stage # "ended" => state.result = "none"
    /\ state.result = "config" => LoadedConfig(state.document, state.env) = NoConfig
    /\ state.result = "pipeline" => LoadedAsRead(state) /\ ~PipelineBuilds(state.config)

(* Only contents that load and whose detectors can be built are reported.  *)
CheckedTrail ==
    \A report \in checked :
        LET config == LoadedConfig(report[1], report[2])
        IN  config # NoConfig /\ PipelineBuilds(config)

(* The inductive invariant of the proofs.                                  *)
StartInv == TypeOK /\ CheckedTrail /\ \A p \in Processes : Trail(proc[p])

(* Whatever the file says and the environment overrides, the configuration *)
(* a process serves under is one the handler can work with: limits that    *)
(* admit a body, absolute paths, a URL a request path can be appended to,  *)
(* a name for a key that is required.                                      *)
ServedConfigUsable ==
    \A p \in Processes : Serving(p) =>
        LET c == proc[p].config IN
        /\ c.server.max_body_size > 0 /\ c.server.max_response_buffer > 0
        /\ \A i \in DOMAIN c.server.allowed_paths :
             Absolute(c.server.allowed_paths[i])
        /\ c.upstream.url \in {"http", "other_scheme"}
        /\ c.upstream.require_api_key => ~Blank(c.upstream.api_key_env)

(* The report "configuration OK" can be relied on (install.sh:109): a      *)
(* process that later reads the same contents in the same environment      *)
(* fails neither to load them nor to build its detectors.                  *)
CheckedConfigStarts ==
    \A p \in Processes :
        proc[p].result \in {"config", "pipeline"} =>
            <<proc[p].document, proc[p].env>> \notin checked

(* The health probe is answered by its own endpoint under every            *)
(* configuration, also one whose metrics path is the probe's or a pattern  *)
(* it fits; a POST to an allowed path reaches the proxy whatever the       *)
(* routes, and a GET wherever the metrics path leaves it.                  *)
ProbesAnswered ==
    \A p \in Processes : Serving(p) =>
        LET c == proc[p].config
            metrics == [path |-> c.server.metrics_path]
        IN  /\ AnsweredBy(c, "/healthz", "GET") = "healthz"
            /\ \A i \in DOMAIN c.server.allowed_paths :
                  LET path == c.server.allowed_paths[i] IN
                  /\ AnsweredBy(c, path, "POST") = "proxy_handler"
                  /\ (path # "/healthz" /\ ~Covers(metrics, path))
                        => AnsweredBy(c, path, "GET") = "proxy_handler"
====
