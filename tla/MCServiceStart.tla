---- MODULE MCServiceStart ----
(***************************************************************************)
(* ServiceStart with two processes and two files: the defaults' document,  *)
(* one that only the environment makes valid or invalid, and one document  *)
(* per way a configuration can be wrong or unusual.                        *)
(***************************************************************************)
EXTENDS ServiceStart

Sections ==
    [server |-> [bind |-> "port"], upstream |-> [url |-> "http"],
     detectors |-> <<>>, logging |-> <<>>]

Yaml(sections) == [kind |-> "yaml", sections |-> sections]

BadRule == <<[name |-> "ssn", pattern |-> "no_regex"]>>

SmallDocuments ==
    {Yaml(Sections),
     \* valid only when the environment overrides the URL and the address
     Yaml([Sections EXCEPT !.upstream = [url |-> "query"], !.server = [bind |-> "  "]]),
     \* the named key is required: valid unless the environment blanks its name;
     \* the metrics path is a pattern that covers every path
     Yaml([Sections EXCEPT !.upstream = [url |-> "http", require_api_key |-> TRUE],
                           !.server = [bind |-> "port", metrics_path |-> "/{tail:.*}"]]),
     \* a rule that does not compile, in a detector that is on or off; the metrics
     \* path is an allowed path
     Yaml([Sections EXCEPT !.detectors = [dlp |-> [rules |-> BadRule]]]),
     Yaml([Sections EXCEPT !.detectors = [dlp |-> [rules |-> BadRule, enabled |-> FALSE]],
                           !.server = [bind |-> "port", metrics_path |-> "/v1/responses"]]),
     \* the metrics path is the probe's, and an allowed path is
     Yaml([Sections EXCEPT !.server =
             [bind |-> "port", metrics_path |-> "/healthz",
              allowed_paths |-> <<"/v1/responses", "/healthz">>]]),
     \* one field out of range
     Yaml([Sections EXCEPT !.server =
             [bind |-> "port", max_body_size |-> 9 * 1024 * 1024]]),
     Yaml([Sections EXCEPT !.server =
             [bind |-> "port", max_response_buffer |-> 0, allowed_paths |-> <<"v1/responses">>]])}

SmallPatternPaths == [pattern \in {"/{tail:.*}"} |-> STRING]

SmallEnvironments ==
    {<<>>,
     [LLMFW_BIND |-> "other_port", LLMFW_UPSTREAM_URL |-> "other_scheme",
      LLMFW_LOG_LEVEL |-> "loud"],
     [LLMFW_UPSTREAM_API_KEY_ENV |-> "  ", LLMFW_BIND |-> "not_unicode"]}

SmallArgumentLists ==
    {<<>>,
     <<"--config", "other.yaml">>,
     <<"-c", "other.yaml", "--validate-config">>,
     <<"--validate-config">>,
     <<"--validate-config", "--config">>,
     <<"--config", "--help">>,
     <<"--help", "--validate-config">>,
     <<"other.yaml">>}

SymmetricProcesses == Permutations(Processes)
====
