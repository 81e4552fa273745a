---- MODULE ServiceStartProofs ----
(***************************************************************************)
(* Theorems about the start of the program: what a process has at hand is  *)
(* what it read, completed, overridden and validated, for every set of     *)
(* processes, files, documents, environments and arguments.                *)
(***************************************************************************)
EXTENDS ServiceStart, SequenceTheorems, TLAPS

(* Config::load returns a configuration only for contents serde accepts,   *)
(* and it is the overridden one that was validated (config.rs:159-165).    *)
LEMMA LoadedIsValid ==
    ASSUME NEW document, NEW env, LoadedConfig(document, env) # NoConfig
    PROVE  /\ Deserializes(document)
           /\ LoadedConfig(document, env) = apply_env_overrides(Deserialized(document), env)
           /\ validate(LoadedConfig(document, env))
BY Zenon DEF LoadedConfig

(* A file that cannot be read is no document.                              *)
LEMMA UnreadableFails == ~Deserializes(Unreadable)
BY DEF Deserializes, Unreadable

(* What was loaded has the types serde gives it.                           *)
LEMMA LoadedIsTyped ==
    ASSUME NEW document \in Readable, NEW env \in Environments,
           LoadedConfig(document, env) # NoConfig
    PROVE  TypedConfig(LoadedConfig(document, env))
<1>1. Deserializes(document) /\ LoadedConfig(document, env)
                                  = apply_env_overrides(Deserialized(document), env)
  BY LoadedIsValid, Zenon
<1>2. document \in Documents
  BY <1>1, UnreadableFails, Zenon DEF Readable
<1> QED
  BY <1>1, <1>2, TypedAssumption, Zenon

LEMMA NoConfigIsOne == NoConfig \in Configs
BY DEF Configs

LEMMA LoadedIsOne ==
    ASSUME NEW document \in Readable, NEW env \in Environments
    PROVE  LoadedConfig(document, env) \in Configs
BY DEF Configs

-----------------------------------------------------------------------------
ProcessesOK ==
    /\ proc \in [Processes -> ProcessStates]
    /\ \A q \in Processes : Trail(proc[q])

(* A step touches one process: it is enough to look at the state it leaves *)
(* that process in.                                                        *)
LEMMA OneProcess ==
    ASSUME ProcessesOK, NEW p \in Processes, NEW state \in ProcessStates, Trail(state),
           proc' = [proc EXCEPT ![p] = state]
    PROVE  ProcessesOK'
<1>1. proc' \in [Processes -> ProcessStates]
  BY DEF ProcessesOK
<1>2. ASSUME NEW q \in Processes PROVE Trail(proc'[q])
  <2>1. CASE q = p
    <3>1. proc'[q] = state
      BY <2>1 DEF ProcessesOK
    <3> QED BY <3>1
  <2>2. CASE q # p
    <3>1. proc'[q] = proc[q]
      BY <2>2 DEF ProcessesOK
    <3> QED BY <3>1 DEF ProcessesOK
  <2> QED BY <2>1, <2>2
<1> QED BY <1>1, <1>2 DEF ProcessesOK

(* A process that moves on with what it loaded keeps its trail.            *)
LEMMA MovesOn ==
    ASSUME ProcessesOK, NEW p \in Processes,
           proc[p].stage \in {"pipeline", "client", "bind"},
           NEW stage \in {"client", "bind", "serving"},
           proc' = [proc EXCEPT ![p].stage = stage]
    PROVE  ProcessesOK'
<1> DEFINE state == [proc[p] EXCEPT !.stage = stage]
<1>1. proc[p] \in ProcessStates /\ Trail(proc[p])
  BY DEF ProcessesOK
<1>2. state \in ProcessStates
  BY <1>1 DEF ProcessStates, Stages
<1>3. /\ state.stage = stage /\ state.result = proc[p].result
      /\ state.document = proc[p].document /\ state.env = proc[p].env
      /\ state.config = proc[p].config
  BY <1>1 DEF ProcessStates
<1>4. LoadedAsRead(proc[p]) /\ proc[p].result = "none"
  BY <1>1 DEF Trail
<1>5. Trail(state)
  BY <1>3, <1>4 DEF Trail, LoadedAsRead
<1>6. proc' = [proc EXCEPT ![p] = state]
  OBVIOUS
<1> HIDE DEF state
<1> QED
  BY <1>2, <1>5, <1>6, OneProcess

(* A process that ends keeps its trail, unless it ends for want of a       *)
(* configuration, or of detectors that it would have been able to build.   *)
LEMMA Ends ==
    ASSUME ProcessesOK, NEW p \in Processes, NEW result \in Results \ {"config"},
           result = "pipeline" => LoadedAsRead(proc[p]) /\ ~PipelineBuilds(proc[p].config),
           End(p, result)
    PROVE  ProcessesOK'
<1> DEFINE state == [proc[p] EXCEPT !.stage = "ended", !.result = result]
<1>1. proc[p] \in ProcessStates
  BY DEF ProcessesOK
<1>2. state \in ProcessStates
  BY <1>1 DEF ProcessStates, Stages
<1>3. /\ state.stage = "ended" /\ state.result = result
      /\ state.document = proc[p].document /\ state.env = proc[p].env
      /\ state.config = proc[p].config
  BY <1>1 DEF ProcessStates
<1>4. Trail(state)
  BY <1>3 DEF Trail, LoadedAsRead
<1>5. proc' = [proc EXCEPT ![p] = state]
  BY <1>1 DEF End, ProcessesOK
<1> HIDE DEF state
<1> QED
  BY <1>2, <1>4, <1>5, OneProcess

(* A record of fields of their types is a state of a process.              *)
LEMMA FieldsTyped ==
    ASSUME NEW stage \in Stages, NEW rest \in Seq(STRING), NEW path \in STRING,
           NEW check \in BOOLEAN, NEW env \in Environments \union {<<>>},
           NEW document \in Readable \union {NoDocument}, NEW config \in Configs,
           NEW level \in Levels \union {""}, NEW result \in Results
    PROVE  [stage |-> stage, rest |-> rest, path |-> path, check |-> check, env |-> env,
            document |-> document, config |-> config, level |-> level, result |-> result]
              \in ProcessStates
BY DEF ProcessStates

LEMMA InitStartInv == StartInit => StartInv
<1> SUFFICES ASSUME StartInit PROVE StartInv
  OBVIOUS
<1>1. NotLaunched \in ProcessStates
  <2>1. <<>> \in Seq(STRING)
    OBVIOUS
  <2>4. "llm-firewall.yaml" \in STRING
    BY StartAssumption, Zenon
  <2>5. FALSE \in BOOLEAN
    OBVIOUS
  <2>2. "ended" \in Stages /\ "none" \in Results /\ "" \in Levels \union {""}
    BY DEF Stages, Results
  <2>3. <<>> \in Environments \union {<<>>} /\ NoDocument \in Readable \union {NoDocument}
    BY Zenon
  <2> QED
    BY <2>1, <2>2, <2>3, <2>4, <2>5, NoConfigIsOne, FieldsTyped, Zenon DEF NotLaunched
<1>2. Trail(NotLaunched)
  BY DEF NotLaunched, Trail
<1>3. TypeOK
  BY <1>1, StartAssumption DEF StartInit, TypeOK
<1>4. \A p \in Processes : Trail(proc[p])
  BY <1>2, Zenon DEF StartInit
<1>5. CheckedTrail
  BY DEF StartInit, CheckedTrail
<1> QED
  BY <1>3, <1>4, <1>5 DEF StartInv

(* What an action on one process does not touch stays as it is.            *)
LEMMA Keeps ==
    ASSUME StartInv, ProcessesOK', UNCHANGED <<disk, checked, edits>>,
           launches' \in 0..MaxLaunches
    PROVE  StartInv'
<1>1. TypeOK'
  BY Zenon DEF StartInv, TypeOK, ProcessesOK
<1>2. CheckedTrail'
  BY Zenon DEF StartInv, CheckedTrail
<1> QED
  BY <1>1, <1>2, Zenon DEF StartInv, ProcessesOK

LEMMA InvProcesses == StartInv => ProcessesOK /\ launches \in 0..MaxLaunches
BY Zenon DEF StartInv, TypeOK, ProcessesOK

-----------------------------------------------------------------------------
LEMMA SecondArgument ==
    ASSUME NEW list \in Seq(STRING), list # <<>>, Tail(list) # <<>>
    PROVE  list[2] \in STRING /\ Tail(Tail(list)) \in Seq(STRING)
<1>1. Tail(list) \in Seq(STRING) /\ Len(Tail(list)) = Len(list) - 1
  BY HeadTailProperties
<1>2. Len(Tail(list)) # 0 /\ Len(list) \in Nat /\ Len(Tail(list)) \in Nat
  BY <1>1, EmptySeq, LenProperties
<1>3. list[2] \in STRING
  BY <1>1, <1>2, ElementOfSeq
<1>4. Tail(Tail(list)) \in Seq(STRING)
  BY <1>1, HeadTailProperties
<1> QED BY <1>3, <1>4

(* Launching: the process starts with nothing read.                        *)
LEMMA LaunchStep ==
    ASSUME StartInv, NEW p \in Processes, Launch(p) PROVE StartInv'
<1>1. PICK list \in ArgumentLists, env \in Environments :
        proc' = [proc EXCEPT ![p] =
                   [NotLaunched EXCEPT !.stage = "arguments", !.rest = list, !.env = env]]
  BY Zenon DEF Launch
<1> DEFINE state == [NotLaunched EXCEPT !.stage = "arguments", !.rest = list, !.env = env]
<1>2. state \in ProcessStates
  BY StartAssumption, NoConfigIsOne DEF NotLaunched, ProcessStates, Stages, Results
<1>3. Trail(state)
  BY DEF NotLaunched, Trail
<1>4. launches' \in 0..MaxLaunches
  BY StartAssumption DEF Launch, StartInv, TypeOK
<1>5. UNCHANGED <<disk, checked, edits>>
  BY DEF Launch
<1> HIDE DEF state
<1>6. proc' = [proc EXCEPT ![p] = state]
  BY <1>1, Zenon DEF state
<1>7. ProcessesOK'
  BY <1>2, <1>3, <1>6, OneProcess, InvProcesses, Zenon
<1> QED
  BY <1>4, <1>5, <1>7, Keeps, Zenon

(* A turn of the argument loop: the process has read nothing yet and still *)
(* has its environment, or it ends.                                        *)
LEMMA ParseArgumentStep ==
    ASSUME StartInv, NEW p \in Processes, ParseArgument(p) PROVE StartInv'
<1> DEFINE rest == proc[p].rest
<1>1. ProcessesOK /\ proc[p] \in ProcessStates /\ Trail(proc[p])
  BY InvProcesses, Zenon DEF ProcessesOK
<1>2. UNCHANGED <<disk, checked, edits>> /\ launches' \in 0..MaxLaunches
  BY InvProcesses DEF ParseArgument
<1>3. proc[p].stage = "arguments" /\ rest \in Seq(STRING)
  BY <1>1 DEF ParseArgument, ProcessStates
<1> SUFFICES ProcessesOK'
  BY <1>2, Keeps, Zenon
<1>4. ASSUME NEW state \in ProcessStates, state.stage \in {"arguments", "load"},
             state.env = proc[p].env, state.result = proc[p].result,
             proc' = [proc EXCEPT ![p] = state]
      PROVE  ProcessesOK'
  <2>1. Trail(state)
    BY <1>1, <1>3, <1>4 DEF Trail
  <2> QED
    BY <1>1, <1>4, <2>1, OneProcess, Zenon
<1>5. ASSUME End(p, "usage") \/ End(p, "help") PROVE ProcessesOK'
  BY <1>1, <1>5, Ends DEF Results
<1>6. CASE rest = <<>> /\ proc' = [proc EXCEPT ![p].stage = "load"]
  <2> DEFINE state == [proc[p] EXCEPT !.stage = "load"]
  <2>1. /\ state \in ProcessStates /\ state.stage = "load"
        /\ state.env = proc[p].env /\ state.result = proc[p].result
    BY <1>1 DEF ProcessStates, Stages
  <2>2. proc' = [proc EXCEPT ![p] = state]
    BY <1>6
  <2> HIDE DEF state
  <2> QED
    BY <1>4, <2>1, <2>2
<1>7. CASE rest # <<>> /\ Tail(rest) # <<>>
             /\ proc' = [proc EXCEPT ![p].path = rest[2], ![p].rest = Tail(Tail(rest))]
  <2> DEFINE state == [proc[p] EXCEPT !.path = rest[2], !.rest = Tail(Tail(rest))]
  <2>1. rest[2] \in STRING /\ Tail(Tail(rest)) \in Seq(STRING)
    BY <1>3, <1>7, SecondArgument, Zenon
  <2>2. /\ state \in ProcessStates /\ state.stage = "arguments"
        /\ state.env = proc[p].env /\ state.result = proc[p].result
    BY <1>1, <1>3, <2>1 DEF ProcessStates
  <2>3. proc' = [proc EXCEPT ![p] = state]
    BY <1>1, <1>7 DEF ProcessesOK
  <2> HIDE DEF state
  <2> QED
    BY <1>4, <2>2, <2>3
<1>8. CASE rest # <<>> /\ proc' = [proc EXCEPT ![p].check = TRUE, ![p].rest = Tail(rest)]
  <2> DEFINE state == [proc[p] EXCEPT !.check = TRUE, !.rest = Tail(rest)]
  <2>1. Tail(rest) \in Seq(STRING)
    BY <1>3, <1>8, HeadTailProperties, Zenon
  <2>2. /\ state \in ProcessStates /\ state.stage = "arguments"
        /\ state.env = proc[p].env /\ state.result = proc[p].result
    BY <1>1, <1>3, <2>1 DEF ProcessStates
  <2>3. proc' = [proc EXCEPT ![p] = state]
    BY <1>1, <1>8 DEF ProcessesOK
  <2> HIDE DEF state
  <2> QED
    BY <1>4, <2>2, <2>3
<1> QED
  BY <1>5, <1>6, <1>7, <1>8, Zenon DEF ParseArgument

(* Loading: what is at hand afterwards is what was read, or nothing is     *)
(* when it does not load.                                                  *)
LEMMA LoadStep ==
    ASSUME StartInv, NEW p \in Processes, Load(p) PROVE StartInv'
<1> DEFINE document == Contents(proc[p].path)
           config   == LoadedConfig(document, proc[p].env)
<1>1. ProcessesOK /\ proc[p] \in ProcessStates /\ Trail(proc[p])
  BY InvProcesses, Zenon DEF ProcessesOK
<1>2. UNCHANGED <<disk, checked, edits>> /\ launches' \in 0..MaxLaunches
  BY InvProcesses DEF Load
<1>3. document \in Readable
  BY DEF Contents, StartInv, TypeOK, Readable
<1>4. proc[p].stage = "load" /\ proc[p].result = "none" /\ proc[p].env \in Environments
  BY <1>1 DEF Load, Trail
<1>5. config \in Configs
  BY <1>3, <1>4, LoadedIsOne, Zenon
<1> SUFFICES ProcessesOK'
  BY <1>2, Keeps, Zenon
<1>6. CASE config = NoConfig
  <2> DEFINE state == [proc[p] EXCEPT !.document = document, !.stage = "ended",
                                      !.result = "config"]
  <2> HIDE DEF document
  <2>1. /\ state \in ProcessStates /\ state.stage = "ended" /\ state.result = "config"
        /\ state.document = document /\ state.env = proc[p].env
    BY <1>1, <1>3 DEF ProcessStates, Stages, Results
  <2>2. proc' = [proc EXCEPT ![p] = state]
    BY <1>6, Zenon DEF Load, document
  <2> HIDE DEF state
  <2>3. Trail(state)
    BY <1>6, <2>1 DEF Trail
  <2> QED
    BY <1>1, <2>1, <2>2, <2>3, OneProcess, Zenon
<1>7. CASE config # NoConfig
  <2> DEFINE state == [proc[p] EXCEPT !.document = document, !.stage = "pipeline",
                                      !.config = config, !.level = TracingLevel(config)]
  <2>1. TracingLevel(config) \in Levels
    BY DEF TracingLevel, Levels
  <2> HIDE DEF document, config
  <2>2. /\ state \in ProcessStates /\ state.stage = "pipeline"
        /\ state.result = proc[p].result /\ state.document = document
        /\ state.env = proc[p].env /\ state.config = config
    BY <1>1, <1>3, <1>5, <2>1 DEF ProcessStates, Stages
  <2>3. proc' = [proc EXCEPT ![p] = state]
    BY <1>7, Zenon DEF Load, document, config
  <2> HIDE DEF state
  <2>4. LoadedAsRead(state)
    BY <1>3, <1>4, <1>7, <2>2, Zenon DEF LoadedAsRead, config
  <2>5. Trail(state)
    BY <1>4, <2>2, <2>4 DEF Trail
  <2> QED
    BY <1>1, <2>2, <2>3, <2>5, OneProcess, Zenon
<1> QED
  BY <1>6, <1>7

(* Building the detectors: a report of OK is added only for contents that  *)
(* loaded and whose detectors have just been built.                        *)
LEMMA BuildPipelineStep ==
    ASSUME StartInv, NEW p \in Processes, BuildPipeline(p) PROVE StartInv'
<1>1. ProcessesOK /\ Trail(proc[p]) /\ launches \in 0..MaxLaunches
  BY InvProcesses, Zenon DEF ProcessesOK
<1>2. LoadedAsRead(proc[p]) /\ proc[p].stage = "pipeline"
  BY <1>1 DEF BuildPipeline, Trail
<1>3. UNCHANGED <<disk, edits>> /\ launches' \in 0..MaxLaunches
  BY <1>1 DEF BuildPipeline
<1>4. CASE ~PipelineBuilds(proc[p].config)
  <2>1. End(p, "pipeline") /\ checked' = checked
    BY <1>4, Zenon DEF BuildPipeline
  <2>2. ProcessesOK'
    BY <1>1, <1>2, <1>4, <2>1, Ends DEF Results
  <2> QED
    BY <1>3, <2>1, <2>2, Keeps, Zenon
<1>5. CASE PipelineBuilds(proc[p].config) /\ proc[p].check
  <2>1. End(p, "ok") /\ checked' = checked \union {<<proc[p].document, proc[p].env>>}
    BY <1>5, Zenon DEF BuildPipeline, ReportOK
  <2>2. ProcessesOK'
    BY <1>1, <2>1, Ends DEF Results
  <2>3. checked' \subseteq Readable \X Environments
    BY <1>2, <2>1 DEF LoadedAsRead, StartInv, TypeOK
  <2>4. CheckedTrail'
    <3> SUFFICES ASSUME NEW report \in checked'
                 PROVE  /\ LoadedConfig(report[1], report[2]) # NoConfig
                        /\ PipelineBuilds(LoadedConfig(report[1], report[2]))
      BY Zenon DEF CheckedTrail
    <3>1. CASE report \in checked
      BY <3>1, Zenon DEF StartInv, CheckedTrail
    <3>2. CASE report = <<proc[p].document, proc[p].env>>
      <4>1. report[1] = proc[p].document /\ report[2] = proc[p].env
        BY <3>2
      <4> QED
        BY <1>2, <1>5, <4>1, Zenon DEF LoadedAsRead
    <3> QED
      BY <2>1, <3>1, <3>2
  <2> QED
    BY <1>3, <2>2, <2>3, <2>4, Zenon DEF StartInv, TypeOK, ProcessesOK
<1>6. CASE PipelineBuilds(proc[p].config) /\ ~proc[p].check
  <2>1. proc' = [proc EXCEPT ![p].stage = "client"] /\ checked' = checked
    BY <1>6, Zenon DEF BuildPipeline
  <2>2. ProcessesOK'
    BY <1>1, <1>2, <2>1, MovesOn
  <2> QED
    BY <1>3, <2>1, <2>2, Keeps, Zenon
<1> QED
  BY <1>4, <1>5, <1>6

(* Building the client, binding and stopping move on or end.               *)
LEMMA LaterSteps ==
    ASSUME StartInv, NEW p \in Processes, BuildClient(p) \/ Bind(p) \/ Stop(p)
    PROVE  StartInv'
<1>1. ProcessesOK /\ launches \in 0..MaxLaunches
  BY InvProcesses, Zenon
<1>2. UNCHANGED <<disk, checked, edits>> /\ launches' \in 0..MaxLaunches
  BY <1>1 DEF BuildClient, Bind, Stop
<1>3. \/ End(p, "client") \/ End(p, "bind") \/ End(p, "stopped")
      \/ /\ proc[p].stage \in {"pipeline", "client", "bind"}
         /\ \E stage \in {"client", "bind", "serving"} :
              proc' = [proc EXCEPT ![p].stage = stage]
  BY DEF BuildClient, Bind, Stop
<1>4. ProcessesOK'
  <2>1. CASE \E stage \in {"client", "bind", "serving"} :
               /\ proc[p].stage \in {"pipeline", "client", "bind"}
               /\ proc' = [proc EXCEPT ![p].stage = stage]
    BY <1>1, <2>1, MovesOn
  <2>2. CASE End(p, "client") \/ End(p, "bind") \/ End(p, "stopped")
    BY <1>1, <2>2, Ends DEF Results
  <2> QED
    BY <1>3, <2>1, <2>2
<1> QED
  BY <1>2, <1>4, Keeps, Zenon

(* An edit changes a file, and nothing that was read from it.              *)
LEMMA EditFileStep ==
    ASSUME StartInv, EditFile PROVE StartInv'
<1>1. disk' \in [Files -> Documents] /\ edits' \in 0..MaxEdits
  BY StartAssumption DEF EditFile, StartInv, TypeOK
<1>2. UNCHANGED <<proc, checked, launches>>
  BY DEF EditFile
<1>3. TypeOK'
  BY <1>1, <1>2, Zenon DEF StartInv, TypeOK
<1>4. CheckedTrail'
  BY <1>2, Zenon DEF StartInv, CheckedTrail
<1>5. (\A p \in Processes : Trail(proc[p]))'
  BY <1>2, Zenon DEF StartInv
<1> QED
  BY <1>3, <1>4, <1>5 DEF StartInv

LEMMA StartInvKept == StartInv /\ [StartNext]_startVars => StartInv'
<1> SUFFICES ASSUME StartInv, [StartNext]_startVars PROVE StartInv'
  OBVIOUS
<1>1. ASSUME UNCHANGED startVars PROVE StartInv'
  <2>1. UNCHANGED <<disk, proc, checked, launches, edits>>
    BY <1>1 DEF startVars
  <2>2. TypeOK'
    BY <2>1, Zenon DEF StartInv, TypeOK
  <2>3. CheckedTrail'
    BY <2>1, Zenon DEF StartInv, CheckedTrail
  <2>4. (\A p \in Processes : Trail(proc[p]))'
    BY <2>1, Zenon DEF StartInv
  <2> QED
    BY <2>2, <2>3, <2>4 DEF StartInv
<1>2. ASSUME NEW p \in Processes,
             \/ Launch(p) \/ ParseArgument(p) \/ Load(p) \/ BuildPipeline(p)
             \/ BuildClient(p) \/ Bind(p) \/ Stop(p)
      PROVE  StartInv'
  BY <1>2, LaunchStep, ParseArgumentStep, LoadStep, BuildPipelineStep, LaterSteps, Zenon
<1>3. CASE EditFile
  BY <1>3, EditFileStep
<1>4. CASE RestStart
  BY <1>1, <1>4 DEF RestStart
<1> QED
  BY <1>1, <1>2, <1>3, <1>4, Zenon DEF StartNext

-----------------------------------------------------------------------------
(* Every process has at hand what it read, completed, overridden and       *)
(* validated, and every report of OK is of contents that load and whose    *)
(* detectors can be built (main.rs:30-40, config.rs:159-165).              *)
THEOREM StartInvariant == StartSpec => []StartInv
BY InitStartInv, StartInvKept, PTL DEF StartSpec

(* Whatever the files hold and the environment overrides, a process serves *)
(* under a configuration the handler can work with: the overrides are in   *)
(* it when it is validated (config.rs:159-165, 182-224).                   *)
THEOREM ServedConfigIsUsable == StartSpec => []ServedConfigUsable
<1>1. StartInv => ServedConfigUsable
  <2> SUFFICES ASSUME StartInv, NEW p \in Processes, Serving(p)
               PROVE  LET c == proc[p].config IN
                      /\ c.server.max_body_size > 0 /\ c.server.max_response_buffer > 0
                      /\ \A i \in DOMAIN c.server.allowed_paths :
                           Absolute(c.server.allowed_paths[i])
                      /\ c.upstream.url \in {"http", "other_scheme"}
                      /\ c.upstream.require_api_key => ~Blank(c.upstream.api_key_env)
    BY Zenon DEF ServedConfigUsable
  <2> DEFINE c == proc[p].config
  <2>1. LoadedAsRead(proc[p])
    BY InvProcesses DEF Serving, ProcessesOK, Trail
  <2>2. TypedConfig(c) /\ validate(c)
    BY <2>1, LoadedIsTyped, LoadedIsValid, Zenon DEF LoadedAsRead
  <2> HIDE DEF c
  <2>3. c.server.max_body_size > 0 /\ c.server.max_response_buffer > 0
    BY <2>2 DEF TypedConfig, validate
  <2>4. c.upstream.url \in {"http", "other_scheme"}
    BY <2>2 DEF TypedConfig, validate, URLs
  <2> QED
    BY <2>2, <2>3, <2>4, Zenon DEF validate, c
<1> QED
  BY StartInvariant, <1>1, PTL

(* A process that reads, in the same environment, what another reported as *)
(* OK neither fails to load it nor to build its detectors, whatever was    *)
(* edited or launched in between (main.rs:35-47).                          *)
THEOREM CheckedConfigDoesStart == StartSpec => []CheckedConfigStarts
<1>1. StartInv => CheckedConfigStarts
  <2> SUFFICES ASSUME StartInv, NEW p \in Processes,
                      proc[p].result \in {"config", "pipeline"},
                      <<proc[p].document, proc[p].env>> \in checked
               PROVE  FALSE
    BY Zenon DEF CheckedConfigStarts
  <2> DEFINE config == LoadedConfig(proc[p].document, proc[p].env)
  <2>1. config # NoConfig /\ PipelineBuilds(config)
    <3> DEFINE report == <<proc[p].document, proc[p].env>>
    <3>1. report[1] = proc[p].document /\ report[2] = proc[p].env
      OBVIOUS
    <3>2. LET loaded == LoadedConfig(report[1], report[2])
          IN  loaded # NoConfig /\ PipelineBuilds(loaded)
      BY Zenon DEF StartInv, CheckedTrail
    <3> QED
      BY <3>1, <3>2, Zenon
  <2>2. Trail(proc[p])
    BY Zenon DEF StartInv
  <2>3. CASE proc[p].result = "config"
    BY <2>1, <2>2, <2>3, Zenon DEF Trail
  <2>4. CASE proc[p].result = "pipeline"
    BY <2>1, <2>2, <2>4, Zenon DEF Trail, LoadedAsRead
  <2> QED
    BY <2>3, <2>4
<1> QED
  BY StartInvariant, <1>1, PTL

(* The probe's own endpoint answers it under every configuration; of the   *)
(* rest, a GET reaches the proxy unless the metrics path covers it, and    *)
(* any other request always does (main.rs:64-66).                          *)
THEOREM ProbesAreAnswered == StartSpec => []ProbesAnswered
<1>1. ASSUME NEW config PROVE AnsweredBy(config, "/healthz", "GET") = "healthz"
  <2> DEFINE matching == {i \in DOMAIN Routes(config) :
                             "GET" = "GET" /\ Covers(Routes(config)[i], "/healthz")}
  <2>1. DOMAIN Routes(config) = {1, 2} /\ Covers(Routes(config)[1], "/healthz")
    BY StartAssumption DEF Routes, Covers
  <2>2. 1 \in matching /\ matching \subseteq {1, 2}
    BY <2>1
  <2>3. (CHOOSE i \in matching : \A j \in matching : i <= j) = 1
    <3>1. \A j \in matching : 1 <= j
      BY <2>2
    <3>2. ASSUME NEW i \in matching, \A j \in matching : i <= j PROVE i = 1
      BY <2>2, <3>2
    <3> QED
      BY <2>2, <3>1, <3>2
  <2>4. Routes(config)[1].to = "healthz"
    BY DEF Routes
  <2> QED
    BY <2>2, <2>3, <2>4 DEF AnsweredBy
<1>2. ASSUME NEW config, NEW path PROVE AnsweredBy(config, path, "POST") = "proxy_handler"
  <2>1. {i \in DOMAIN Routes(config) :
            "POST" = "GET" /\ Covers(Routes(config)[i], path)} = {}
    OBVIOUS
  <2> QED
    BY <2>1 DEF AnsweredBy
<1>3. ASSUME NEW config, NEW path, path # "/healthz",
             ~Covers([path |-> config.server.metrics_path], path)
      PROVE  AnsweredBy(config, path, "GET") = "proxy_handler"
  <2>1. ~Covers(Routes(config)[1], path)
    BY <1>3, StartAssumption DEF Routes, Covers
  <2>2. ~Covers(Routes(config)[2], path)
    BY <1>3 DEF Routes, Covers
  <2>3. {i \in DOMAIN Routes(config) :
            "GET" = "GET" /\ Covers(Routes(config)[i], path)} = {}
    BY <2>1, <2>2 DEF Routes
  <2> QED
    BY <2>3 DEF AnsweredBy
<1>4. ProbesAnswered
  BY <1>1, <1>2, <1>3, Zenon DEF ProbesAnswered
<1> QED
  BY <1>4, PTL
====
