--------------------------- MODULE PipelineConfig ---------------------------
(* The configuration of the video pipeline, from the command line and a YAML *)
(* file to a pipeline that plays: cli.py builds the overrides of the command *)
(* line, config.py reads those of the file, layers both over the defaults    *)
(* and validates the result, pipeline_builder.py describes the pipeline and  *)
(* pipeline_runner.py looks its elements up by name.                         *)
(*                                                                           *)
(* A value is "absent" (the layer does not give it), "ok", "range" (of the   *)
(* right type, but not allowed) or "bad" (not of the type).  Switches are    *)
(* "absent", "true" or "false".  Where a given good value and the default    *)
(* make no difference, only the default is enumerated.                       *)
EXTENDS Integers

Sources == {"file", "camera", "simulation"}
Switch == {"absent", "true", "false"}
Value == {"absent", "ok", "range", "bad"}
Backends == {"controlled_red", "cpu_nano", "cpu_yolo"}

VARIABLES
    phase,    \* how far main has come; "rejected", "shown" and "playing" are ends
    command,  \* "show" or "run"
    cli,      \* source of the command line: its type, or "none"
    yaml,     \* sections of the file
    config    \* the resolved AppConfig

vars == <<phase, command, cli, yaml, config>>

NoSource == [type |-> "none", place |-> "absent", rate |-> "absent"]
NoTracker == [type |-> "none", enabled |-> "absent", overlay |-> "absent", settings |-> "absent"]

\* The sections of a file that is not there or is empty.
Empty ==
    [source |-> NoSource, detector |-> NoTracker, tracker |-> NoTracker,
     zmq |-> [enabled |-> "absent", rate |-> "absent"],
     selector |-> [enabled |-> "absent", timeout |-> "absent"],
     port |-> "absent"]

\* AppConfig().
Defaults ==
    [source |-> NoSource,
     detector |-> [type |-> "controlled_red", enabled |-> "false", overlay |-> "false", settings |-> "ok"],
     tracker |-> NoTracker,
     zmq |-> [enabled |-> "false", rate |-> "ok"],
     selector |-> [enabled |-> "true", timeout |-> "ok"],
     port |-> "ok"]

Init ==
    /\ phase = "parse" /\ command \in {"show", "run"}
    /\ cli = "none" /\ yaml = Empty /\ config = Defaults

Reject == phase' = "rejected" /\ UNCHANGED <<cli, yaml, config>>

----------------------------------------------------------------------------
(* cli.py.                                                                   *)

\* _build_cli_overrides: exactly the option of the named source.
Complete(source, options) ==
    IF source = "none" THEN options = {} ELSE options = {source}

Parse ==
    /\ phase = "parse"
    /\ \E source \in Sources \cup {"none"}, options \in SUBSET Sources :
        \/ /\ Complete(source, options)
           /\ cli' = source /\ phase' \in {"read", "resolve"}
           /\ UNCHANGED <<yaml, config>>
        \/ ~Complete(source, options) /\ Reject
    /\ UNCHANGED command

----------------------------------------------------------------------------
(* config.py: the sections of the file.                                      *)

\* The file cannot be read, is no YAML or no mapping.
Unreadable ==
    /\ phase = "read"
    /\ Reject /\ UNCHANGED command

Into(next) == phase' = next /\ UNCHANGED <<command, cli, config>>

\* source_config_from_mapping.
ReadSource ==
    /\ phase = "read"
    /\ \/ Into("read tracker") /\ UNCHANGED yaml
       \/ \E type \in Sources \cup {"unknown"}, place \in {"absent", "ok"}, rate \in Value :
              IF \/ type = "unknown" \/ place = "absent"
                 \/ type # "camera" /\ rate \in {"range", "bad"}
              THEN Reject /\ UNCHANGED command
              ELSE /\ yaml' = [yaml EXCEPT !.source = [type |-> type, place |-> "ok",
                                  rate |-> IF type = "camera" THEN "absent" ELSE rate]]
                   /\ Into("read tracker")

\* The detector section, _tracker_config_from_mapping, and the refusal of both.
ReadTracker ==
    /\ phase = "read tracker"
    /\ \/ Into("read zmq") /\ UNCHANGED yaml
       \/ Reject /\ UNCHANGED command
       \/ \E enabled, overlay \in Switch, settings \in {"absent", "range"} :
            \/ /\ yaml' = [yaml EXCEPT !.detector = [type |-> "controlled_red", enabled |-> enabled,
                                                     overlay |-> overlay, settings |-> settings]]
               /\ Into("read zmq")
            \/ \E type \in Backends \cup {"unknown"} :
                /\ yaml' = [yaml EXCEPT !.tracker = [type |-> type, enabled |-> enabled,
                                                     overlay |-> overlay, settings |-> settings]]
                /\ Into("read zmq")

ReadZmq ==
    /\ phase = "read zmq"
    /\ \/ Reject /\ UNCHANGED command
       \/ \E enabled \in Switch, rate \in {"absent", "range"} :
            /\ yaml' = [yaml EXCEPT !.zmq = [enabled |-> enabled, rate |-> rate]]
            /\ Into("read rest")

\* YAML knows .nan, which is a number.
ReadRest ==
    /\ phase = "read rest"
    /\ \/ Reject /\ UNCHANGED command
       \/ \E enabled \in Switch, timeout \in {"absent", "range", "nan"},
             port \in {"absent", "range"} :
            /\ yaml' = [yaml EXCEPT !.selector = [enabled |-> enabled, timeout |-> timeout],
                                    !.port = port]
            /\ Into("resolve")

----------------------------------------------------------------------------
(* config.py: layers and validation.                                         *)

Over(value, current) == IF value = "absent" THEN current ELSE value

\* A bug for SourceIsTheMostSpecific: what the command line does not give is lost.
WholeSource(current, type) == [type |-> type, place |-> "cli", rate |-> "default"]

\* _resolve_source_config with the overrides of the command line: they keep the
\* rate of a source of the same type.
MergedSource(current, type) ==
    [type |-> type, place |-> "cli",
     rate |-> IF current.type = type THEN current.rate
              ELSE IF type = "camera" THEN "none" ELSE "default"]

\* A source of the file is complete.
FileSource ==
    [type |-> yaml.source.type, place |-> "yaml",
     rate |-> IF yaml.source.type = "camera" THEN "none"
              ELSE IF yaml.source.rate = "absent" THEN "default" ELSE "yaml"]

\* resolve_config: defaults, file, command line.
Resolved ==
    LET below == IF yaml.source = NoSource THEN config.source ELSE FileSource
    IN  [source |-> IF cli = "none" THEN below ELSE MergedSource(below, cli),
         detector |-> [type |-> "controlled_red",
                       enabled |-> Over(yaml.detector.enabled, config.detector.enabled),
                       overlay |-> Over(yaml.detector.overlay, config.detector.overlay),
                       settings |-> Over(yaml.detector.settings, config.detector.settings)],
         tracker |-> IF yaml.tracker = NoTracker THEN config.tracker
                     ELSE [type |-> yaml.tracker.type,
                           enabled |-> Over(yaml.tracker.enabled, "false"),
                           overlay |-> Over(yaml.tracker.overlay, "false"),
                           settings |-> Over(yaml.tracker.settings, "ok")],
         zmq |-> [enabled |-> Over(yaml.zmq.enabled, config.zmq.enabled),
                  rate |-> Over(yaml.zmq.rate, config.zmq.rate)],
         selector |-> [enabled |-> Over(yaml.selector.enabled, config.selector.enabled),
                       timeout |-> Over(yaml.selector.timeout, config.selector.timeout)],
         port |-> Over(yaml.port, config.port)]

Resolve ==
    /\ phase = "resolve"
    /\ config' = Resolved /\ phase' = "validate"
    /\ UNCHANGED <<command, cli, yaml>>

\* effective_tracker_config.
Tracker(c) == IF c.tracker # NoTracker THEN c.tracker ELSE c.detector

\* A bug for ResultsHaveATracker: a section is enough.
ZmqNeedsSection(c) ==
    c.zmq.rate = "ok" /\ (c.zmq.enabled = "true" => c.tracker # NoTracker \/ c.detector.enabled = "true")

\* _validate_zmq_config.
ZmqIsValid(c) == c.zmq.rate = "ok" /\ (c.zmq.enabled = "true" => Tracker(c).enabled = "true")

\* _validate_selector_zmq_config: "not a number" is not <= 0.
SelectorIsValid(c) == c.selector.timeout # "range"

\* A bug for ElementsAreFound: only the legacy section is tested for it.
OverlayUnchecked(t) ==
    /\ t.overlay = "true" => t.enabled = "true" \/ t.type # "controlled_red"
    /\ t.type \in Backends
    /\ t.settings = "ok"

\* _validate_tracker_config and _validate_detector_config.
TrackerIsValid(t) ==
    /\ t.overlay = "true" => t.enabled = "true"
    /\ t.type \in Backends
    /\ t.settings = "ok"

\* validate_config.
IsValid(c) ==
    /\ c.source.type # "none" /\ c.port = "ok"
    /\ TrackerIsValid(Tracker(c)) /\ ZmqIsValid(c) /\ SelectorIsValid(c)

Validate ==
    /\ phase = "validate"
    /\ IF IsValid(config) THEN phase' = "build" ELSE phase' = "rejected"
    /\ UNCHANGED <<command, cli, yaml, config>>

----------------------------------------------------------------------------
(* pipeline_builder.py and pipeline_runner.py.                               *)

\* The names build_processing_pipeline_description gives.
Built(t) ==
    (IF t.enabled = "true" THEN {"tracker_backend"} ELSE {})
      \cup (IF t.enabled = "true" /\ t.overlay = "true" THEN {"detection_overlay"} ELSE {})

\* The names run_pipeline asks for.
Wanted(t) ==
    (IF t.enabled = "true" THEN {"tracker_backend"} ELSE {})
      \cup (IF t.overlay = "true" THEN {"detection_overlay"} ELSE {})

Build ==
    /\ phase = "build"
    /\ phase' = IF command = "show" THEN "shown"
                ELSE IF Wanted(Tracker(config)) \subseteq Built(Tracker(config)) THEN "playing"
                ELSE "broken"
    /\ UNCHANGED <<command, cli, yaml, config>>

Next ==
    Parse \/ Unreadable \/ ReadSource \/ ReadTracker \/ ReadZmq \/ ReadRest \/ Resolve
      \/ Validate \/ Build

Spec == Init /\ [][Next]_vars

----------------------------------------------------------------------------

TypeOK ==
    /\ phase \in {"parse", "read", "read tracker", "read zmq", "read rest", "resolve", "validate",
                  "build", "rejected", "shown", "playing", "broken"}
    /\ command \in {"show", "run"} /\ cli \in Sources \cup {"none"}
    /\ phase \in {"build", "shown", "playing"} =>
        /\ config.source.type \in Sources /\ config.source.place \in {"yaml", "cli"}
        /\ config.source.rate \in (IF config.source.type = "camera" THEN {"none"} ELSE {"default", "yaml"})

\* Of the place and the rate of the source, each comes from the most specific
\* layer that gives one for a source of this type.
SourceIsTheMostSpecific ==
    phase \in {"shown", "playing"} =>
        LET type == IF cli = "none" THEN yaml.source.type ELSE cli
            given == yaml.source.type = type /\ yaml.source.rate = "ok"
        IN  /\ config.source.type = type
            /\ config.source.place = "cli" <=> cli # "none"
            /\ type # "camera" => (config.source.rate = "yaml" <=> given)

\* An accepted configuration plays: no element that the runner looks up is
\* missing from the description, whatever section and backend it comes from.
ElementsAreFound == phase # "broken"

\* A publisher that is switched on has a tracker to publish for.
ResultsHaveATracker ==
    phase = "playing" /\ config.zmq.enabled = "true" => "tracker_backend" \in Built(Tracker(config))

\* config.py:809: "selector_zmq.command_timeout_s must be greater than 0".
TimeoutIsPositive == phase \in {"shown", "playing"} => config.selector.timeout = "ok"

=============================================================================
