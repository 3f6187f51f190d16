-------------------------- MODULE ParameterProtocol --------------------------
(* The parameters of the vehicle (bt_app/parameters) and the command line    *)
(* tool that reads, sets and saves them over UDP (bti_cli).  Requests and    *)
(* answers may be lost, repeated or arrive after the deadline of the attempt *)
(* they belong to; a ground station sets parameters of its own, the vehicle  *)
(* arms, and it may be restarted between any two messages.                   *)
(* A value is an integer: the 32-bit floats MAVLink carries are the          *)
(* multiples of Grain, and the others are doubles between two of them.       *)
EXTENDS Integers, Sequences, SequencesExt, FiniteSets

CONSTANTS
    Names,       \* the parameters of parameters.yaml, in its order
    TypeOf,      \* "float", "int" or "bool" of each
    Minimum, Maximum, Options,   \* its limits; a limit may be None
    Defaults,    \* its value in the file at the first start
    Values,      \* bound: the values the tool and the station ask for
    NaN,         \* the value that is no number
    Grain, None,
    Unknown,     \* a name the vehicle has no parameter of
    Operations,  \* the operations the tool is run for: get, set, save, list
    Retries,     \* attempts of an operation
    MaxRuns, MaxFaults, MaxStation   \* bounds: runs of the tool, faults, steps of the station

Parameters == ToSet(Names)

VARIABLES
    value,       \* ParameterStorage._values
    file,        \* the YAML file
    armed,       \* context.armed
    tool,        \* the operation the tool is in, None between two runs
    requests,    \* datagrams on their way to the vehicle
    replies,     \* and to the socket of the tool's run
    runs, faults, station,   \* how many there were
    last,        \* how the last run of the tool ended
    held, stored, wrote   \* history: what each parameter was during this run of the tool,
                          \* whether its PARAM_SET was stored, whether its save wrote the file

storage == <<value, file, armed>>
net == <<requests, replies>>
history == <<held, stored, wrote>>
vars == <<storage, tool, net, runs, faults, station, last, history>>

----------------------------------------------------------------------------
(* Values, types and limits.  A comparison with NaN is false.                *)

Less(a, b) == NaN \notin {a, b} /\ a < b
Same(a, b) == a # NaN /\ a = b
Rounded(v) == IF v = NaN THEN NaN ELSE Grain * (v \div Grain)

InLimits(p, v) ==
    /\ Options[p] # None => \E o \in Options[p] : Same(v, o)
    /\ Minimum[p] # None => ~ Less(v, Minimum[p])
    /\ Maximum[p] # None => ~ Less(Maximum[p], v)

MatchesType(p, v) == v = NaN => TypeOf[p] = "float"
\* A bug for LimitsHold: the limits of a set are not looked at.
TypeChecked(p, v) == MatchesType(p, v)
Validates(p, v) == MatchesType(p, v) /\ InLimits(p, v)

\* The file of the first start is one that Parameters accepts.
ParameterAssumption ==
    /\ Grain \in Nat \ {0} /\ Retries \in Nat \ {0} /\ Unknown \notin Parameters
    /\ {MaxRuns, MaxFaults, MaxStation} \subseteq Nat
    /\ Operations \subseteq {"get", "set", "save", "list"}
    /\ Values \union {NaN} \subseteq Int /\ Defaults \in [Parameters -> Int]
    /\ TypeOf \in [Parameters -> {"float", "int", "bool"}]
    /\ \A p \in Parameters : {Minimum[p], Maximum[p]} \ {None} \subseteq Int \ {NaN}
    /\ \A p \in Parameters : Validates(p, Defaults[p])

EncodeWire(p, v) == IF TypeOf[p] = "float" THEN Rounded(v) ELSE v
Decodes(p, v) == TypeOf[p] = "bool" => v \in {0, 1}

----------------------------------------------------------------------------
(* The vehicle: MavlinkParameterProtocol.handle, on the scheduler's thread.  *)

\* The socket of a run of the tool lives as long as the run.
Delivered(r, answers) == IF tool # None /\ r.run = runs THEN replies \union answers ELSE replies

ParamValue(r, p, vals) ==
    [serial |-> r.serial, kind |-> "value", name |-> p, value |-> EncodeWire(p, vals[p])]

StorageSet(p, v) == IF Decodes(p, v) /\ Validates(p, v) THEN [value EXCEPT ![p] = v] ELSE value

Ack(r, result) == [serial |-> r.serial, kind |-> "ack", result |-> result]

\* The answers are scheduled before the next datagram is read; the list is a
\* snapshot of the moment it was asked for, however late its last value is sent.
HandleRead(r) ==
    /\ r.kind = "read"
    /\ replies' = Delivered(r, {ParamValue(r, p, value) : p \in Parameters \intersect {r.name}})
    /\ UNCHANGED <<storage, history, faults>>

HandleList(r) ==
    /\ r.kind = "list"
    /\ replies' = Delivered(r, {ParamValue(r, p, value) : p \in Parameters})
    /\ UNCHANGED <<storage, history, faults>>

\* A bug for ReportIsTrue: the answer repeats the request.
HandleSetEchoing(r) ==
    /\ r.kind = "set"
    /\ value' = StorageSet(r.name, r.value)
    /\ replies' = Delivered(r, {ParamValue(r, r.name, [value EXCEPT ![r.name] = r.value])})
    /\ held' = [held EXCEPT ![r.name] = @ \union {value'[r.name]}]
    /\ stored' = (stored \/ (r.run = runs /\ Validates(r.name, r.value)))
    /\ UNCHANGED <<file, armed, wrote, faults>>

HandleSet(r) ==
    /\ r.kind = "set"
    /\ value' = StorageSet(r.name, r.value)
    /\ replies' = Delivered(r, {ParamValue(r, r.name, value')})
    /\ held' = [held EXCEPT ![r.name] = @ \union {value'[r.name]}]
    /\ stored' = (stored \/ (r.run = runs /\ Decodes(r.name, r.value) /\ Validates(r.name, r.value)))
    /\ UNCHANGED <<file, armed, wrote, faults>>

SaveDenied == armed /\ UNCHANGED <<file, wrote, faults>>

\* The values of this moment become the defaults of the file.
SaveWritten(r) ==
    /\ ~ armed
    /\ file' = value /\ wrote' = (wrote \/ r.run = runs)
    /\ UNCHANGED faults

\* The text goes to a temporary file, is synchronised and replaces the old
\* file in one step: a write that fails leaves the old one.
SaveFailed ==
    /\ ~ armed /\ faults < MaxFaults /\ faults' = faults + 1
    /\ UNCHANGED <<file, wrote>>

\* A bug for SavedIsWritten: a failed write is acknowledged like a good one.
HandleSaveUnchecked(r) ==
    /\ r.kind = "save"
    /\ \/ SaveDenied /\ replies' = Delivered(r, {Ack(r, "denied")})
       \/ (SaveWritten(r) \/ SaveFailed) /\ replies' = Delivered(r, {Ack(r, "accepted")})
    /\ UNCHANGED <<value, armed, held, stored>>

HandleSave(r) ==
    /\ r.kind = "save"
    /\ \/ SaveDenied /\ replies' = Delivered(r, {Ack(r, "denied")})
       \/ SaveWritten(r) /\ replies' = Delivered(r, {Ack(r, "accepted")})
       \/ SaveFailed /\ replies' = Delivered(r, {Ack(r, "failed")})
    /\ UNCHANGED <<value, armed, held, stored>>

Handle ==
    /\ \E r \in requests :
         /\ HandleRead(r) \/ HandleList(r) \/ HandleSet(r) \/ HandleSave(r)
         /\ requests' = requests \ {r}
    /\ UNCHANGED <<tool, runs, station, last>>

\* The ground station: a PARAM_SET of another type is answered and not stored.
StationSet(p, v, type) ==
    /\ station < MaxStation /\ station' = station + 1
    /\ value' = IF type = TypeOf[p] THEN StorageSet(p, EncodeWire(p, v)) ELSE value
    /\ held' = [held EXCEPT ![p] = @ \union {value'[p]}]
    /\ UNCHANGED <<file, armed, stored, wrote, tool, net, runs, faults, last>>

\* The flight arms or disarms the vehicle.
SetArmed ==
    /\ station < MaxStation /\ station' = station + 1
    /\ armed' = ~ armed
    /\ UNCHANGED <<value, file, history, tool, net, runs, faults, last>>

\* The application is restarted: Parameters reads the file and validates it.
Restart ==
    /\ faults < MaxFaults /\ faults' = faults + 1
    /\ \A p \in Parameters : Validates(p, file[p])
    /\ value' = file /\ armed' = FALSE
    /\ held' = [p \in Parameters |-> held[p] \union {file[p]}]
    /\ UNCHANGED <<file, stored, wrote, tool, net, runs, station, last>>

----------------------------------------------------------------------------
(* The network.                                                              *)

Lose ==
    /\ faults < MaxFaults /\ faults' = faults + 1
    /\ \/ \E r \in requests : requests' = requests \ {r} /\ UNCHANGED replies
       \/ \E r \in replies : replies' = replies \ {r} /\ UNCHANGED requests
    /\ UNCHANGED <<storage, tool, runs, station, last, history>>

----------------------------------------------------------------------------
(* The tool.  An operation is a number of attempts, each a request and a     *)
(* wait for an answer of its kind until a deadline.                          *)

Request(t) ==
    LET Read(p) == [run |-> t.run, serial |-> t.serial, kind |-> "read", name |-> p]
        Plain(kind) == [run |-> t.run, serial |-> t.serial, kind |-> kind] IN
    CASE t.step = "read" -> {Read(t.name)}
      [] t.step = "set"  -> {[run |-> t.run, serial |-> t.serial, kind |-> "set", name |-> t.name,
                              value |-> EncodeWire(t.name, t.want)]}
      [] t.step = "save" -> {Plain("save")}
      [] t.step = "list" -> IF t.values = <<>> THEN {Plain("list")}
                            ELSE {Read(p) : p \in Parameters \ DOMAIN t.values}

FirstStep == [get |-> "read", set |-> "read", save |-> "save", list |-> "list"]

Start(op, p, v) ==
    LET t == [run |-> runs + 1, serial |-> 1, op |-> op, step |-> FirstStep[op], attempt |-> 1,
              name |-> p, want |-> v, values |-> <<>>] IN
    /\ tool = None /\ runs < MaxRuns /\ op \in Operations
    /\ runs' = runs + 1 /\ tool' = t /\ last' = None
    /\ requests' = requests \union Request(t)
    /\ held' = [q \in Parameters |-> {value[q]}] /\ stored' = FALSE /\ wrote' = FALSE
    /\ UNCHANGED <<storage, replies, faults, station>>

Retried(t) == [t EXCEPT !.attempt = @ + 1, !.serial = @ + 1]
NextStep(t) == [t EXCEPT !.step = "set", !.attempt = 1, !.serial = @ + 1]

Continue(t) == tool' = t /\ requests' = requests \union Request(t) /\ UNCHANGED last

Finish(outcome, result) ==
    /\ tool' = None
    /\ last' = [op |-> tool.op, name |-> tool.name, want |-> tool.want, outcome |-> outcome, result |-> result]
    /\ UNCHANGED requests

\* A bug for OperationEnds: a time-out is not counted as an attempt.
DeadlineUncounted ==
    /\ tool # None
    /\ IF tool.attempt = Retries /\ tool.op = "save" THEN Finish("timeout", None) ELSE Continue(tool)
    /\ replies' = IF tool' = None THEN {} ELSE replies
    /\ UNCHANGED <<storage, runs, faults, station, history>>

\* A bug for ListIsTrue: the socket of a run is left to the next one.
DeadlineKeepingSocket ==
    /\ tool # None
    /\ IF tool.attempt = Retries THEN Finish("timeout", None) ELSE Continue(Retried(tool))
    /\ UNCHANGED <<storage, replies, runs, faults, station, history>>

\* The deadline of the attempt passes.
Deadline ==
    /\ tool # None
    /\ IF tool.attempt = Retries THEN Finish("timeout", None) ELSE Continue(Retried(tool))
    /\ replies' = IF tool' = None THEN {} ELSE replies
    /\ UNCHANGED <<storage, runs, faults, station, history>>

\* get, and the get a set begins with, which learns the type of the parameter.
GotValue(m) ==
    /\ tool.step = "read" /\ m.kind = "value" /\ m.name = tool.name
    /\ IF tool.op = "set" THEN Continue(NextStep(tool)) ELSE Finish("ok", m.value)

\* The first PARAM_VALUE of that name after the PARAM_SET is its acknowledgement.
GotSet(m) ==
    /\ tool.step = "set" /\ m.kind = "value" /\ m.name = tool.name
    /\ IF Same(m.value, tool.want) THEN Finish("ok", m.value) ELSE Finish("rejected", m.value)

GotSave(m) ==
    /\ tool.step = "save" /\ m.kind = "ack"
    /\ IF m.result = "accepted" THEN Finish("ok", None) ELSE Finish("rejected", m.result)

GotListed(m) ==
    LET vals == [p \in DOMAIN tool.values \union {m.name} |->
                    IF p = m.name THEN m.value ELSE tool.values[p]] IN
    /\ tool.step = "list" /\ m.kind = "value"
    /\ IF DOMAIN vals = Parameters THEN Finish("ok", vals)
       ELSE tool' = [tool EXCEPT !.values = vals] /\ UNCHANGED <<requests, last>>

Receive ==
    /\ tool # None
    /\ \E m \in replies :
         /\ GotValue(m) \/ GotSet(m) \/ GotSave(m) \/ GotListed(m)
         /\ IF tool' = None THEN replies' = {} /\ UNCHANGED faults
            ELSE \/ replies' = replies \ {m} /\ UNCHANGED faults
                 \/ faults < MaxFaults /\ faults' = faults + 1 /\ UNCHANGED replies    \* it comes twice
    /\ UNCHANGED <<storage, runs, station, history>>

----------------------------------------------------------------------------

Init ==
    /\ value = Defaults /\ file = Defaults /\ armed = FALSE
    /\ tool = None /\ requests = {} /\ replies = {}
    /\ runs = 0 /\ faults = 0 /\ station = 0 /\ last = None
    /\ held = [p \in Parameters |-> {Defaults[p]}] /\ stored = FALSE /\ wrote = FALSE

RunTool ==
    \/ \E p \in Parameters \union {Unknown} : Start("get", p, None)
    \/ \E p \in Parameters, v \in Values : (v = NaN => TypeOf[p] = "float") /\ Start("set", p, v)
    \/ Start("save", None, None)
    \/ Start("list", None, None)

StationSets == \E p \in Parameters, v \in Values, type \in {"float", "int", "bool"} : StationSet(p, v, type)

Next ==
    \/ Handle \/ StationSets \/ SetArmed \/ Restart \/ Lose
    \/ RunTool \/ Deadline \/ Receive

\* Time passes, so the deadline of an attempt comes.
Spec == Init /\ [][Next]_vars
FairSpec == Spec /\ WF_vars(Deadline)

----------------------------------------------------------------------------
(* Properties.                                                               *)

Asked == Values \union {Defaults[p] : p \in Parameters}
Doubles == Asked \union {Rounded(v) : v \in Asked}

\* Every parameter, in memory, on disk or on the wire, has a value; the tool
\* is in one attempt of one operation.
TypeOK ==
    /\ value \in [Parameters -> Doubles] /\ file \in [Parameters -> Doubles] /\ armed \in BOOLEAN
    /\ tool # None => /\ tool.attempt \in 1..Retries /\ tool.step \in {"read", "set", "save", "list"}
                      /\ DOMAIN tool.values \subseteq Parameters
    /\ \A r \in requests : r.run \in 1..runs /\ r.kind \in {"read", "set", "save", "list"}
    /\ \A m \in replies : m.kind = "value" => m.name \in Parameters /\ m.value \in Doubles
    /\ tool = None => replies = {}

\* The limits of parameters.yaml hold for what the vehicle flies with and for
\* what it will load at the next start, whoever sets what in which order
\* (models.py:57 ParameterLimits.validate, storage.py:129 set, :90 save).
LimitsHold == \A p \in Parameters : \A v \in {value[p], file[p]} :
    /\ Options[p] # None => v \in Options[p]
    /\ Minimum[p] # None => v # NaN /\ v >= Minimum[p]
    /\ Maximum[p] # None => v # NaN /\ v <= Maximum[p]

\* What get and set report is true: the vehicle held the reported value at
\* some moment of this run, though answers are late, lost or repeated and the
\* station sets the same parameter (mavlink_transport.py:102 get, :117 set).
ReportIsTrue ==
    (last # None /\ last.outcome = "ok" /\ last.op \in {"get", "set"}) =>
        \E v \in held[last.name] : EncodeWire(last.name, v) = last.result

\* A list that completes holds each parameter once, with a value it had
\* during this run, though it is put together from several attempts
\* (mavlink_transport.py:69 list).
ListIsTrue ==
    (last # None /\ last.outcome = "ok" /\ last.op = "list") =>
        \A p \in Parameters : \E v \in held[p] : EncodeWire(p, v) = last.result[p]

\* "Parameters saved" is said only when this run's request wrote the file
\* (mavlink_transport.py:150 save, mavlink.py:174 _handle_storage_command).
SavedIsWritten == (last # None /\ last.outcome = "ok" /\ last.op = "save") => wrote

\* A set that is reported as rejected was not carried out
\* (mavlink_transport.py:135).  See section 5 of README.md.
RejectedIsRefused == (last # None /\ last.outcome = "rejected" /\ last.op = "set") => ~ stored

\* Every run of the tool ends, whatever the network does
\* (mavlink_transport.py:72, :103, :129, :165, the loops over retries).
OperationEnds == tool # None ~> tool = None

=============================================================================
