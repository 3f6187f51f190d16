------------------------------- MODULE Blackbox -------------------------------
(* The flight recorder (blackbox.py): the control loop submits frames to a   *)
(* bounded buffer, the MAVLink thread submits odometry, and a writer thread  *)
(* puts chunks and metadata on disk.  Writes may fail, the process may be    *)
(* killed at any step and started again; bt_analysis reads what is on disk.  *)
(* A frame is its sample index; an odometry row is the flight its elapsed    *)
(* time counts from.  Times are arbitrary, so a chunk may be full whenever   *)
(* it holds a row.                                                           *)
EXTENDS Naturals, Sequences, SequencesExt, FiniteSets

CONSTANTS
    Capacity,    \* blackbox_queue_size
    MaxFlights, MaxFrames, MaxOdometry,   \* bounds: flights, frames of each, odometry samples
    MaxFaults,   \* bound: failing writes and captures, kills
    None

BlackboxAssumption ==
    /\ {Capacity, MaxFlights, MaxFrames, MaxOdometry} \subseteq Nat \ {0} /\ MaxFaults \in Nat
    /\ None \notin Nat \cup {"recording", "complete", "unclean", "interrupted"}

Flights == 1..MaxFlights
Streams == <<"frames", "odometry">>   \* events accompany the frames they are found in

VARIABLES
    main,        \* next step of the control loop's thread in the recorder
    enabled, flight_active, session_id, session_start, sample_index,
    unrecovered, \* sessions that this start could not recover
    odo,         \* the MAVLink thread: idle, active (flags read), or a row to put
    queue,       \* the deque of _TelemetryBuffer
    writer,      \* next step of the writer thread
    session,     \* its _SessionWriter
    dropped_frames, dropped_odometry,
    disk,        \* what is on disk of each flight
    flights, samples, faults,   \* how many there were
    past         \* history, read by no action

appVars == <<main, enabled, flight_active, session_id, session_start, sample_index, unrecovered>>
dropVars == <<dropped_frames, dropped_odometry>>
writeVars == <<writer, session, disk>>
countVars == <<flights, samples, faults>>
vars == <<appVars, odo, queue, writeVars, dropVars, countVars, past>>

----------------------------------------------------------------------------
(* _TelemetryBuffer.                                                         *)

IsTelemetry(item) == item.kind \in {"frame", "odometry"}
TelemetryCount(q) == Cardinality({i \in DOMAIN q : IsTelemetry(q[i])})
Full(q) == TelemetryCount(q) >= Capacity
OdometryIn(q) == {i \in DOMAIN q : q[i].kind = "odometry"}
Oldest(S) == CHOOSE i \in S : \A j \in S : i <= j

Frame(n) == [kind |-> "frame", row |-> n]
Odometry(start) == [kind |-> "odometry", row |-> start]
StartFlight(s) == [kind |-> "start", id |-> s, dropped |-> dropped_frames]
EndFlight(s, clean) == [kind |-> "end", id |-> s, clean |-> clean]
StopWriter == [kind |-> "stop"]

\* A bug for CompleteIsComplete: a full buffer evicts its oldest telemetry.
PutFrameEvicting(item) ==
    /\ queue' = Append(IF Full(queue) THEN RemoveAt(queue,
                  Oldest({i \in DOMAIN queue : IsTelemetry(queue[i])})) ELSE queue, item)
    /\ UNCHANGED dropVars

\* put_frame: odometry gives way to a frame; a frame is dropped and counted.
PutFrame(item) ==
    \/ /\ ~Full(queue) /\ queue' = Append(queue, item)
       /\ UNCHANGED dropVars
    \/ /\ Full(queue) /\ OdometryIn(queue) # {}
       /\ queue' = Append(RemoveAt(queue, Oldest(OdometryIn(queue))), item)
       /\ dropped_odometry' = dropped_odometry + 1 /\ UNCHANGED dropped_frames
    \/ /\ Full(queue) /\ OdometryIn(queue) = {}
       /\ dropped_frames' = dropped_frames + 1 /\ UNCHANGED <<queue, dropped_odometry>>

----------------------------------------------------------------------------
(* The control loop's thread: record and stop.                               *)

NoSession == [id |-> None, rows |-> [frames |-> <<>>, odometry |-> <<>>], chunks |-> <<>>,
              count |-> 0, dropped_start |-> 0, todo |-> <<>>, item |-> StopWriter]
NoSample == [at |-> "idle", start |-> 0]
NoDirectory == [dir |-> FALSE, status |-> None, chunks |-> <<>>, count |-> 0, dropped |-> 0,
                reason |-> None, files |-> {}, tmp |-> FALSE]

\* armed, and no flight is active: _begin_flight step by step.
BeginFlight ==
    /\ main = "idle" /\ enabled /\ ~flight_active /\ flights < MaxFlights
    /\ flight_active' = TRUE /\ session_id' = flights + 1 /\ flights' = flights + 1
    /\ main' = "reset"
    /\ UNCHANGED <<unrecovered, enabled, session_start, sample_index, odo, queue, writeVars, dropVars,
                   samples, faults, past>>

ResetSamples ==
    /\ main = "reset" /\ main' = "start"
    /\ session_start' = session_id /\ sample_index' = 0
    /\ UNCHANGED <<unrecovered, enabled, flight_active, session_id, odo, queue, writeVars, dropVars,
                   countVars, past>>

PutStart ==
    /\ main = "start" /\ main' = "frame"
    /\ queue' = Append(queue, StartFlight(session_id))
    /\ past' = [past EXCEPT !.dropped = dropped_frames]
    /\ UNCHANGED <<unrecovered, enabled, flight_active, session_id, session_start, sample_index, odo,
                   writeVars, dropVars, countVars>>

\* armed in a flight: _make_frame and _put_frame.
Record ==
    /\ main = "frame" \/ (main = "idle" /\ enabled /\ flight_active)
    /\ sample_index < MaxFrames
    /\ main' = "idle" /\ sample_index' = sample_index + 1
    /\ PutFrame(Frame(sample_index))
    /\ past' = IF dropped_frames' > dropped_frames THEN past
               ELSE [past EXCEPT !.frames[session_id] = Append(@, sample_index)]
    /\ UNCHANGED <<unrecovered, enabled, flight_active, session_id, session_start, odo, writeVars, countVars>>

\* An exception in a capture is contained and disables the recorder.
CaptureFails ==
    /\ main = "frame" \/ (main = "idle" /\ enabled /\ flight_active)
    /\ faults < MaxFaults /\ faults' = faults + 1
    /\ enabled' = FALSE /\ main' = "idle"
    /\ UNCHANGED <<unrecovered, flight_active, session_id, session_start, sample_index, odo, queue,
                   writeVars, dropVars, flights, samples, past>>

\* disarmed: _end_flight; the flags first, then the control item.
Disarm ==
    /\ main = "idle" /\ enabled /\ flight_active
    /\ flight_active' = FALSE /\ main' = "end"
    /\ UNCHANGED <<unrecovered, enabled, session_id, session_start, sample_index, odo, queue, writeVars,
                   dropVars, countVars, past>>

PutEnd ==
    /\ main = "end" /\ main' = "idle"
    /\ queue' = Append(queue, EndFlight(session_id, TRUE))
    /\ session_id' = None
    /\ past' = [past EXCEPT !.drops[session_id] = dropped_frames - past.dropped]
    /\ UNCHANGED <<unrecovered, enabled, flight_active, session_start, sample_index, odo, writeVars,
                   dropVars, countVars>>

\* A bug for StopEndsWriter: an active flight is ended after the writer is stopped.
StopItemsReversed ==
    <<StopWriter>> \o IF flight_active THEN <<EndFlight(session_id, FALSE)>> ELSE <<>>
StopItems ==
    (IF flight_active THEN <<EndFlight(session_id, FALSE)>> ELSE <<>>) \o <<StopWriter>>

\* stop, up to the join: an active flight is ended uncleanly.
Stop ==
    /\ main = "idle" /\ main' = "stopped"
    /\ enabled' = FALSE /\ flight_active' = FALSE /\ session_id' = None
    /\ queue' = queue \o StopItems
    /\ UNCHANGED <<unrecovered, session_start, sample_index, odo, writeVars, dropVars, countVars, past>>

----------------------------------------------------------------------------
(* record_odometry on the MAVLink thread.                                    *)

OdometryCheck ==
    /\ odo.at = "idle" /\ samples < MaxOdometry /\ main # "down"
    /\ enabled /\ flight_active
    /\ odo' = [odo EXCEPT !.at = "active"] /\ samples' = samples + 1
    /\ UNCHANGED <<appVars, queue, writeVars, dropVars, flights, faults, past>>

OdometryRow ==
    /\ odo.at = "active" /\ odo' = [at |-> "row", start |-> session_start]
    /\ UNCHANGED <<appVars, queue, writeVars, dropVars, countVars, past>>

OdometryPut ==
    /\ odo.at = "row" /\ odo' = NoSample
    /\ \/ /\ Full(queue) /\ dropped_odometry' = dropped_odometry + 1 /\ UNCHANGED queue
       \/ /\ ~Full(queue) /\ queue' = Append(queue, Odometry(odo.start)) /\ UNCHANGED dropped_odometry
    /\ UNCHANGED <<appVars, writeVars, dropped_frames, countVars, past>>

----------------------------------------------------------------------------
(* The writer thread: _run and _SessionWriter.                               *)

Taken(item) ==
    CASE item.kind = "stop" -> "done"
      [] item.kind = "start" -> "mkdir"
      [] item.kind = "end" /\ session.id = item.id -> "flush"
      [] item.kind \in {"frame", "odometry"} /\ session.id # None -> "append"
      [] OTHER -> "get"

Get ==
    /\ writer = "get" /\ queue # <<>>
    /\ queue' = Tail(queue)
    /\ writer' = Taken(Head(queue))
    /\ session' = [session EXCEPT !.item = Head(queue)]
    /\ past' = [past EXCEPT !.lost = @ \/ (Head(queue).kind = "odometry" /\ session.id = None)]
    /\ UNCHANGED <<appVars, odo, disk, dropVars, countVars>>

\* _SessionWriter.__init__: the directory, then the first metadata.
MakeDirectory ==
    /\ writer = "mkdir" /\ writer' = "meta"
    /\ disk' = [disk EXCEPT ![session.item.id].dir = TRUE]
    /\ UNCHANGED <<appVars, odo, queue, session, dropVars, countVars, past>>

FirstMetadata ==
    /\ writer = "meta" /\ writer' = "get"
    /\ disk' = [disk EXCEPT ![session.item.id].status = "recording"]
    /\ session' = [NoSession EXCEPT !.id = session.item.id, !.item = session.item,
                                    !.dropped_start = session.item.dropped]
    /\ UNCHANGED <<appVars, odo, queue, dropVars, countVars, past>>

HasRows == session.rows.frames # <<>> \/ session.rows.odometry # <<>>
Written(stream) == IF session.rows[stream] # <<>> THEN <<stream>> ELSE <<>>
Pending == Written("frames") \o Written("odometry")

\* append_frame and append_odometry, behind a full chunk or not.
AppendRow ==
    /\ writer = "append"
    /\ \/ /\ HasRows /\ writer' = "write"
          /\ session' = [session EXCEPT !.todo = Pending]
       \/ /\ writer' = "get"
          /\ session' = LET item == session.item IN
               IF item.kind = "frame"
               THEN [session EXCEPT !.rows.frames = Append(@, item.row), !.count = @ + 1]
               ELSE [session EXCEPT !.rows.odometry = Append(@, item.row)]
    /\ UNCHANGED <<appVars, odo, queue, disk, dropVars, countVars, past>>

BeginFinish ==
    /\ writer = "flush"
    /\ session' = [session EXCEPT !.todo = Pending]
    /\ writer' = IF HasRows THEN "write" ELSE "close"
    /\ UNCHANGED <<appVars, odo, queue, disk, dropVars, countVars, past>>

\* _write_parquet_atomic, stream by stream.
WriteStream ==
    /\ writer = "write" /\ session.todo # <<>>
    /\ session' = [session EXCEPT !.todo = Tail(@)]
    /\ disk' = [disk EXCEPT ![session.id].files = @ \cup
                  {[chunk |-> Len(session.chunks), stream |-> Head(session.todo)]}]
    /\ UNCHANGED <<appVars, odo, queue, writer, dropVars, countVars, past>>

\* A bug for ListedChunksExist: a chunk is listed before its files are written.
ReadyToListEarly == session.todo # <<>>
ReadyToList == session.todo = <<>>

\* The end of _flush_chunk; the append or finish it was called for goes on.
ListChunk ==
    /\ writer = "write" /\ ReadyToList
    /\ LET chunks == Append(session.chunks, session.rows)
       IN /\ session' = [session EXCEPT !.chunks = chunks, !.rows = NoSession.rows]
          /\ disk' = [disk EXCEPT ![session.id].chunks = chunks]
    /\ writer' = IF session.item.kind = "end" THEN "close" ELSE "append"
    /\ UNCHANGED <<appVars, odo, queue, dropVars, countVars, past>>

\* A bug for DropsAreReported: the counter is reported as it was at the start.
DropsOfFlightLate == session.dropped_start
DropsOfFlight == dropped_frames - session.dropped_start

Close ==
    /\ writer = "close" /\ writer' = "get"
    /\ disk' = [disk EXCEPT ![session.id] =
                  [@ EXCEPT !.status = IF session.item.clean THEN "complete" ELSE "unclean",
                            !.count = session.count, !.dropped = DropsOfFlight]]
    /\ session' = NoSession
    /\ UNCHANGED <<appVars, odo, queue, dropVars, countVars, past>>

\* A write raises: the session, if there is one, is closed with what was
\* appended, as far as the disk lets it.
WriteFails ==
    /\ writer \in {"mkdir", "meta", "write", "close"}
    /\ faults < MaxFaults /\ faults' = faults + 1
    /\ writer' = "get" /\ enabled' = FALSE /\ session' = NoSession
    /\ disk' \in IF session.id = None \/ writer \in {"mkdir", "meta"} THEN {disk}
                 ELSE {disk, [disk EXCEPT ![session.id] =
                         [@ EXCEPT !.status = "unclean", !.chunks = session.chunks,
                                   !.count = session.count, !.dropped = DropsOfFlight,
                                   !.tmp = TRUE]]}
    /\ UNCHANGED <<unrecovered, main, flight_active, session_id, session_start, sample_index, odo, queue,
                   dropVars, flights, samples, past>>

----------------------------------------------------------------------------
(* The process is killed, perhaps in the middle of a write, and starts again. *)

Writing == IF writer \in {"write", "close"} THEN session.id
           ELSE IF writer = "meta" THEN session.item.id ELSE None

Crash ==
    /\ faults < MaxFaults /\ faults' = faults + 1
    /\ main' = "down" /\ enabled' = FALSE /\ flight_active' = FALSE
    /\ session_id' = None /\ session_start' = 0 /\ sample_index' = 0
    /\ odo' = NoSample /\ queue' = <<>> /\ writer' = "done" /\ session' = NoSession
    /\ dropped_frames' = 0 /\ dropped_odometry' = 0 /\ unrecovered' = {}
    /\ disk' \in IF Writing = None THEN {disk} ELSE {disk, [disk EXCEPT ![Writing].tmp = TRUE]}
    /\ UNCHANGED <<flights, samples, past>>

\* A bug for RestartClosesSessions: only sessions with a temporary file are recovered.
InterruptedTorn(s) == disk[s].status = "recording" /\ disk[s].tmp
Interrupted(s) == disk[s].status = "recording"

\* start: _recover_interrupted_sessions, one after the other, then the writer.
Recover ==
    /\ main = "down"
    /\ \E s \in Flights \ unrecovered : Interrupted(s) /\
         disk' = [disk EXCEPT ![s] =
             [@ EXCEPT !.status = "unclean", !.reason = "interrupted", !.tmp = FALSE]]
    /\ UNCHANGED <<appVars, odo, queue, writer, session, dropVars, countVars, past>>

\* A recovery that raises is logged and the session stays as it is, perhaps
\* without its temporary files or with a new one.  The next start tries again.
RecoverFails ==
    /\ main = "down" /\ faults < MaxFaults /\ faults' = faults + 1
    /\ \E s \in Flights \ unrecovered, torn \in BOOLEAN : Interrupted(s) /\
         /\ unrecovered' = unrecovered \cup {s}
         /\ disk' = [disk EXCEPT ![s].tmp = torn]
    /\ UNCHANGED <<main, enabled, flight_active, session_id, session_start, sample_index, odo,
                   queue, writer, session, dropVars, flights, samples, past>>

Start ==
    /\ main = "down" /\ \A s \in Flights \ unrecovered : ~Interrupted(s)
    /\ main' = "idle" /\ enabled' = TRUE /\ writer' = "get"
    /\ past' = [past EXCEPT !.earlier = flights]
    /\ UNCHANGED <<flight_active, session_id, session_start, sample_index, unrecovered, odo, queue,
                   session, disk, dropVars, countVars>>

\* The join ended, the writer too: the process has stopped for good.
Stopped == main = "stopped" /\ writer = "done" /\ odo = NoSample /\ UNCHANGED vars

Init ==
    /\ main = "down" /\ enabled = FALSE /\ flight_active = FALSE
    /\ session_id = None /\ session_start = 0 /\ sample_index = 0 /\ unrecovered = {}
    /\ odo = NoSample /\ queue = <<>> /\ writer = "done" /\ session = NoSession
    /\ dropped_frames = 0 /\ dropped_odometry = 0
    /\ disk = [s \in Flights |-> NoDirectory]
    /\ flights = 0 /\ samples = 0 /\ faults = 0
    /\ past = [frames |-> [s \in Flights |-> <<>>], drops |-> [s \in Flights |-> 0],
               dropped |-> 0, lost |-> FALSE, earlier |-> 0]

MainStep == BeginFlight \/ ResetSamples \/ PutStart \/ Record \/ CaptureFails \/ Disarm \/ PutEnd
            \/ Stop
OdometryStep == OdometryCheck \/ OdometryRow \/ OdometryPut
WriterStep == Get \/ MakeDirectory \/ FirstMetadata \/ AppendRow \/ BeginFinish \/ WriteStream
              \/ ListChunk \/ Close
Next == MainStep \/ OdometryStep \/ WriterStep \/ WriteFails \/ Crash \/ Recover \/ RecoverFails
        \/ Start \/ Stopped

Spec == Init /\ [][Next]_vars
FairSpec == Spec /\ WF_vars(WriterStep)

----------------------------------------------------------------------------
(* bt_analysis/repository.py: what the dashboard offers, and loads.          *)

Sessions == {s \in Flights : disk[s].status \in {"complete", "unclean"}}
Loaded(s, stream) ==
    {[chunk |-> i - 1, stream |-> stream] :
        i \in {j \in DOMAIN disk[s].chunks : disk[s].chunks[j][stream] # <<>>}}

TypeOK ==
    /\ main \in {"down", "idle", "reset", "start", "frame", "end", "stopped"}
    /\ writer \in {"done", "get", "mkdir", "meta", "append", "flush", "write", "close"}
    /\ odo \in [at : {"idle", "active", "row"}, start : 0..MaxFlights]
    /\ session_id \in Flights \cup {None} /\ session.id \in Flights \cup {None}
    /\ TelemetryCount(queue) <= Capacity
    /\ (session_id = None) => ~flight_active

\* A session marked complete holds, in order, every frame of its flight that
\* the buffer took, and says how many (test_blackbox.py 82-134, README.md 46).
CompleteIsComplete ==
    \A s \in Flights : disk[s].status = "complete" =>
        LET rows == FlattenSeq([i \in DOMAIN disk[s].chunks |-> disk[s].chunks[i].frames])
        IN rows = past.frames[s] /\ disk[s].count = Len(rows)

\* What a complete session says it dropped is no less than what its flight
\* dropped (README.md 47: "frames are dropped and counted").
DropsAreReported ==
    \A s \in Flights : disk[s].status = "complete" => disk[s].dropped >= past.drops[s]

\* The dashboard never meets a chunk without its file, at whatever step the
\* recorder failed or was killed (blackbox.py 616-653, repository.py 114-120).
ListedChunksExist ==
    \A s \in Sessions, i \in DOMAIN Streams : Loaded(s, Streams[i]) \subseteq disk[s].files

\* Once the recorder has started, a session of an earlier process is open on
\* disk only if this start tried to recover it and failed, and the half-written
\* files of a session that was recovered are gone (529-541).
RestartClosesSessions ==
    \A s \in 1..past.earlier : main # "down" =>
        /\ disk[s].status = "recording" => s \in unrecovered
        /\ disk[s].reason = "interrupted" => ~disk[s].tmp

\* A stopped recorder's writer ends, and leaves no open session, unless it is killed.
StopEndsWriter ==
    [](main = "stopped" => <>(\/ main = "down"
                                \/ /\ writer = "done"
                                   /\ \A s \in Flights : disk[s].status = "recording" => faults > 0))

----------------------------------------------------------------------------
(* Statements of the repository's documents.                                 *)

\* bt_app/README.md 47-49: "An interrupted session keeps its finalized chunks
\* and is marked `unclean` on the next start".
InterruptedIsMarked ==
    \A s \in Flights : main = "idle" /\ writer = "get" /\ queue = <<>> /\ session.id # s
        /\ disk[s].dir => disk[s].status \in {"unclean", "complete"}

\* mavlink_odometry_blackbox.md 37: "Session metadata records written and
\* dropped counts", so a finished session counts the frames that were written.
CountsAreOfWrittenFrames ==
    \A s \in Sessions :
        disk[s].count <= Len(FlattenSeq([i \in DOMAIN disk[s].chunks |-> disk[s].chunks[i].frames]))

\* mavlink_odometry_blackbox.md 28-31: each odometry row contains its "flight
\* elapsed time", so it counts from the start of the flight it is written to.
OdometryIsOfItsFlight ==
    \A i \in DOMAIN session.rows.odometry : session.rows.odometry[i] = session.id

\* mavlink_odometry_blackbox.md 5-6: "records every accepted sample received
\* during an armed blackbox session"; drops are counted, none is lost.
NoOdometryLost == past.lost => faults > 0
=============================================================================
