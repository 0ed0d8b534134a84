------------------------------ MODULE Pipeline ------------------------------
(***************************************************************************)
(* The command line program: "run" loads a scenario, writes the command    *)
(* WAL, runs the engine, writes the event WAL and replays the two files;   *)
(* "replay" replays two files it is given.  One process runs at a time; it *)
(* can be killed at any step, and a write can fail half way.  The files    *)
(* outlive the process.                                                    *)
(*                                                                         *)
(* A file is the log that a reader would make of it.  What a killed or     *)
(* failed writer leaves is any beginning of what it had to write, torn or  *)
(* not (WalSegment shows where the cuts can be); the records written here  *)
(* need no padding.                                                        *)
(***************************************************************************)
EXTENDS Replay, ScenarioLoader

CONSTANTS
    Path,                \* the paths that the user names
    Scenarios,           \* the scenario texts, each a sequence of lines
    MaxProcesses         \* bound: processes started

ASSUME ScenariosAssumption == Scenarios \subseteq Seq(Line)

\* run_engine numbers events from 1; 0 is not a valid sequence of a segment.
ASSUME EngineAssumption == FirstEventSequence > 0

VARIABLES
    files,               \* path -> log; at first what earlier sessions left
    process,             \* the program's local state
    exit_code,           \* of the last process; "killed" if it did not exit
    processes            \* number of processes started

pipelinevars == <<files, process, exit_code, processes>>
allvars == <<replayvars, pipelinevars>>

NoFile == [header |-> "Unusable", records |-> <<>>, tail |-> "Torn"]

NoProcess == [verb |-> "none", lines |-> <<>>, commands |-> <<>>, applied |-> 0,
              produced |-> <<>>, command_path |-> CHOOSE p \in Path : TRUE,
              event_path |-> CHOOSE p \in Path : TRUE]

PipelineInit ==
    /\ ReplayIdle
    /\ files \in [Path -> Logs \cup {NoFile}]
    /\ process = NoProcess
    /\ exit_code = "none"
    /\ processes = 0

-----------------------------------------------------------------------------
\* The segment that a writer lays out: its header carries the sequence of the
\* first record as first_sequence, and 0 is not a valid one.
Segment(first_sequence, records, tail) ==
    [header |-> IF first_sequence = 0 THEN "Unusable" ELSE "Valid",
     records |-> records, tail |-> tail]

\* write_commands and write_events take first_sequence from the first record.
FirstCommandSequence(records) ==
    IF records = <<>> THEN 1 ELSE records[1].command_sequence

FirstStoredSequence(records) ==
    IF records = <<>> THEN 1 ELSE records[1].body.event_sequence

\* What is left of a file that was to hold the records: none, or a beginning.
Remains(first_sequence, records) ==
    {NoFile} \cup {Segment(first_sequence, SubSeq(records, 1, n), t) :
                        n \in 0..Len(records), t \in {"Clean", "Torn"}}

\* What a write that returns true leaves.  With no record there is no commit, and
\* a file that was not created, or whose header was lost, goes unnoticed.
Written(first_sequence, records) ==
    {Segment(first_sequence, records, "Clean")} \cup
        IF records = <<>> THEN {NoFile} ELSE {}

Exit(code) ==
    /\ phase' = "idle"
    /\ exit_code' = code
    /\ UNCHANGED <<vars, command_log, event_log, previous_command_sequence, index,
                   result, generated, process, processes>>

\* A write that fails: it returns false, for a record that could not be appended or
\* committed, or the process dies in it (by an uncaught exception, for one), with the
\* old file removed or not yet.
WriteFails(path, first_sequence, records) ==
    \/ /\ records # <<>>
       /\ \E left \in Remains(first_sequence, records) :
             files' = [files EXCEPT ![path] = left]
       /\ Exit("1")
    \/ /\ \E left \in Remains(first_sequence, records) \cup {files[path]} :
             files' = [files EXCEPT ![path] = left]
       /\ Exit("killed")

NewProcess(local) ==
    /\ phase = "idle"
    /\ processes < MaxProcesses
    /\ processes' = processes + 1
    /\ process' = local
    /\ exit_code' = "none"

-----------------------------------------------------------------------------
\* The verb "run".

run_command(lines, p, q) ==
    LET scenario == load_scenario(lines)
    IN /\ NewProcess([NoProcess EXCEPT !.verb = "run",
                                       !.lines = lines,
                                       !.commands = scenario.commands,
                                       !.command_path = p,
                                       !.event_path = q])
       /\ phase' = IF scenario.ok THEN "write_commands" ELSE "exit_error"
       /\ UNCHANGED <<vars, command_log, event_log, previous_command_sequence, index,
                      result, generated, files>>

\* write_commands returns true; run_engine constructs its engine.
write_commands ==
    /\ phase = "write_commands"
    /\ \E log \in Written(FirstCommandSequence(process.commands), process.commands) :
          files' = [files EXCEPT ![process.command_path] = log]
    /\ FreshEngine
    /\ phase' = "run_engine"
    /\ UNCHANGED <<command_log, event_log, previous_command_sequence, index, result,
                   generated, process, exit_code, processes>>

write_commands_fails ==
    /\ phase = "write_commands"
    /\ WriteFails(process.command_path, FirstCommandSequence(process.commands),
                  process.commands)

\* run_engine: a call per command, its events collected when it returns.
run_engine ==
    /\ \/ /\ phase = "run_engine"
          /\ process.applied < Len(process.commands)
          /\ Apply(process.commands[process.applied + 1].body)
          /\ phase' = "engine_call"
          /\ UNCHANGED process
       \/ /\ phase = "engine_call"
          /\ pc = "matching"
          /\ Continue
          /\ UNCHANGED <<phase, process>>
       \/ /\ phase = "engine_call"
          /\ pc = "idle"
          /\ process' = [process EXCEPT
                !.applied = @ + 1,
                !.produced = @ \o Stored(process.commands[process.applied + 1], events)]
          /\ phase' = "run_engine"
          /\ UNCHANGED vars
       \/ /\ phase = "run_engine"
          /\ process.applied = Len(process.commands)
          /\ phase' = "write_events"
          /\ UNCHANGED <<vars, process>>
    /\ UNCHANGED <<command_log, event_log, previous_command_sequence, index, result,
                   generated, files, exit_code, processes>>

\* write_events returns true, and replay_wals opens the two files.
write_events ==
    /\ phase = "write_events"
    /\ \E log \in Written(FirstStoredSequence(process.produced), process.produced) :
          LET written == [files EXCEPT ![process.event_path] = log]
          IN /\ files' = written
             /\ StartReplay(written[process.command_path], written[process.event_path])
    /\ UNCHANGED <<process, exit_code, processes>>

write_events_fails ==
    /\ phase = "write_events"
    /\ WriteFails(process.event_path, FirstStoredSequence(process.produced),
                  process.produced)

-----------------------------------------------------------------------------
\* The verb "replay", and the end of every process.

replay_command(p, q) ==
    /\ NewProcess([NoProcess EXCEPT !.verb = "replay", !.command_path = p,
                                    !.event_path = q])
    /\ StartReplay(files[p], files[q])
    /\ UNCHANGED files

\* A step of ReplayRunner, in either verb.
replay_wals == ReplayStep /\ UNCHANGED pipelinevars

\* main returns.
ReturnFromMain ==
    /\ \/ phase = "stopped" /\ Exit(IF result.ok THEN "0" ELSE "2")
       \/ phase = "exit_error" /\ Exit("1")
    /\ UNCHANGED files

\* The process is killed outside the two writes.
Killed ==
    /\ phase \notin {"idle", "write_commands", "write_events"}
    /\ Exit("killed")
    /\ UNCHANGED files

\* A step that a running process takes by itself.
ProcessStep ==
    \/ write_commands
    \/ write_commands_fails
    \/ run_engine
    \/ write_events
    \/ write_events_fails
    \/ replay_wals
    \/ ReturnFromMain

PipelineNext ==
    \/ \E lines \in Scenarios, p, q \in Path : run_command(lines, p, q)
    \/ \E p, q \in Path : replay_command(p, q)
    \/ ProcessStep
    \/ Killed

PipelineSpec == PipelineInit /\ [][PipelineNext]_allvars

\* A process that is not killed goes on to its end.
FairPipelineSpec == PipelineSpec /\ WF_allvars(ProcessStep)

-----------------------------------------------------------------------------
\* Safety.

\* The verdict on the files that a run has just written.  The scenario decides
\* it, not what the run found at its paths: success, unless the command sequence
\* has a gap, starts at 0, or both files share a path.  Only for a scenario without
\* commands, whose writes are not committed, the verdict shows what became of them.
CompletedRunReplays ==
    (phase = "stopped" /\ process.verb = "run") =>
        LET commands == process.commands
            usable(path) == files[path].header = "Valid"
        IN result.failure_class =
             IF commands = <<>>
             THEN IF ~usable(process.command_path) THEN "CommandReadFailed"
                  ELSE IF ~usable(process.event_path) THEN "StoredEventReadFailed"
                  ELSE "None"
             ELSE IF process.command_path = process.event_path
                     \/ commands[1].command_sequence = 0
                  THEN "CommandReadFailed"
             ELSE IF Contiguous([records |-> commands], Len(commands)) THEN "None"
             ELSE "CommandSequenceBreak"

\* A run that exits with success has logged every line of its scenario that is not
\* blank or a comment, in order, and all the events of the engine that ran them.
RunExitZero ==
    (phase = "idle" /\ exit_code = "0" /\ process.verb = "run") =>
        LET lines == process.lines
            rows == {n \in DOMAIN lines : ~Skipped(lines[n])}
            logged == files[process.command_path].records
            stored == files[process.event_path].records
        IN rows # {} =>
             /\ Len(logged) = Cardinality(rows)
             /\ \A n \in rows :
                   /\ logged[Place(rows, n)].command_sequence = lines[n].sequence
                   /\ \E k \in DOMAIN stored :
                         stored[k].command_sequence = lines[n].sequence
             /\ stored = process.produced
             /\ \A k \in DOMAIN stored : stored[k].body.event_sequence =
                                            FirstEventSequence + k - 1

-----------------------------------------------------------------------------
\* Liveness.

\* Every process ends, whatever files it is given.
ProcessEnds == phase # "idle" ~> phase = "idle"
=============================================================================
