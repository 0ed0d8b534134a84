------------------------------- MODULE Replay -------------------------------
(***************************************************************************)
(* core::ReplayRunner: commands read from one log are applied to a fresh   *)
(* engine, and the events it generates are compared one by one with the    *)
(* events read from another log.  The first difference ends the replay and *)
(* names its class.                                                        *)
(*                                                                         *)
(* A log is what a WAL reader makes of a file: whether the segment header  *)
(* is usable, the complete records, and whether anything torn or damaged   *)
(* follows them.  A logged command carries its command_sequence, a stored  *)
(* event that of the command which caused it.                              *)
(***************************************************************************)
EXTENDS OrderBook, FiniteSets

CONSTANT
    Logs                 \* the logs that a replay may be given

RecordType == {"OrderCommand", "ExecutionEvent"}

LoggedCommand == [record_type : {"OrderCommand"}, command_sequence : Nat,
                  body : Command]

StoredEvent == [record_type : {"ExecutionEvent"}, command_sequence : Nat,
                body : Event]

Log == [header : {"Valid", "Unusable"},
        records : Seq(LoggedCommand \cup StoredEvent),
        tail : {"Clean", "Torn"}]

ASSUME LogsAssumption == Logs \subseteq Log

VARIABLES
    command_log, event_log,       \* what the two readers read
    phase,                        \* where the runner is: "stopped" after a replay
    previous_command_sequence,
    index,                        \* event_index_within_command
    result,                       \* the ReplayResult
    generated                     \* ghost: every event generated so far

runnervars == <<phase, previous_command_sequence, index, result, generated>>
replayvars == <<vars, command_log, event_log, runnervars>>

NoSequence == -1         \* the empty optional

-----------------------------------------------------------------------------
\* The readers.

\* The status of the read that follows n records.
read_storage_record(log, n, type) ==
    IF log.header # "Valid" THEN "Failed"
    ELSE IF n < Len(log.records)
         THEN IF log.records[n + 1].record_type = type THEN "RecordRead" ELSE "Failed"
    ELSE IF log.tail = "Clean" THEN "EndOfLog"
    ELSE "Failed"

\* EventComparator::compare: the fields in the order in which they are compared.
EventField == <<"event_type", "event_sequence", "command_sequence",
                "instrument_id", "order_id", "contra_order_id", "side",
                "price_ticks", "quantity_lots", "remaining", "trade_id",
                "rejection_reason">>

FieldOf(stored, name) ==
    IF name = "command_sequence" THEN stored.command_sequence ELSE stored.body[name]

\* The fault: the reference to the command is not compared.
Differences_NoCommand(expected, actual) ==
    {i \in DOMAIN EventField \ {3} :
        FieldOf(expected, EventField[i]) # FieldOf(actual, EventField[i])}

Differences(expected, actual) ==
    {i \in DOMAIN EventField :
        FieldOf(expected, EventField[i]) # FieldOf(actual, EventField[i])}

compare(expected, actual) ==
    LET d == Differences(expected, actual)
    IN IF d = {} THEN "None" ELSE EventField[CHOOSE i \in d : \A j \in d : i <= j]

-----------------------------------------------------------------------------
\* The runner.

NoResult == [ok |-> TRUE, commands_replayed |-> 0, events_compared |-> 0,
             failure_class |-> "None", command_sequence |-> 0,
             event_index |-> 0, field |-> "None"]

\* The command at hand, and the events it generated as the log would store them.
CurrentCommand == command_log.records[result.commands_replayed + 1]

Stored(c, es) ==
    [i \in 1..Len(es) |-> [record_type |-> "ExecutionEvent",
                           command_sequence |-> c.command_sequence,
                           body |-> es[i]]]

ReplayIdle ==
    /\ Init
    /\ command_log = [header |-> "Unusable", records |-> <<>>, tail |-> "Torn"]
    /\ event_log = command_log
    /\ phase = "idle"
    /\ previous_command_sequence = NoSequence
    /\ index = 0
    /\ result = NoResult
    /\ generated = <<>>

\* A fresh InstrumentEngine.
FreshEngine ==
    /\ instrument_id' = NoInstrument
    /\ next_event_sequence' = FirstEventSequence
    /\ next_trade_id' = 1
    /\ levels' = [side \in Side |-> NoEntries]
    /\ active_orders' = NoEntries
    /\ pc' = "idle"
    /\ command' = NoCommand
    /\ incoming' = 0
    /\ events' = <<>>
    /\ rested_at' = NoEntries

\* The readers are opened, the engine is built, and the runner starts.
StartReplay(commands, stored) ==
    /\ FreshEngine
    /\ command_log' = commands
    /\ event_log' = stored
    /\ phase' = "read_command"
    /\ previous_command_sequence' = NoSequence
    /\ index' = 0
    /\ result' = NoResult
    /\ generated' = <<>>

\* failed_result, and the return.
Fail(class, sequence, event_index, field) ==
    /\ result' = [result EXCEPT !.ok = FALSE,
                                !.failure_class = class,
                                !.command_sequence = sequence,
                                !.event_index = event_index,
                                !.field = field]
    /\ phase' = "stopped"
    /\ UNCHANGED <<previous_command_sequence, index, generated>>

\* The fault: a gap in the command sequence is not noticed.
SequenceBreaks_Increasing(c) ==
    /\ previous_command_sequence # NoSequence
    /\ c.command_sequence <= previous_command_sequence

SequenceBreaks(c) ==
    /\ previous_command_sequence # NoSequence
    /\ c.command_sequence # previous_command_sequence + 1

\* The top of the loop: a command is read and the engine's call starts.
ReadCommand ==
    LET status == read_storage_record(command_log, result.commands_replayed,
                                      "OrderCommand")
    IN /\ phase = "read_command"
       /\ \/ /\ status = "EndOfLog"
             /\ phase' = "read_extra"
             /\ UNCHANGED <<vars, previous_command_sequence, index, result, generated>>
          \/ /\ status = "Failed"
             /\ Fail("CommandReadFailed", 0, 0, "None")
             /\ UNCHANGED vars
          \/ /\ status = "RecordRead"
             /\ SequenceBreaks(CurrentCommand)
             /\ Fail("CommandSequenceBreak", CurrentCommand.command_sequence, 0, "None")
             /\ UNCHANGED vars
          \/ /\ status = "RecordRead"
             /\ ~SequenceBreaks(CurrentCommand)
             /\ Apply(CurrentCommand.body)
             /\ phase' = "applying"
             /\ UNCHANGED <<previous_command_sequence, index, result, generated>>
       /\ UNCHANGED <<command_log, event_log>>

\* The engine's call goes on, and returns.
EngineStep ==
    /\ phase = "applying"
    /\ \/ pc = "matching" /\ Continue /\ UNCHANGED <<phase, generated>>
       \/ /\ pc = "idle"
          /\ generated' = generated \o Stored(CurrentCommand, events)
          /\ phase' = "comparing"
          /\ UNCHANGED vars
    /\ UNCHANGED <<command_log, event_log, previous_command_sequence, index, result>>

\* One iteration of the loop over the generated events.
CompareEvent ==
    LET expected == generated[result.events_compared + 1]
        status == read_storage_record(event_log, result.events_compared,
                                      "ExecutionEvent")
        field == compare(expected, event_log.records[result.events_compared + 1])
        sequence == CurrentCommand.command_sequence
    IN /\ phase = "comparing"
       /\ index < Len(events)
       /\ \/ /\ status = "EndOfLog"
             /\ Fail("StoredEventMissing", sequence, index, "None")
          \/ /\ status = "Failed"
             /\ Fail("StoredEventReadFailed", sequence, index, "None")
          \/ /\ status = "RecordRead"
             /\ field # "None"
             /\ Fail("EventFieldMismatch", sequence, index, field)
          \/ /\ status = "RecordRead"
             /\ field = "None"
             /\ index' = index + 1
             /\ result' = [result EXCEPT !.events_compared = @ + 1]
             /\ UNCHANGED <<phase, previous_command_sequence, generated>>
       /\ UNCHANGED <<vars, command_log, event_log>>

\* After the events of a command: the check of the book, and the next command.
FinishCommand ==
    /\ phase = "comparing"
    /\ index = Len(events)
    /\ IF validate_invariants
       THEN /\ previous_command_sequence' = CurrentCommand.command_sequence
            /\ result' = [result EXCEPT !.commands_replayed = @ + 1]
            /\ index' = 0
            /\ phase' = "read_command"
            /\ UNCHANGED generated
       ELSE Fail("InvariantViolation", CurrentCommand.command_sequence, 0, "None")
    /\ UNCHANGED <<vars, command_log, event_log>>

\* The fault: events left over are not looked for.
CheckExtraEvent_Skipped ==
    /\ phase = "read_extra"
    /\ phase' = "stopped"
    /\ UNCHANGED <<vars, command_log, event_log, previous_command_sequence, index,
                   result, generated>>

\* After the last command: the stored events must be used up.
CheckExtraEvent ==
    LET status == read_storage_record(event_log, result.events_compared,
                                      "ExecutionEvent")
    IN /\ phase = "read_extra"
       /\ \/ /\ status = "RecordRead"
             /\ Fail("ExtraStoredEvent", 0, 0, "None")
          \/ /\ status = "Failed"
             /\ Fail("StoredEventReadFailed", 0, 0, "None")
          \/ /\ status = "EndOfLog"
             /\ phase' = "stopped"
             /\ UNCHANGED <<previous_command_sequence, index, result, generated>>
       /\ UNCHANGED <<vars, command_log, event_log>>

\* A step of a replay that has started.
ReplayStep ==
    \/ ReadCommand
    \/ EngineStep
    \/ CompareEvent
    \/ FinishCommand
    \/ CheckExtraEvent

ReplayNext ==
    \/ /\ phase \in {"idle", "stopped"}
       /\ \E commands, stored \in Logs : StartReplay(commands, stored)
    \/ ReplayStep

ReplaySpec == ReplayIdle /\ [][ReplayNext]_replayvars

-----------------------------------------------------------------------------
\* Safety.

\* The first k commands of the log count up by one.
Contiguous(log, k) ==
    \A i \in 1..(k - 1) :
        log.records[i + 1].command_sequence = log.records[i].command_sequence + 1

\* What a successful replay vouches for: both logs were read to a clean end, no
\* command was skipped, and the stored events are the generated ones, all of them
\* and nothing else.
OkMeansEqual ==
    (phase = "stopped" /\ result.ok) =>
        /\ command_log.header = "Valid" /\ command_log.tail = "Clean"
        /\ event_log.header = "Valid" /\ event_log.tail = "Clean"
        /\ result.commands_replayed = Len(command_log.records)
        /\ Contiguous(command_log, Len(command_log.records))
        /\ event_log.records = generated

\* A failed replay reports the first divergence: everything before it agrees, and
\* the class, the command, the event within the command and the field are those of
\* the first record that does not.  No class is left for a book that fails its check.
FailureIsFirst ==
    (phase = "stopped" /\ ~result.ok) =>
        LET k == result.commands_replayed
            n == result.events_compared
            command_read == read_storage_record(command_log, k, "OrderCommand")
            event_read == read_storage_record(event_log, n, "ExecutionEvent")
            stored == event_log.records
        IN /\ Contiguous(command_log, k)
           /\ n <= Len(generated) /\ n <= Len(stored)
           /\ \A i \in 1..n : stored[i] = generated[i]
           /\ result.failure_class \in {"StoredEventMissing", "EventFieldMismatch"} =>
                 /\ n < Len(generated)
                 /\ result.command_sequence = generated[n + 1].command_sequence
                 /\ result.event_index =
                      Cardinality({i \in 1..n : generated[i].command_sequence
                                                    = result.command_sequence})
           /\ CASE result.failure_class = "CommandReadFailed" ->
                     command_read = "Failed"
                [] result.failure_class = "CommandSequenceBreak" ->
                     /\ command_read = "RecordRead"
                     /\ ~Contiguous(command_log, k + 1)
                [] result.failure_class = "StoredEventReadFailed" ->
                     event_read = "Failed"
                [] result.failure_class = "StoredEventMissing" ->
                     event_read = "EndOfLog"
                [] result.failure_class = "EventFieldMismatch" ->
                     /\ event_read = "RecordRead"
                     /\ FieldOf(stored[n + 1], result.field)
                            # FieldOf(generated[n + 1], result.field)
                [] result.failure_class = "ExtraStoredEvent" ->
                     /\ event_read = "RecordRead"
                     /\ n = Len(generated)
                     /\ k = Len(command_log.records)
                [] OTHER -> FALSE
=============================================================================
