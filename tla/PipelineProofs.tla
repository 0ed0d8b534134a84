--------------------------- MODULE PipelineProofs ---------------------------
(***************************************************************************)
(* Proofs about the program: what the verdict and the exit code of a       *)
(* process mean, for every scenario, whatever the files held and wherever  *)
(* a process is killed.  The replay lemmas carry over; what is new is that *)
(* two engines are compared.  The engine of run_engine passes through a    *)
(* sequence of configurations; because it is a function of its view, the   *)
(* one that replays the commands passes through the same sequence, so that *)
(* what it has generated is always a beginning of what was stored.         *)
(***************************************************************************)
EXTENDS Pipeline, ReplayProofs

-----------------------------------------------------------------------------
(* Scenarios.                                                              *)

\* The places of rows are the numbers from 1, each that of one row.
LEMMA PlaceFacts ==
    ASSUME NEW rows \in SUBSET Nat, IsFiniteSet(rows)
    PROVE  /\ Cardinality(rows) \in Nat
           /\ \A n \in rows : Place(rows, n) \in 1..Cardinality(rows)
           /\ \A n, m \in rows : Place(rows, n) = Place(rows, m) => n = m
           /\ \A k \in 1..Cardinality(rows) : \E n \in rows : Place(rows, n) = k
<1> DEFINE upto(n) == {m \in rows : m <= n}
           f == [n \in rows |-> Place(rows, n)]
<1>1. Cardinality(rows) \in Nat
    BY FS_CardinalityType
<1>2. ASSUME NEW n \in rows
      PROVE  /\ IsFiniteSet(upto(n)) /\ Place(rows, n) = Cardinality(upto(n))
             /\ Cardinality(upto(n)) \in Nat
             /\ Place(rows, n) \in 1..Cardinality(rows)
  <2>1. upto(n) \in SUBSET rows /\ n \in upto(n)
      OBVIOUS
  <2>2. IsFiniteSet(upto(n)) /\ Cardinality(upto(n)) <= Cardinality(rows)
      BY <2>1, FS_Subset
  <2>3. Cardinality(upto(n)) \in Nat /\ Cardinality(upto(n)) # 0
      BY <2>1, <2>2, FS_CardinalityType, FS_EmptySet
  <2>4. Place(rows, n) = Cardinality(upto(n))
      BY DEF Place
  <2> QED BY <1>1, <2>2, <2>3, <2>4
<1>3. ASSUME NEW n \in rows, NEW m \in rows, n < m
      PROVE  Place(rows, n) # Place(rows, m)
  <2>0. \A k \in rows : k \in Nat
      OBVIOUS
  <2>1. upto(n) \in SUBSET upto(m) /\ m \in upto(m) /\ m \notin upto(n)
    <3>1. m <= m /\ ~(m <= n) /\ \A k \in rows : k <= n => k <= m
        BY <1>3, <2>0
    <3> QED BY <3>1
  <2>2. Cardinality(upto(m)) # Cardinality(upto(n))
      BY <1>2, <2>1, FS_Subset
  <2> QED BY <1>2, <2>2
<1>4. ASSUME NEW n \in rows, NEW m \in rows, Place(rows, n) = Place(rows, m)
      PROVE  n = m
  <2>1. n = m \/ n < m \/ m < n
      OBVIOUS
  <2> QED BY <1>3, <1>4, <2>1
<1>5. f \in Injection(rows, 1..Cardinality(rows))
    BY <1>2, <1>4, Zenon DEF Injection, IsInjective
<1>6. /\ IsFiniteSet(1..Cardinality(rows))
      /\ Cardinality(1..Cardinality(rows)) = Cardinality(rows)
    BY <1>1, FS_Interval
<1>7. f \in Surjection(rows, 1..Cardinality(rows))
    BY <1>5, <1>6, FS_Injection
<1>8. ASSUME NEW k \in 1..Cardinality(rows) PROVE \E n \in rows : Place(rows, n) = k
    BY <1>7, <1>8 DEF Surjection
<1> QED BY <1>1, <1>2, <1>4, <1>8

\* The record of a line that is well formed is a command.
LEMMA CommandOfType ==
    ASSUME NEW line \in Line, WellFormed(line)
    PROVE  CommandOf(line) \in Command
<1>1. /\ line.order \in Name /\ line.replacement \in Name /\ line.instrument \in Name
      /\ line.side \in Side /\ line.price \in Int /\ line.quantity \in Int
    BY DEF Line
<1>2. /\ StableId[line.order] \in OrderId /\ StableId[line.replacement] \in OrderId
      /\ InstrumentId[line.instrument] \in Instrument /\ ZeroId \in OrderId
    BY <1>1, NameAssumption, IdAssumption
<1>3. line.op \in {"NEW", "CANCEL", "REPLACE"}
    BY DEF WellFormed
<1> QED BY <1>1, <1>2, <1>3 DEF CommandOf, Command, CommandType

\* load_scenario logs one command per line that is not skipped, at its place.
LEMMA ScenarioFacts ==
    ASSUME NEW lines \in Seq(Line)
    PROVE  LET scenario == load_scenario(lines)
               rows == {n \in DOMAIN lines : ~Skipped(lines[n])}
           IN /\ scenario.commands \in Seq(LoggedCommand)
              /\ scenario.ok =>
                    /\ Cardinality(rows) \in Nat
                    /\ Len(scenario.commands) = Cardinality(rows)
                    /\ \A n \in rows :
                          LET k == Place(rows, n)
                          IN /\ k \in 1..Cardinality(rows)
                             /\ scenario.commands[k].command_sequence
                                    = lines[n].sequence
<1> DEFINE rows == {n \in DOMAIN lines : ~Skipped(lines[n])}
           wrong == {n \in rows : ~WellFormed(lines[n])}
           picked(k) == CHOOSE n \in rows : Place(rows, n) = k
<1>1. /\ Len(lines) \in Nat /\ DOMAIN lines = 1..Len(lines)
      /\ \A n \in DOMAIN lines : lines[n] \in Line
    BY LenProperties, ElementOfSeq
<1>2. rows \in SUBSET Nat /\ IsFiniteSet(rows)
  <2>1. IsFiniteSet(1..Len(lines)) /\ rows \in SUBSET (1..Len(lines))
      BY <1>1, FS_Interval
  <2> QED BY <1>1, <2>1, FS_Subset
<1>3. /\ Cardinality(rows) \in Nat
      /\ \A n \in rows : Place(rows, n) \in 1..Cardinality(rows)
      /\ \A n, m \in rows : Place(rows, n) = Place(rows, m) => n = m
      /\ \A k \in 1..Cardinality(rows) : \E n \in rows : Place(rows, n) = k
    BY <1>2, PlaceFacts
<1>4. /\ \A k \in 1..Cardinality(rows) : picked(k) \in rows
      /\ \A n \in rows : picked(Place(rows, n)) = n
    BY <1>3
<1>5. CASE wrong # {}
  <2>1. load_scenario(lines).commands = <<>> /\ ~load_scenario(lines).ok
      BY <1>5 DEF load_scenario
  <2> QED BY <2>1
<1>6. CASE wrong = {}
  <2> DEFINE commands == Parsed(lines, rows)
  <2>1. load_scenario(lines).commands = commands
      BY <1>6 DEF load_scenario
  <2>2. \A n \in rows : lines[n] \in Line /\ WellFormed(lines[n])
      BY <1>1, <1>6
  <2>3. ASSUME NEW k \in 1..Cardinality(rows)
        PROVE  /\ commands[k] \in LoggedCommand
               /\ commands[k].command_sequence = lines[picked(k)].sequence
    <3> DEFINE line == lines[picked(k)]
    <3>1. commands[k] = [record_type |-> "OrderCommand",
                         command_sequence |-> line.sequence, body |-> CommandOf(line)]
        BY DEF Parsed
    <3>2. line \in Line /\ WellFormed(line)
        BY <1>4, <2>2
    <3> HIDE DEF line
    <3>3. CommandOf(line) \in Command /\ line.sequence \in Nat
        BY <3>2, CommandOfType DEF Line
    <3>4. commands[k] \in LoggedCommand /\ commands[k].command_sequence = line.sequence
        BY <3>1, <3>3 DEF LoggedCommand
    <3> QED BY <3>4 DEF line
  <2>4. DOMAIN commands = 1..Cardinality(rows)
      BY DEF Parsed
  <2> HIDE DEF commands
  <2>5. commands \in [1..Cardinality(rows) -> LoggedCommand]
    <3>1. commands = [k \in 1..Cardinality(rows) |-> commands[k]]
        BY <2>4 DEF commands, Parsed
    <3> QED BY <2>3, <3>1
  <2>6. commands \in Seq(LoggedCommand) /\ Len(commands) = Cardinality(rows)
      BY <1>3, <2>4, <2>5
  <2>7. ASSUME NEW n \in rows
        PROVE  commands[Place(rows, n)].command_sequence = lines[n].sequence
      BY <1>3, <1>4, <2>3
  <2> QED BY <1>3, <2>1, <2>6, <2>7
<1> QED BY <1>5, <1>6
-----------------------------------------------------------------------------
(* Files.                                                                  *)

LEMMA SegmentFacts ==
    ASSUME NEW records \in Seq(LoggedCommand \cup StoredEvent), NEW first,
           NEW tail \in {"Clean", "Torn"}
    PROVE  LET log == Segment(first, records, tail)
           IN /\ log \in Log /\ log.records = records /\ log.tail = tail
              /\ log.header = IF first = 0 THEN "Unusable" ELSE "Valid"
BY DEF Segment, Log

LEMMA NoFileType == NoFile \in Log
<1>1. <<>> \in Seq(LoggedCommand \cup StoredEvent)
    OBVIOUS
<1> QED BY <1>1 DEF NoFile, Log

LEMMA RemainsType ==
    ASSUME NEW records \in Seq(LoggedCommand \cup StoredEvent), NEW first
    PROVE  Remains(first, records) \subseteq Log
<1>1. ASSUME NEW n \in 0..Len(records), NEW t \in {"Clean", "Torn"}
      PROVE  Segment(first, SubSeq(records, 1, n), t) \in Log
  <2>1. Len(records) \in Nat
      BY LenProperties
  <2>2. \A i \in 1..n : records[i] \in LoggedCommand \cup StoredEvent
      BY <2>1, ElementOfSeq
  <2>3. SubSeq(records, 1, n) \in Seq(LoggedCommand \cup StoredEvent)
      BY <2>1, <2>2, SubSeqProperties
  <2> QED BY <2>3, SegmentFacts
<1> QED BY <1>1, NoFileType DEF Remains

\* A write that returns true leaves a log of the records, which is clean if it has a
\* header, and which has one if there are records.
LEMMA WrittenFacts ==
    ASSUME NEW records \in Seq(LoggedCommand \cup StoredEvent), NEW first,
           NEW log \in Written(first, records)
    PROVE  /\ log \in Log /\ log.records = records
           /\ log.header = "Valid" => log.tail = "Clean"
           /\ records # <<>> => log = Segment(first, records, "Clean")
<1>1. log = Segment(first, records, "Clean") \/ (log = NoFile /\ records = <<>>)
    BY DEF Written
<1>2. CASE log = Segment(first, records, "Clean")
  <2>1. /\ log \in Log /\ log.records = records /\ log.tail = "Clean"
      BY <1>2, SegmentFacts
  <2> QED BY <1>2, <2>1
<1>3. CASE log = NoFile /\ records = <<>>
  <2>1. log \in Log /\ log.records = records /\ log.header # "Valid"
      BY <1>3, NoFileType DEF NoFile
  <2> QED BY <1>3, <2>1
<1> QED BY <1>1, <1>2, <1>3

LEMMA WriteKeepsFiles ==
    ASSUME files \in [Path -> Log], NEW path \in Path, NEW log \in Log,
           files' = [files EXCEPT ![path] = log]
    PROVE  files' \in [Path -> Log] /\ files'[path] = log
OBVIOUS

-----------------------------------------------------------------------------
(* Replay within the program.                                              *)

ReplayPhase == {"read_command", "applying", "comparing", "read_extra", "stopped"}

\* A replay whose first read fails.
Unreadable == read_storage_record(command_log, 0, "OrderCommand") = "Failed"

Verdict ==
    /\ IF result.ok THEN result.failure_class = "None" ELSE result.failure_class # "None"
    /\ Unreadable =>
          /\ result.commands_replayed = 0
          /\ phase \in {"read_command", "stopped"}
          /\ phase = "stopped" => result.failure_class = "CommandReadFailed"

ReplayInv == phase \in ReplayPhase => RunnerInv /\ DiagnosisInv /\ Verdict

LEMMA StartVerdict ==
    ASSUME NEW commands, NEW stored, StartReplay(commands, stored)
    PROVE  Verdict' /\ phase' = "read_command"
BY DEF StartReplay, Verdict, NoResult

LEMMA VerdictStep ==
    ASSUME RunnerInv, Verdict, ReplayStep
    PROVE  Verdict'
<1> DEFINE k == result.commands_replayed
<1>1. result \in Result
    BY DEF RunnerInv, RunnerTypes
<1>2. command_log' = command_log
    BY DEF ReplayStep, ReadCommand, EngineStep, CompareEvent, FinishCommand,
           CheckExtraEvent
<1>3. Unreadable' <=> Unreadable
    BY <1>2 DEF Unreadable
<1>4. ASSUME NEW class, NEW sequence, NEW event_index, NEW field, class # "None",
             Fail(class, sequence, event_index, field),
             Unreadable => class = "CommandReadFailed"
      PROVE  Verdict'
  <2>1. /\ ~result'.ok /\ result'.failure_class = class
        /\ result'.commands_replayed = result.commands_replayed /\ phase' = "stopped"
      BY <1>1, <1>4 DEF Fail, Result
  <2> QED BY <1>3, <1>4, <2>1 DEF Verdict
<1>5. CASE ReadCommand
  <2>1. k \in Nat /\ (Unreadable => k = 0)
      BY <1>1 DEF Verdict, Result
  <2>2. Unreadable => read_storage_record(command_log, k, "OrderCommand") = "Failed"
      BY <2>1 DEF Unreadable
  <2>3. CASE Unreadable
    <3>1. Fail("CommandReadFailed", 0, 0, "None")
        BY <1>5, <2>2, <2>3 DEF ReadCommand
    <3> QED BY <1>4, <3>1
  <2>4. CASE ~Unreadable
    <3>1. CASE result' = result
        BY <1>3, <2>4, <3>1 DEF Verdict
    <3>2. CASE \E sequence : Fail("CommandReadFailed", sequence, 0, "None")
        BY <1>4, <2>4, <3>2
    <3>3. CASE \E sequence : Fail("CommandSequenceBreak", sequence, 0, "None")
        BY <1>4, <2>4, <3>3
    <3> QED BY <1>5, <3>1, <3>2, <3>3 DEF ReadCommand
  <2> QED BY <2>3, <2>4
<1>6. CASE EngineStep
  <2>1. phase = "applying" /\ result' = result
      BY <1>6 DEF EngineStep
  <2> QED BY <1>3, <2>1 DEF Verdict
<1>7. CASE CompareEvent
  <2>1. phase = "comparing" /\ ~Unreadable
      BY <1>7 DEF CompareEvent, Verdict
  <2>2. CASE result' = [result EXCEPT !.events_compared = @ + 1]
    <3>1. /\ result'.ok = result.ok /\ result'.failure_class = result.failure_class
        BY <1>1, <2>2 DEF Result
    <3> QED BY <1>3, <2>1, <3>1 DEF Verdict
  <2>3. CASE \E class \in {"StoredEventMissing", "StoredEventReadFailed",
                           "EventFieldMismatch"} :
                \E sequence, event_index, field :
                   Fail(class, sequence, event_index, field)
      BY <1>4, <2>1, <2>3
  <2> QED BY <1>7, <2>2, <2>3 DEF CompareEvent
<1>8. CASE FinishCommand
  <2>1. /\ phase = "comparing" /\ ~Unreadable
        /\ result' = [result EXCEPT !.commands_replayed = @ + 1]
      BY <1>8, IInvValidates DEF FinishCommand, Verdict, RunnerInv
  <2>2. /\ result'.ok = result.ok /\ result'.failure_class = result.failure_class
      BY <1>1, <2>1 DEF Result
  <2> QED BY <1>3, <2>1, <2>2 DEF Verdict
<1>9. CASE CheckExtraEvent
  <2>1. phase = "read_extra" /\ ~Unreadable
      BY <1>9 DEF CheckExtraEvent, Verdict
  <2>2. CASE result' = result
      BY <1>3, <2>1, <2>2 DEF Verdict
  <2>3. CASE \/ Fail("ExtraStoredEvent", 0, 0, "None")
             \/ Fail("StoredEventReadFailed", 0, 0, "None")
      BY <1>4, <2>1, <2>3
  <2> QED BY <1>9, <2>2, <2>3 DEF CheckExtraEvent
<1> QED BY <1>5, <1>6, <1>7, <1>8, <1>9 DEF ReplayStep

\* A step of the runner stays within the replay.
LEMMA ReplayStepKeeps ==
    ASSUME RunnerInv, DiagnosisInv, Verdict, ReplayStep
    PROVE  /\ phase \in ReplayPhase /\ phase' \in ReplayPhase
           /\ UNCHANGED <<command_log, event_log>>
           /\ RunnerInv' /\ DiagnosisInv' /\ Verdict'
<1>1. RunnerInv'
    BY ReadCommandKeeps, EngineStepKeeps, CompareEventKeeps, FinishCommandKeeps,
       CheckExtraEventKeeps DEF ReplayStep
<1>2. DiagnosisInv'
    BY <1>1, DiagnosisStep DEF ReplayNext
<1>3. /\ phase \in ReplayPhase /\ phase' \in ReplayPhase
      /\ UNCHANGED <<command_log, event_log>>
  <2>1. CASE ReadCommand
      BY <2>1 DEF ReadCommand, Fail, ReplayPhase
  <2>2. CASE EngineStep
      BY <2>2 DEF EngineStep, ReplayPhase
  <2>3. CASE CompareEvent
      BY <2>3 DEF CompareEvent, Fail, ReplayPhase
  <2>4. CASE FinishCommand
      BY <2>4 DEF FinishCommand, Fail, ReplayPhase
  <2>5. CASE CheckExtraEvent
      BY <2>5 DEF CheckExtraEvent, Fail, ReplayPhase
  <2> QED BY <2>1, <2>2, <2>3, <2>4, <2>5 DEF ReplayStep
<1> QED BY <1>1, <1>2, <1>3, VerdictStep
-----------------------------------------------------------------------------
(* The inductive invariant, apart from the configurations of the engine.    *)

WritePhase == {"write_commands", "run_engine", "engine_call", "write_events"}

Process == [verb : {"run", "replay"}, lines : Seq(Line), commands : Seq(LoggedCommand),
            applied : Nat, produced : Seq(StoredEvent),
            command_path : Path, event_path : Path]

ProgramTypes ==
    /\ files \in [Path -> Log]
    /\ phase \in {"idle", "exit_error"} \cup WritePhase \cup ReplayPhase
    /\ phase # "idle" => process \in Process
    /\ phase \in WritePhase => process.verb = "run"
    /\ IInv

\* A run whose scenario was accepted.
Running == process.verb = "run" /\ phase \in WritePhase \cup ReplayPhase

CommandFile == Written(FirstCommandSequence(process.commands), process.commands)

EventFile == Written(FirstStoredSequence(process.produced), process.produced)

\* What the run has read, and what it has written so far.
FilesWritten ==
    Running =>
        /\ load_scenario(process.lines).ok
        /\ process.commands = load_scenario(process.lines).commands
        /\ phase \in {"run_engine", "engine_call", "write_events"} =>
              files[process.command_path] \in CommandFile
        /\ phase \in ReplayPhase =>
              /\ event_log \in EventFile
              /\ IF process.command_path = process.event_path
                 THEN command_log = event_log ELSE command_log \in CommandFile
              /\ files[process.command_path] = command_log
              /\ files[process.event_path] = event_log

\* The stored events are numbered without a gap, and each command that was applied
\* has events among them.
Produced(cs, a, p) ==
    /\ a <= Len(cs)
    /\ a = 0 => p = <<>>
    /\ \A k \in 1..Len(p) : p[k].body.event_sequence = FirstEventSequence + k - 1
    /\ \A j \in 1..a : \E k \in 1..Len(p) : p[k].command_sequence = cs[j].command_sequence

\* Where the engine of the run is in its numbering.
EngineProgress ==
    Running =>
        /\ Produced(process.commands, process.applied, process.produced)
        /\ phase = "write_commands" => process.applied = 0 /\ process.produced = <<>>
        /\ phase \in {"run_engine", "engine_call"} => CallInv
        /\ phase = "run_engine" =>
              /\ pc = "idle"
              /\ next_event_sequence = FirstEventSequence + Len(process.produced)
        /\ phase = "engine_call" =>
              /\ process.applied < Len(process.commands)
              /\ events # <<>>
              /\ next_event_sequence =
                    FirstEventSequence + Len(process.produced) + Len(events)
        /\ phase \in {"write_events"} \cup ReplayPhase =>
              process.applied = Len(process.commands)

ProgramInv ==
    /\ ProgramTypes
    /\ ReplayInv
    /\ FilesWritten
    /\ EngineProgress
    /\ RunExitZero
-----------------------------------------------------------------------------
(* The engine's numbering, across a step of a call.                        *)

\* The first step of a call emits events that number up to the next sequence.
LEMMA CallNumbers ==
    ASSUME IInv, NEW c \in Command, Apply(c)
    PROVE  /\ next_event_sequence' = next_event_sequence + Len(events')
           /\ events' # <<>>
<1>1. next_event_sequence \in Nat
    BY DEF IInv, TypeOK
<1>2. ASSUME NEW reason, Reject(c, reason)
      PROVE  next_event_sequence' = next_event_sequence + Len(events') /\ events' # <<>>
  <2> DEFINE e == emit_rejection_event(c, next_event_sequence, reason)
  <2>1. events' = <<e>> /\ next_event_sequence' = next_event_sequence + 1
      BY <1>2 DEF Reject
  <2> HIDE DEF e
  <2>2. Len(<<e>>) = 1 /\ <<e>> # <<>>
      OBVIOUS
  <2> QED BY <2>1, <2>2
<1>3. ASSUME NEW d, NEW active, NEW emitted \in Seq(Event),
             SubmitNewOrder(d, active, emitted)
      PROVE  next_event_sequence' = next_event_sequence + Len(events') /\ events' # <<>>
  <2> DEFINE seq == next_event_sequence + Len(emitted)
  <2>1. next_event_sequence' = seq + 1 /\ \E e : events' = Append(emitted, e)
      BY <1>3, Zenon DEF SubmitNewOrder
  <2>2. PICK e : events' = Append(emitted, e)
      BY <2>1
  <2>3. Len(emitted) \in Nat /\ Len(events') = Len(emitted) + 1
      BY <2>2, LenProperties
  <2>4. events' # <<>>
      BY <2>3
  <2> QED BY <1>1, <2>1, <2>3, <2>4
<1>4. <<>> \in Seq(Event)
    OBVIOUS
<1>5. CASE apply_new_order(c)
    BY <1>3, <1>4, <1>5 DEF apply_new_order
<1>6. CASE apply_cancel_order(c)
  <2> DEFINE e == emit_cancel_event(c, next_event_sequence, active_orders[c.order_id])
  <2>1. CASE validate_cancel_order(c, active_orders) # "None"
      BY <1>2, <1>6, <2>1 DEF apply_cancel_order
  <2>2. CASE validate_cancel_order(c, active_orders) = "None"
    <3>1. events' = <<e>> /\ next_event_sequence' = next_event_sequence + 1
        BY <1>6, <2>2 DEF apply_cancel_order
    <3> HIDE DEF e
    <3>2. Len(<<e>>) = 1 /\ <<e>> # <<>>
        OBVIOUS
    <3> QED BY <3>1, <3>2
  <2> QED BY <2>1, <2>2
<1>7. CASE apply_replace_order(c)
  <2> DEFINE resting == active_orders[c.order_id]
             e == emit_cancel_event(c, next_event_sequence, resting)
             r == [c EXCEPT !.command_type = "NewOrder",
                            !.order_id = c.replacement_order_id]
  <2>1. CASE validate_replace_order(c, active_orders) # "None"
      BY <1>2, <1>7, <2>1 DEF apply_replace_order
  <2>2. CASE validate_replace_order(c, active_orders) = "None"
    <3>1. SubmitNewOrder(r, Erase(active_orders, c.order_id), <<e>>)
        BY <1>7, <2>2 DEF apply_replace_order
    <3>2. c.order_id \in DOMAIN active_orders
        BY <2>2 DEF validate_replace_order
    <3>3. resting \in RestingOrder
        BY <3>2 DEF IInv, TypeOK
    <3> HIDE DEF resting
    <3>4. e \in Event
        BY <1>1, <3>3, CancelEventType
    <3> HIDE DEF e, r
    <3>5. <<e>> \in Seq(Event)
        BY <3>4
    <3> QED BY <1>3, <3>1, <3>5
  <2> QED BY <2>1, <2>2
<1>8. CASE reject_unsupported_command(c)
    BY <1>2, <1>8 DEF reject_unsupported_command
<1> QED BY <1>5, <1>6, <1>7, <1>8 DEF Apply

\* Every further step emits one event more.
LEMMA LoopNumbers ==
    ASSUME IInv, pc = "matching", Continue
    PROVE  /\ next_event_sequence' = next_event_sequence + 1
           /\ events' # <<>> /\ Len(events) \in Nat /\ Len(events') = Len(events) + 1
<1>1. events \in Seq(Event) /\ \E e \in Event : events' = Append(events, e)
    BY LoopStepAppends DEF IInv, TypeOK
<1>2. PICK e \in Event : events' = Append(events, e)
    BY <1>1
<1>3. Len(events) \in Nat /\ Len(events') = Len(events) + 1
    BY <1>1, <1>2, LenProperties
<1>4. next_event_sequence' = next_event_sequence + 1
  <2>1. ASSUME NEW p \in DOMAIN levels[Opposite(command.side)], MatchFront(p)
        PROVE  next_event_sequence' = next_event_sequence + 1
      BY <2>1, Zenon DEF MatchFront
  <2>2. CASE FillIncoming
      BY <2>2 DEF FillIncoming, Return
  <2>3. CASE RestIncoming
      BY <2>3, Zenon DEF RestIncoming, Return
  <2> QED BY <2>1, <2>2, <2>3 DEF Continue
<1> QED BY <1>3, <1>4

\* The events of a call that has returned, whether it entered the loop or not.
LEMMA ReturnedNumbers ==
    ASSUME CallInv, pc = "idle", events # <<>>
    PROVE  \A i \in 1..Len(events) :
              events[i].event_sequence = next_event_sequence - Len(events) + i - 1
BY DEF CallInv, Accounted
-----------------------------------------------------------------------------
(* The configurations of an engine that is given the commands cs one after *)
(* the other: its view, the commands it has finished, whether a call is    *)
(* under way, and the events collected.                                    *)

Configuration(v, a, stage, p) ==
    [view |-> v, applied |-> a, stage |-> stage, produced |-> p]

FirstConfiguration == Configuration(NewEngine, 0, "ready", <<>>)

NextConfiguration(cs, x) ==
    LET c == cs[x.applied + 1]
    IN IF x.stage = "ready"
       THEN Configuration(Called(x.view, c.body), x.applied, "call", x.produced)
       ELSE IF x.view.pc = "matching"
       THEN Configuration(Continued(x.view), x.applied, "call", x.produced)
       ELSE Configuration(x.view, x.applied + 1, "ready",
                          x.produced \o Stored(c, x.view.events))

\* What y has produced begins with what x has, and is no more without a command.
Later(x, y) ==
    /\ x.applied \in Nat /\ y.applied \in Nat /\ x.applied <= y.applied
    /\ x.produced \in Seq(StoredEvent) /\ y.produced \in Seq(StoredEvent)
    /\ Len(x.produced) <= Len(y.produced)
    /\ \A i \in 1..Len(x.produced) : y.produced[i] = x.produced[i]
    /\ x.applied = y.applied => x.produced = y.produced

\* M is the sequence of the configurations up to the one numbered n.
Passed(M, n, cs) ==
    /\ n \in Nat
    /\ M[0] = FirstConfiguration
    /\ \A j \in 0..(n - 1) : M[j + 1] = NextConfiguration(cs, M[j])
    /\ \A j \in 0..n : Later(M[j], M[n])

LEMMA ConfigurationHas ==
    ASSUME NEW v, NEW a, NEW stage, NEW p
    PROVE  LET x == Configuration(v, a, stage, p)
           IN x.view = v /\ x.applied = a /\ x.stage = stage /\ x.produced = p
BY DEF Configuration

LEMMA LaterTransitive ==
    ASSUME NEW x, NEW y, NEW z, Later(x, y), Later(y, z)
    PROVE  Later(x, z)
<1>1. /\ Len(x.produced) \in Nat /\ Len(y.produced) \in Nat /\ Len(z.produced) \in Nat
      /\ Len(x.produced) <= Len(y.produced) /\ Len(y.produced) <= Len(z.produced)
    BY LenProperties DEF Later
<1>2. \A i \in 1..Len(x.produced) : z.produced[i] = x.produced[i]
  <2> TAKE i \in 1..Len(x.produced)
  <2>1. i \in 1..Len(y.produced)
      BY <1>1
  <2> QED BY <2>1 DEF Later
<1>3. x.applied = z.applied => x.produced = z.produced
  <2> HAVE x.applied = z.applied
  <2>1. x.applied = y.applied /\ y.applied = z.applied
      BY DEF Later
  <2> QED BY <2>1 DEF Later
<1> QED BY <1>1, <1>2, <1>3 DEF Later

\* Nothing is collected during a call, ...
LEMMA LaterInCall ==
    ASSUME NEW v, NEW w, NEW a \in Nat, NEW s, NEW t, NEW p \in Seq(StoredEvent)
    PROVE  Later(Configuration(v, a, s, p), Configuration(w, a, t, p))
<1> DEFINE x == Configuration(v, a, s, p)
           y == Configuration(w, a, t, p)
<1>1. x.applied = a /\ x.produced = p /\ y.applied = a /\ y.produced = p
    BY ConfigurationHas
<1> HIDE DEF x, y
<1>2. Len(p) \in Nat
    BY LenProperties
<1>3. Later(x, y)
    BY <1>1, <1>2 DEF Later
<1> QED BY <1>3 DEF x, y

\* ... and the events of a command come behind the earlier ones.
LEMMA LaterByCommand ==
    ASSUME NEW v, NEW w, NEW a \in Nat, NEW s, NEW t, NEW p \in Seq(StoredEvent),
           NEW q \in Seq(StoredEvent)
    PROVE  Later(Configuration(v, a, s, p), Configuration(w, a + 1, t, p \o q))
<1> DEFINE x == Configuration(v, a, s, p)
           r == p \o q
           y == Configuration(w, a + 1, t, r)
<1> HIDE DEF r
<1>1. x.applied = a /\ x.produced = p /\ y.applied = a + 1 /\ y.produced = r
    BY ConfigurationHas
<1> HIDE DEF x, y
<1> USE DEF r
<1>2. Len(p) \in Nat /\ Len(q) \in Nat
    BY LenProperties
<1>3. /\ p \o q \in Seq(StoredEvent) /\ Len(p \o q) = Len(p) + Len(q)
      /\ \A i \in 1..(Len(p) + Len(q)) :
            (p \o q)[i] = IF i <= Len(p) THEN p[i] ELSE q[i - Len(p)]
    BY ConcatProperties
<1>4. \A i \in 1..Len(p) : (p \o q)[i] = p[i]
    BY <1>2, <1>3
<1>5. Later(x, y)
    BY <1>1, <1>2, <1>3, <1>4 DEF Later
<1> QED BY <1>5 DEF x, y

\* A sequence of configurations goes on with the one that follows its last.
LEMMA PassedOn ==
    ASSUME NEW cs, NEW M, NEW n, Passed(M, n, cs), NEW y,
           y = NextConfiguration(cs, M[n]), Later(M[n], y), Later(y, y)
    PROVE  \E L : Passed(L, n + 1, cs) /\ L[n + 1] = y
<1> DEFINE L == [j \in 0..(n + 1) |-> IF j = n + 1 THEN y ELSE M[j]]
<1>1. n \in Nat /\ n + 1 \in Nat
    BY DEF Passed
<1>2. L[n + 1] = y /\ \A j \in 0..n : L[j] = M[j]
    BY <1>1
<1> HIDE DEF L
<1>3. L[0] = FirstConfiguration
    BY <1>1, <1>2 DEF Passed
<1>4. ASSUME NEW j \in 0..((n + 1) - 1)
      PROVE  L[j + 1] = NextConfiguration(cs, L[j])
  <2>1. j \in 0..n /\ L[j] = M[j]
      BY <1>1, <1>2
  <2>2. CASE j = n
      BY <1>2, <2>1, <2>2
  <2>3. CASE j # n
    <3>1. j \in 0..(n - 1) /\ j + 1 \in 0..n
        BY <1>1, <2>1, <2>3
    <3>2. M[j + 1] = NextConfiguration(cs, M[j])
        BY <3>1 DEF Passed
    <3> QED BY <1>2, <2>1, <3>1, <3>2
  <2> QED BY <2>2, <2>3
<1>5. ASSUME NEW j \in 0..(n + 1) PROVE Later(L[j], L[n + 1])
  <2>1. CASE j = n + 1
      BY <1>2, <2>1
  <2>2. CASE j # n + 1
    <3>1. j \in 0..n
        BY <1>1, <2>2
    <3>2. Later(M[j], M[n])
        BY <3>1 DEF Passed
    <3> QED BY <1>2, <3>1, <3>2, LaterTransitive
  <2> QED BY <2>1, <2>2
<1>6. Passed(L, n + 1, cs)
    BY <1>1, <1>3, <1>4, <1>5 DEF Passed
<1> QED BY <1>2, <1>6

\* A step of the engine is one to the configuration that follows.
LEMMA CallConfiguration ==
    ASSUME IInv, NEW cs, NEW a, NEW p, cs[a + 1].body \in Command, Apply(cs[a + 1].body)
    PROVE  Configuration(View', a, "call", p)
             = NextConfiguration(cs, Configuration(View, a, "ready", p))
<1> DEFINE x == Configuration(View, a, "ready", p)
<1>1. x.view = View /\ x.applied = a /\ x.stage = "ready" /\ x.produced = p
    BY ConfigurationHas
<1>2. View' = Called(View, cs[a + 1].body)
    BY CallIsFunction
<1> HIDE DEF x
<1>3. NextConfiguration(cs, x)
        = Configuration(Called(View, cs[a + 1].body), a, "call", p)
    BY <1>1 DEF NextConfiguration
<1> QED BY <1>2, <1>3 DEF x

LEMMA LoopConfiguration ==
    ASSUME IInv, NEW cs, NEW a, NEW p, pc = "matching", Continue
    PROVE  Configuration(View', a, "call", p)
             = NextConfiguration(cs, Configuration(View, a, "call", p))
<1> DEFINE x == Configuration(View, a, "call", p)
<1>1. x.view = View /\ x.applied = a /\ x.stage = "call" /\ x.produced = p
    BY ConfigurationHas
<1>2. View' = Continued(View) /\ View.pc = "matching"
    BY ContinueIsFunction, ViewHas
<1> HIDE DEF x
<1>3. NextConfiguration(cs, x) = Configuration(Continued(View), a, "call", p)
    BY <1>1, <1>2 DEF NextConfiguration
<1> QED BY <1>2, <1>3 DEF x

LEMMA ReturnConfiguration ==
    ASSUME NEW cs, NEW a, NEW p, pc = "idle"
    PROVE  Configuration(View, a + 1, "ready", p \o Stored(cs[a + 1], events))
             = NextConfiguration(cs, Configuration(View, a, "call", p))
<1> DEFINE x == Configuration(View, a, "call", p)
<1>1. x.view = View /\ x.applied = a /\ x.stage = "call" /\ x.produced = p
    BY ConfigurationHas
<1>2. View.pc = "idle" /\ View.events = events
    BY ViewHas
<1> HIDE DEF x
<1>3. NextConfiguration(cs, x)
        = Configuration(View, a + 1, "ready", p \o Stored(cs[a + 1], events))
    BY <1>1, <1>2 DEF NextConfiguration
<1> QED BY <1>3 DEF x

\* A fresh engine is in the first configuration.
LEMMA FreshConfiguration ==
    ASSUME FreshEngine
    PROVE  Configuration(View', 0, "ready", <<>>) = FirstConfiguration
<1>1. View' = NewEngine
    BY DEF FreshEngine, View, NewEngine
<1> QED BY <1>1 DEF FirstConfiguration
-----------------------------------------------------------------------------
(* What the two engines of a run have passed through.                      *)

\* The configuration of the engine of run_engine.
RunConfiguration ==
    Configuration(View, process.applied,
                  IF phase = "engine_call" THEN "call" ELSE "ready", process.produced)

\* All the configurations of an engine that has applied every command.
Recorded(M, n, cs, p) ==
    /\ Passed(M, n, cs)
    /\ M[n].applied = Len(cs) /\ M[n].stage = "ready" /\ M[n].produced = p

\* x is the configuration of the engine of ReplayRunner.  A replay stops before a
\* call or while it compares its events, with the command not yet counted.
ReplayIsAt(x) ==
    LET k == result.commands_replayed
        stage == IF phase = "applying" THEN "call" ELSE "ready"
    IN \E a \in {k, k + 1} :
          /\ phase # "stopped" => a = IF phase = "comparing" THEN k + 1 ELSE k
          /\ x = Configuration(View, a, stage, generated)

History ==
    Running =>
        LET cs == process.commands
            p == process.produced
        IN /\ phase \in {"run_engine", "engine_call"} =>
                 \E M, n : Passed(M, n, cs) /\ M[n] = RunConfiguration
           /\ phase = "write_events" => \E M, n : Recorded(M, n, cs, p)
           /\ phase \in ReplayPhase /\ command_log.records = cs =>
                 \E M, n : /\ Recorded(M, n, cs, p)
                           /\ \E m \in 0..n : ReplayIsAt(M[m])

LEMMA SameViewAfter == UNCHANGED vars => View' = View
BY DEF vars, View

LEMMA ReplayStays ==
    ASSUME NEW x, ReplayIsAt(x), UNCHANGED <<vars, generated>>,
           phase \notin {"applying", "stopped"}, phase' # "applying",
           phase' = "stopped" \/ (phase' = "comparing" <=> phase = "comparing"),
           result'.commands_replayed = result.commands_replayed
    PROVE  ReplayIsAt(x)'
<1>1. View' = View /\ generated' = generated
    BY SameViewAfter
<1>2. PICK a \in {result.commands_replayed, result.commands_replayed + 1} :
          /\ a = IF phase = "comparing" THEN result.commands_replayed + 1
                 ELSE result.commands_replayed
          /\ x = Configuration(View, a, "ready", generated)
    BY DEF ReplayIsAt
<1>3. x = Configuration(View', a, "ready", generated')
    BY <1>1, <1>2
<1> QED BY <1>2, <1>3 DEF ReplayIsAt

\* A record of the sequence that is not the last has one that follows it.
LEMMA NotLast ==
    ASSUME NEW M, NEW n, NEW cs, Passed(M, n, cs), NEW m \in 0..n, m # n
    PROVE  m + 1 \in 0..n /\ M[m + 1] = NextConfiguration(cs, M[m])
<1>1. n \in Nat
    BY DEF Passed
<1>2. m \in 0..(n - 1) /\ m + 1 \in 0..n
    BY <1>1
<1> QED BY <1>2 DEF Passed

\* The engine of a replay of the commands passes through the same configurations.
LEMMA ReplayFollows ==
    ASSUME RunnerInv, ReplayStep, NEW M, NEW n, NEW p,
           Recorded(M, n, command_log.records, p),
           NEW m \in 0..n, ReplayIsAt(M[m])
    PROVE  \E j \in 0..n : ReplayIsAt(M[j])'
<1> DEFINE k == result.commands_replayed
           cs == command_log.records
<1>1. Passed(M, n, cs) /\ M[n].applied = Len(cs) /\ M[n].stage = "ready"
    BY DEF Recorded
<1>2. result \in Result /\ command_log \in Log /\ Len(cs) \in Nat
    BY LenProperties DEF RunnerInv, RunnerTypes, Log
<1>3. k \in Nat
    BY <1>2 DEF Result
<1>4. ASSUME NEW class, NEW sequence, NEW event_index, NEW field,
             Fail(class, sequence, event_index, field)
      PROVE  /\ phase' = "stopped" /\ generated' = generated
             /\ result'.commands_replayed = k
    BY <1>2, <1>4 DEF Fail, Result
<1>5. CASE ReadCommand
  <2>1. CASE /\ phase = "read_command" /\ Apply(CurrentCommand.body)
             /\ k < Len(cs) /\ CurrentCommand.body \in Command
             /\ phase' = "applying" /\ UNCHANGED <<result, generated>>
    <3>1. M[m] = Configuration(View, k, "ready", generated)
        BY <2>1 DEF ReplayIsAt
    <3>2. M[m].applied = k
        BY <3>1, ConfigurationHas
    <3>3. m # n
        BY <1>1, <1>2, <1>3, <2>1, <3>2
    <3>4. m + 1 \in 0..n /\ M[m + 1] = NextConfiguration(cs, M[m])
        BY <1>1, <3>3, NotLast
    <3>5. CurrentCommand = cs[k + 1]
        BY DEF CurrentCommand
    <3>6. Configuration(View', k, "call", generated) = NextConfiguration(cs, M[m])
        BY <2>1, <3>1, <3>5, CallConfiguration DEF RunnerInv
    <3>7. M[m + 1] = Configuration(View', k, "call", generated')
        BY <2>1, <3>4, <3>6
    <3>8. ReplayIsAt(M[m + 1])'
        BY <2>1, <3>7 DEF ReplayIsAt
    <3> QED BY <3>4, <3>8
  <2>2. CASE /\ phase = "read_command" /\ phase' \in {"stopped", "read_extra"}
             /\ UNCHANGED <<vars, generated>> /\ result'.commands_replayed = k
    <3>1. ReplayIsAt(M[m])'
        BY <2>2, ReplayStays
    <3> QED BY <3>1
  <2> DEFINE status == read_storage_record(command_log, k, "OrderCommand")
  <2>3. CASE /\ phase' = "read_extra"
             /\ UNCHANGED <<vars, previous_command_sequence, index, result, generated>>
      BY <1>5, <2>2, <2>3 DEF ReadCommand
  <2>4. CASE \E class, sequence :
                Fail(class, sequence, 0, "None") /\ UNCHANGED vars
      BY <1>4, <1>5, <2>2, <2>4 DEF ReadCommand
  <2>5. CASE /\ status = "RecordRead" /\ Apply(CurrentCommand.body)
             /\ phase' = "applying"
             /\ UNCHANGED <<previous_command_sequence, index, result, generated>>
    <3>1. k + 1 \in 1..Len(cs) /\ k < Len(cs)
          /\ cs[k + 1].record_type = "OrderCommand"
        BY <1>2, <1>3, <2>5, ReadFacts DEF RecordType
    <3>2. CurrentCommand \in LoggedCommand
        BY <1>2, <3>1, RecordFacts DEF CurrentCommand
    <3>3. CurrentCommand.body \in Command
        BY <3>2 DEF LoggedCommand
    <3> QED BY <1>5, <2>1, <2>5, <3>1, <3>3 DEF ReadCommand
  <2> QED BY <1>5, <2>3, <2>4, <2>5 DEF ReadCommand
<1>6. CASE EngineStep
  <2>1. phase = "applying" /\ result' = result
      BY <1>6 DEF EngineStep
  <2>2. M[m] = Configuration(View, k, "call", generated)
      BY <2>1 DEF ReplayIsAt
  <2>3. M[m].stage = "call"
      BY <2>2, ConfigurationHas
  <2>4. m # n
      BY <1>1, <2>3
  <2>5. m + 1 \in 0..n /\ M[m + 1] = NextConfiguration(cs, M[m])
      BY <1>1, <2>4, NotLast
  <2>6. CASE pc = "matching" /\ Continue /\ UNCHANGED <<phase, generated>>
    <3>1. Configuration(View', k, "call", generated) = NextConfiguration(cs, M[m])
        BY <2>2, <2>6, LoopConfiguration DEF RunnerInv
    <3>2. M[m + 1] = Configuration(View', k, "call", generated')
        BY <2>5, <2>6, <3>1
    <3>3. ReplayIsAt(M[m + 1])'
        BY <2>1, <2>6, <3>2 DEF ReplayIsAt
    <3> QED BY <2>5, <3>3
  <2>7. CASE /\ pc = "idle"
             /\ generated' = generated \o Stored(CurrentCommand, events)
             /\ phase' = "comparing"
             /\ UNCHANGED vars
    <3>1. CurrentCommand = cs[k + 1] /\ View' = View
        BY <2>7, SameViewAfter DEF CurrentCommand
    <3>2. Configuration(View, k + 1, "ready", generated \o Stored(cs[k + 1], events))
            = NextConfiguration(cs, M[m])
        BY <2>2, <2>7, ReturnConfiguration
    <3>3. M[m + 1] = Configuration(View', k + 1, "ready", generated')
        BY <2>5, <2>7, <3>1, <3>2
    <3>4. ReplayIsAt(M[m + 1])'
        BY <2>1, <2>7, <3>3 DEF ReplayIsAt
    <3> QED BY <2>5, <3>4
  <2> QED BY <1>6, <2>6, <2>7 DEF EngineStep
<1>7. CASE CompareEvent
  <2>1. phase = "comparing" /\ UNCHANGED vars
      BY <1>7 DEF CompareEvent
  <2>2. CASE \E class, sequence, event_index, field :
                Fail(class, sequence, event_index, field)
    <3>1. ReplayIsAt(M[m])'
        BY <1>4, <2>1, <2>2, ReplayStays
    <3> QED BY <3>1
  <2>3. CASE /\ result' = [result EXCEPT !.events_compared = @ + 1]
             /\ UNCHANGED <<phase, generated>>
    <3>1. result'.commands_replayed = k
        BY <1>2, <2>3 DEF Result
    <3>2. ReplayIsAt(M[m])'
        BY <2>1, <2>3, <3>1, ReplayStays
    <3> QED BY <3>2
  <2> QED BY <1>7, <2>2, <2>3 DEF CompareEvent
<1>8. CASE FinishCommand
  <2>1. /\ phase = "comparing" /\ phase' = "read_command"
        /\ UNCHANGED vars /\ generated' = generated
        /\ result' = [result EXCEPT !.commands_replayed = @ + 1]
      BY <1>8, IInvValidates DEF FinishCommand, RunnerInv
  <2>2. result'.commands_replayed = k + 1
      BY <1>2, <2>1 DEF Result
  <2>3. M[m] = Configuration(View, k + 1, "ready", generated)
      BY <2>1 DEF ReplayIsAt
  <2>4. M[m] = Configuration(View', k + 1, "ready", generated')
      BY <2>1, <2>3, SameViewAfter
  <2>5. ReplayIsAt(M[m])'
      BY <2>1, <2>2, <2>4 DEF ReplayIsAt
  <2> QED BY <2>5
<1>9. CASE CheckExtraEvent
  <2>1. /\ phase = "read_extra" /\ phase' = "stopped" /\ UNCHANGED <<vars, generated>>
        /\ result'.commands_replayed = k
      BY <1>4, <1>9 DEF CheckExtraEvent
  <2>2. ReplayIsAt(M[m])'
      BY <2>1, ReplayStays
  <2> QED BY <2>2
<1> QED BY <1>5, <1>6, <1>7, <1>8, <1>9 DEF ReplayStep
-----------------------------------------------------------------------------
(* The steps of the program: processes start and end.                      *)

PipelineInv == ProgramInv /\ History

\* Between processes there is nothing to keep but the files and the book.
LEMMA NotRunning ==
    ASSUME phase \in {"idle", "exit_error"} \/ process.verb # "run",
           phase \in ReplayPhase => RunnerInv /\ DiagnosisInv /\ Verdict
    PROVE  ReplayInv /\ FilesWritten /\ EngineProgress /\ History
<1>1. "idle" \notin WritePhase \cup ReplayPhase
      /\ "exit_error" \notin WritePhase \cup ReplayPhase
    BY DEF WritePhase, ReplayPhase
<1>2. ~Running
    BY <1>1 DEF Running
<1> QED BY <1>2 DEF ReplayInv, FilesWritten, EngineProgress, History

\* Processes end at Exit; only ReturnFromMain has 0 to report.
LEMMA ExitKeeps ==
    ASSUME PipelineInv, NEW code, Exit(code), files' \in [Path -> Log],
           code = "0" => RunExitZero'
    PROVE  PipelineInv'
<1>1. phase' = "idle" /\ exit_code' = code /\ UNCHANGED vars
    BY DEF Exit
<1>2. IInv'
    BY <1>1, NextStep DEF PipelineInv, ProgramInv, ProgramTypes
<1>3. ProgramTypes'
    BY <1>1, <1>2 DEF ProgramTypes, WritePhase
<1>4. "idle" \notin ReplayPhase
    BY DEF ReplayPhase
<1>5. (ReplayInv /\ FilesWritten /\ EngineProgress /\ History)'
  <2>1. ("idle" = phase)'
      BY <1>1
  <2>2. (phase \in {"idle", "exit_error"} \/ process.verb # "run")'
      BY <2>1
  <2>3. (phase \in ReplayPhase => RunnerInv /\ DiagnosisInv /\ Verdict)'
      BY <1>1, <1>4
  <2> QED BY <2>2, <2>3, NotRunning, PTL
<1>6. RunExitZero'
    BY <1>1 DEF RunExitZero
<1> QED BY <1>3, <1>5, <1>6 DEF PipelineInv, ProgramInv

\* The local state of a new process.
LEMMA ProcessOf ==
    ASSUME NEW verb \in {"run", "replay"}, NEW lines \in Seq(Line),
           NEW commands \in Seq(LoggedCommand), NEW p \in Path, NEW q \in Path,
           process' = [verb |-> verb, lines |-> lines, commands |-> commands,
                       applied |-> 0, produced |-> <<>>, command_path |-> p,
                       event_path |-> q]
    PROVE  /\ process' \in Process
           /\ process'.verb = verb /\ process'.lines = lines
           /\ process'.commands = commands /\ process'.applied = 0
           /\ process'.produced = <<>>
           /\ process'.command_path = p /\ process'.event_path = q
<1>1. <<>> \in Seq(StoredEvent)
    OBVIOUS
<1> QED BY <1>1 DEF Process

LEMMA RunCommandKeeps ==
    ASSUME PipelineInv, NEW lines \in Scenarios, NEW p \in Path, NEW q \in Path,
           run_command(lines, p, q)
    PROVE  PipelineInv'
<1> DEFINE scenario == load_scenario(lines)
           commands == scenario.commands
<1>1. lines \in Seq(Line) /\ commands \in Seq(LoggedCommand)
    BY ScenariosAssumption, ScenarioFacts
<1>2. process' = [verb |-> "run", lines |-> lines, commands |-> commands,
                  applied |-> 0, produced |-> <<>>, command_path |-> p,
                  event_path |-> q]
  <2> HIDE DEF commands
  <2>1. process' = [NoProcess EXCEPT !.verb = "run", !.lines = lines,
                                     !.commands = commands, !.command_path = p,
                                     !.event_path = q]
      BY DEF run_command, NewProcess, commands
  <2> QED BY <2>1 DEF NoProcess
<1> HIDE DEF commands
<1>3. /\ process' \in Process /\ process'.verb = "run" /\ process'.lines = lines
      /\ process'.commands = commands /\ process'.applied = 0 /\ process'.produced = <<>>
    BY <1>1, <1>2, ProcessOf
<1>4. /\ phase' = IF scenario.ok THEN "write_commands" ELSE "exit_error"
      /\ exit_code' = "none" /\ UNCHANGED <<vars, files>>
    BY DEF run_command, NewProcess
<1>5. IInv'
    BY <1>4, NextStep DEF PipelineInv, ProgramInv, ProgramTypes
<1>6. ProgramTypes'
    BY <1>3, <1>4, <1>5 DEF PipelineInv, ProgramInv, ProgramTypes, WritePhase
<1>7. RunExitZero'
    BY <1>4 DEF RunExitZero
<1>8. phase' \notin ReplayPhase
    BY <1>4 DEF ReplayPhase
<1>9. CASE scenario.ok
  <2>1. phase' = "write_commands"
      BY <1>4, <1>9
  <2>2. ReplayInv' /\ FilesWritten'
      BY <1>3, <1>8, <1>9, <2>1 DEF ReplayInv, FilesWritten, commands
  <2>3. Produced(commands, 0, <<>>)
      BY <1>1, LenProperties DEF Produced
  <2>4. EngineProgress'
      BY <1>3, <1>8, <2>1, <2>3 DEF EngineProgress
  <2>5. History'
      BY <1>8, <2>1 DEF History
  <2> QED BY <1>6, <1>7, <2>2, <2>4, <2>5 DEF PipelineInv, ProgramInv
<1>10. CASE ~scenario.ok
  <2>1. (phase \in {"idle", "exit_error"} \/ process.verb # "run")'
      BY <1>4, <1>10
  <2>2. (phase \in ReplayPhase => RunnerInv /\ DiagnosisInv /\ Verdict)'
      BY <1>8
  <2>3. (ReplayInv /\ FilesWritten /\ EngineProgress /\ History)'
      BY <2>1, <2>2, NotRunning, PTL
  <2> QED BY <1>6, <1>7, <2>3 DEF PipelineInv, ProgramInv
<1> QED BY <1>9, <1>10

LEMMA ReplayCommandKeeps ==
    ASSUME PipelineInv, NEW p \in Path, NEW q \in Path, replay_command(p, q)
    PROVE  PipelineInv'
<1>1. <<>> \in Seq(Line) /\ <<>> \in Seq(LoggedCommand)
    OBVIOUS
<1>2. process' = [verb |-> "replay", lines |-> <<>>, commands |-> <<>>, applied |-> 0,
                  produced |-> <<>>, command_path |-> p, event_path |-> q]
    BY DEF replay_command, NewProcess, NoProcess
<1>3. process' \in Process /\ process'.verb = "replay"
    BY <1>1, <1>2, ProcessOf
<1>4. /\ exit_code' = "none" /\ files' = files /\ StartReplay(files[p], files[q])
      /\ files[p] \in Log /\ files[q] \in Log
    BY DEF replay_command, NewProcess, PipelineInv, ProgramInv, ProgramTypes
<1>5. RunnerInv' /\ DiagnosisInv' /\ Verdict' /\ phase' = "read_command"
  <2>1. FailureIsFirst' /\ GeneratedNumbered'
      BY <1>4, StartDiagnosed
  <2> QED BY <1>4, <2>1, StartKeeps, StartVerdict DEF DiagnosisInv
<1>6. (ReplayInv /\ FilesWritten /\ EngineProgress /\ History)'
  <2>1. (phase \in {"idle", "exit_error"} \/ process.verb # "run")'
      BY <1>3
  <2>2. (phase \in ReplayPhase => RunnerInv /\ DiagnosisInv /\ Verdict)'
      BY <1>5
  <2> QED BY <2>1, <2>2, NotRunning, PTL
<1>7. ProgramTypes'
    BY <1>3, <1>4, <1>5
    DEF PipelineInv, ProgramInv, ProgramTypes, WritePhase, ReplayPhase, RunnerInv
<1>8. RunExitZero'
    BY <1>4 DEF RunExitZero
<1> QED BY <1>6, <1>7, <1>8 DEF PipelineInv, ProgramInv
-----------------------------------------------------------------------------
(* The steps of run_engine, between the two writes.                        *)

\* What the invariant says of a run.
LEMMA RunFacts ==
    ASSUME PipelineInv,
           phase \in WritePhase \/ (phase \in ReplayPhase /\ process.verb = "run")
    PROVE  /\ Running /\ process \in Process /\ process.verb = "run"
           /\ process.commands \in Seq(LoggedCommand)
           /\ process.produced \in Seq(StoredEvent)
           /\ process.command_path \in Path /\ process.event_path \in Path
           /\ files \in [Path -> Log]
           /\ \A log \in CommandFile :
                 /\ log \in Log /\ log.records = process.commands
                 /\ log.header = "Valid" => log.tail = "Clean"
                 /\ process.commands # <<>> =>
                       log = Segment(FirstCommandSequence(process.commands),
                                     process.commands, "Clean")
           /\ \A log \in EventFile :
                 /\ log \in Log /\ log.records = process.produced
                 /\ log.header = "Valid" => log.tail = "Clean"
                 /\ process.produced # <<>> =>
                       log = Segment(FirstStoredSequence(process.produced),
                                     process.produced, "Clean")
<1>1. process \in Process /\ process.verb = "run" /\ files \in [Path -> Log]
    BY DEF PipelineInv, ProgramInv, ProgramTypes, WritePhase, ReplayPhase
<1>2. /\ process.commands \in Seq(LoggedCommand) /\ process.produced \in Seq(StoredEvent)
      /\ process.command_path \in Path /\ process.event_path \in Path
    BY <1>1 DEF Process
<1>3. /\ process.commands \in Seq(LoggedCommand \cup StoredEvent)
      /\ process.produced \in Seq(LoggedCommand \cup StoredEvent)
    BY <1>2
<1> QED BY <1>1, <1>2, <1>3, WrittenFacts DEF Running, CommandFile, EventFile

LEMMA WriteCommandsKeeps ==
    ASSUME PipelineInv, write_commands
    PROVE  PipelineInv'
<1> DEFINE cs == process.commands
<1>1. phase = "write_commands" /\ phase' = "run_engine" /\ process' = process
    BY DEF write_commands
<1>2. phase \in WritePhase /\ phase' \in WritePhase /\ phase' \notin ReplayPhase
    BY <1>1 DEF WritePhase, ReplayPhase
<1>3. /\ Running /\ Running' /\ process \in Process /\ process.verb = "run"
      /\ process.command_path \in Path
    BY <1>1, <1>2, RunFacts DEF Running
<1>4. FreshEngine /\ \E log \in CommandFile :
         files' = [files EXCEPT ![process.command_path] = log]
    BY DEF write_commands, CommandFile
<1>5. files' \in [Path -> Log] /\ files'[process.command_path] \in CommandFile
  <2>1. PICK log \in CommandFile : files' = [files EXCEPT ![process.command_path] = log]
      BY <1>4
  <2>2. log \in Log /\ files \in [Path -> Log]
      BY <1>2, RunFacts
  <2> QED BY <1>3, <2>1, <2>2, WriteKeepsFiles
<1>6. ProgramTypes'
    BY <1>1, <1>2, <1>3, <1>4, <1>5, FreshEngineOK DEF ProgramTypes, WritePhase
<1>7. CommandFile' = CommandFile
    BY <1>1 DEF CommandFile
<1>8. FilesWritten' /\ ReplayInv' /\ RunExitZero'
    BY <1>1, <1>2, <1>3, <1>5, <1>7
    DEF PipelineInv, ProgramInv, FilesWritten, ReplayInv, RunExitZero
<1>9. process.applied = 0 /\ process.produced = <<>> /\ Produced(cs, 0, <<>>)
    BY <1>1, <1>3 DEF PipelineInv, ProgramInv, EngineProgress
<1>10. EngineProgress'
  <2>1. /\ pc' = "idle" /\ events' = <<>> /\ next_event_sequence' = FirstEventSequence
        /\ Len(<<>>) = 0 /\ FirstEventSequence \in Nat
      BY <1>4, SequenceAssumption DEF FreshEngine
  <2>2. CallInv'
      BY <2>1 DEF CallInv
  <2> QED BY <1>1, <1>2, <1>9, <2>1, <2>2 DEF EngineProgress
<1>11. History'
  <2> DEFINE M == [j \in {0} |-> FirstConfiguration]
  <2>1. RunConfiguration' = FirstConfiguration
      BY <1>1, <1>4, <1>9, FreshConfiguration DEF RunConfiguration
  <2>2. <<>> \in Seq(StoredEvent)
      OBVIOUS
  <2>3. Later(FirstConfiguration, FirstConfiguration)
      BY <2>2, LaterInCall DEF FirstConfiguration
  <2>4. Passed(M, 0, cs) /\ M[0] = FirstConfiguration
      BY <2>3 DEF Passed
  <2> HIDE DEF M
  <2> QED BY <1>1, <1>2, <2>1, <2>4 DEF History
<1> QED BY <1>6, <1>8, <1>10, <1>11 DEF PipelineInv, ProgramInv

LEMMA WriteFailsKeeps ==
    ASSUME PipelineInv, write_commands_fails \/ write_events_fails
    PROVE  PipelineInv'
<1>1. phase \in WritePhase
    BY DEF write_commands_fails, write_events_fails, WritePhase
<1>2. /\ process.commands \in Seq(LoggedCommand) /\ process.produced \in Seq(StoredEvent)
      /\ process.command_path \in Path /\ process.event_path \in Path
      /\ files \in [Path -> Log]
    BY <1>1, RunFacts
<1>3. ASSUME NEW path \in Path, NEW first,
             NEW records \in Seq(LoggedCommand \cup StoredEvent),
             WriteFails(path, first, records)
      PROVE  PipelineInv'
  <2>1. PICK code \in {"1", "killed"}, log \in Remains(first, records) \cup {files[path]} :
            Exit(code) /\ files' = [files EXCEPT ![path] = log]
      BY <1>3, Zenon DEF WriteFails
  <2>2. log \in Log
      BY <1>2, <2>1, RemainsType
  <2>3. files' \in [Path -> Log]
      BY <1>2, <2>1, <2>2, WriteKeepsFiles
  <2> QED BY <2>1, <2>3, ExitKeeps
<1>4. /\ process.commands \in Seq(LoggedCommand \cup StoredEvent)
      /\ process.produced \in Seq(LoggedCommand \cup StoredEvent)
    BY <1>2
<1> QED BY <1>2, <1>3, <1>4 DEF write_commands_fails, write_events_fails

\* run_engine leaves the files and what they were written from alone.
LEMMA EngineKeepsFiles ==
    ASSUME PipelineInv, phase \in {"run_engine", "engine_call"},
           phase' \in {"run_engine", "engine_call", "write_events"}, files' = files,
           IInv', process' \in Process,
           process'.verb = process.verb, process'.lines = process.lines,
           process'.commands = process.commands,
           process'.command_path = process.command_path
    PROVE  ProgramTypes' /\ ReplayInv' /\ FilesWritten' /\ RunExitZero'
<1>1. /\ phase \in WritePhase /\ phase' \in WritePhase /\ phase' \notin ReplayPhase
      /\ phase' # "idle"
    BY DEF WritePhase, ReplayPhase
<1>2. Running /\ process.verb = "run" /\ files \in [Path -> Log]
    BY <1>1, RunFacts
<1>3. ProgramTypes'
    BY <1>1, <1>2 DEF ProgramTypes
<1>4. CommandFile' = CommandFile
    BY DEF CommandFile
<1>5. FilesWritten'
    BY <1>1, <1>2, <1>4 DEF PipelineInv, ProgramInv, FilesWritten
<1>6. ReplayInv' /\ RunExitZero'
    BY <1>1 DEF ReplayInv, RunExitZero
<1> QED BY <1>3, <1>5, <1>6

\* A step that stays in the call at hand, or enters it.
LEMMA CallStepKeeps ==
    ASSUME PipelineInv, phase \in {"run_engine", "engine_call"},
           phase' = "engine_call", UNCHANGED <<files, process>>,
           process.applied < Len(process.commands),
           IInv', CallInv', events' # <<>>,
           next_event_sequence' =
               FirstEventSequence + Len(process.produced) + Len(events'),
           Configuration(View', process.applied, "call", process.produced)
               = NextConfiguration(process.commands, RunConfiguration)
    PROVE  PipelineInv'
<1> DEFINE cs == process.commands
           y == Configuration(View', process.applied, "call", process.produced)
<1>1. /\ phase \in WritePhase /\ phase' \notin ReplayPhase
    BY DEF WritePhase, ReplayPhase
<1>2. /\ Running /\ process \in Process
      /\ process.applied \in Nat /\ process.produced \in Seq(StoredEvent)
    BY <1>1, RunFacts DEF Process
<1>3. ProgramTypes' /\ ReplayInv' /\ FilesWritten' /\ RunExitZero'
    BY <1>2, EngineKeepsFiles
<1>4. EngineProgress'
    BY <1>1, <1>2 DEF PipelineInv, ProgramInv, EngineProgress
<1>5. PICK M, n : Passed(M, n, cs) /\ M[n] = RunConfiguration
    BY <1>2 DEF PipelineInv, History
<1>6. Later(RunConfiguration, y) /\ Later(y, y)
    BY <1>2, LaterInCall DEF RunConfiguration
<1>7. \E L : Passed(L, n + 1, cs) /\ L[n + 1] = y
    BY <1>5, <1>6, PassedOn
<1>8. RunConfiguration' = y
    BY DEF RunConfiguration
<1>9. History'
    BY <1>1, <1>7, <1>8 DEF History
<1> QED BY <1>3, <1>4, <1>9 DEF PipelineInv, ProgramInv

\* The engine's call returns, and its events are collected.
LEMMA CollectedProcess ==
    ASSUME process \in Process, NEW a \in Nat, NEW s \in Seq(StoredEvent),
           process' = [process EXCEPT !.applied = a, !.produced = s]
    PROVE  /\ process' \in Process /\ process'.applied = a /\ process'.produced = s
           /\ process'.verb = process.verb /\ process'.lines = process.lines
           /\ process'.commands = process.commands
           /\ process'.command_path = process.command_path
BY DEF Process

\* The events of the call continue the numbering, and are those of its command.
LEMMA CollectedEvents ==
    ASSUME NEW cs \in Seq(LoggedCommand), NEW a \in Nat, NEW p \in Seq(StoredEvent),
           NEW es \in Seq(Event), a < Len(cs), es # <<>>, Produced(cs, a, p),
           \A i \in 1..Len(es) :
               es[i].event_sequence = FirstEventSequence + Len(p) + i - 1
    PROVE  LET s == Stored(cs[a + 1], es)
           IN /\ p \o s \in Seq(StoredEvent) /\ Len(p \o s) = Len(p) + Len(es)
              /\ s \in Seq(StoredEvent) /\ Produced(cs, a + 1, p \o s)
<1> DEFINE c == cs[a + 1]
           s == Stored(c, es)
           q == p \o s
<1>1. Len(cs) \in Nat /\ Len(p) \in Nat /\ Len(es) \in Nat /\ Len(es) # 0
    BY LenProperties, EmptySeq
<1>2. c \in LoggedCommand
    BY <1>1, ElementOfSeq
<1>3. /\ s \in Seq(StoredEvent) /\ Len(s) = Len(es)
      /\ \A i \in 1..Len(es) : s[i].body = es[i]
                               /\ s[i].command_sequence = c.command_sequence
  <2>1. s \in Seq(StoredEvent) /\ Len(s) = Len(es)
      BY <1>2, StoredFacts
  <2> QED BY <2>1 DEF Stored
<1> HIDE DEF s
<1>4. /\ q \in Seq(StoredEvent) /\ Len(q) = Len(p) + Len(es)
      /\ \A i \in 1..(Len(p) + Len(es)) :
            q[i] = IF i <= Len(p) THEN p[i] ELSE s[i - Len(p)]
  <2>0. s \in Seq(StoredEvent)
      BY <1>3
  <2>1. /\ q \in Seq(StoredEvent) /\ Len(q) = Len(p) + Len(s)
        /\ \A i \in 1..(Len(p) + Len(s)) :
              q[i] = IF i <= Len(p) THEN p[i] ELSE s[i - Len(p)]
      BY <2>0, ConcatProperties
  <2> QED BY <1>3, <2>1
<1> HIDE DEF q, c
<1>5. ASSUME NEW k \in 1..Len(q)
      PROVE  q[k].body.event_sequence = FirstEventSequence + k - 1
  <2>1. CASE k <= Len(p)
    <3>1. k \in 1..Len(p) /\ q[k] = p[k]
        BY <1>1, <1>4, <2>1
    <3> QED BY <3>1 DEF Produced
  <2>2. CASE ~(k <= Len(p))
    <3>1. k - Len(p) \in 1..Len(es) /\ q[k] = s[k - Len(p)]
        BY <1>1, <1>4, <2>2
    <3>2. q[k].body.event_sequence
            = FirstEventSequence + Len(p) + (k - Len(p)) - 1
        BY <1>3, <3>1
    <3> QED BY <1>1, <3>2, SequenceAssumption
  <2> QED BY <2>1, <2>2
<1>6. ASSUME NEW j \in 1..(a + 1)
      PROVE  \E k \in 1..Len(q) : q[k].command_sequence = cs[j].command_sequence
  <2>1. CASE j <= a
    <3>1. j \in 1..a
        BY <2>1
    <3>2. PICK k \in 1..Len(p) : p[k].command_sequence = cs[j].command_sequence
        BY <3>1 DEF Produced
    <3>3. k \in 1..Len(q) /\ q[k] = p[k]
        BY <1>1, <1>4
    <3> QED BY <3>2, <3>3
  <2>2. CASE ~(j <= a)
    <3>1. j = a + 1 /\ cs[j] = c
        BY <2>2 DEF c
    <3>2. Len(p) + 1 \in 1..Len(q) /\ q[Len(p) + 1] = s[1] /\ 1 \in 1..Len(es)
      <4>1. /\ Len(p) + 1 \in 1..(Len(p) + Len(es)) /\ 1 \in 1..Len(es)
            /\ ~(Len(p) + 1 <= Len(p)) /\ (Len(p) + 1) - Len(p) = 1
          BY <1>1
      <4>2. q[Len(p) + 1] = s[(Len(p) + 1) - Len(p)]
          BY <1>4, <4>1
      <4> QED BY <1>4, <4>1, <4>2
    <3>3. q[Len(p) + 1].command_sequence = cs[j].command_sequence
        BY <1>3, <3>1, <3>2
    <3> QED BY <3>2, <3>3
  <2> QED BY <2>1, <2>2
<1>7. Produced(cs, a + 1, q)
    BY <1>1, <1>5, <1>6 DEF Produced
<1> QED BY <1>3, <1>4, <1>7 DEF q, s, c

LEMMA RunEngineKeeps ==
    ASSUME PipelineInv, run_engine
    PROVE  PipelineInv'
<1> DEFINE cs == process.commands
           a == process.applied
           p == process.produced
           first == FirstEventSequence
<1>1. /\ phase \in {"run_engine", "engine_call"} /\ phase \in WritePhase
      /\ files' = files
    BY DEF run_engine, WritePhase
<1>2. /\ Running /\ process \in Process /\ IInv /\ CallInv
      /\ cs \in Seq(LoggedCommand) /\ a \in Nat /\ p \in Seq(StoredEvent)
      /\ Len(cs) \in Nat /\ Len(p) \in Nat /\ first \in Nat /\ Produced(cs, a, p)
    BY <1>1, RunFacts, LenProperties, SequenceAssumption
    DEF Process, PipelineInv, ProgramInv, ProgramTypes, EngineProgress
<1>3. next_event_sequence \in Nat /\ events \in Seq(Event) /\ Len(events) \in Nat
    BY <1>2, LenProperties DEF IInv, TypeOK
<1>4. /\ phase = "run_engine" => next_event_sequence = first + Len(p)
      /\ phase = "engine_call" =>
            /\ a < Len(cs) /\ events # <<>>
            /\ next_event_sequence = first + Len(p) + Len(events)
    BY <1>2 DEF PipelineInv, ProgramInv, EngineProgress
<1>5. CASE /\ phase = "run_engine" /\ a < Len(cs) /\ Apply(cs[a + 1].body)
           /\ phase' = "engine_call" /\ process' = process
  <2>1. cs[a + 1] \in LoggedCommand
      BY <1>2, <1>5, ElementOfSeq
  <2>2. cs[a + 1].body \in Command
      BY <2>1 DEF LoggedCommand
  <2>3. IInv' /\ CallInv'
      BY <1>2, <1>5, <2>2, ApplyKeepsIInv, ApplyAccounts
  <2>4. /\ events' # <<>>
        /\ next_event_sequence' = next_event_sequence + Len(events')
      BY <1>2, <1>5, <2>2, CallNumbers
  <2>5. next_event_sequence' = first + Len(p) + Len(events')
      BY <1>4, <1>5, <2>4
  <2>6. RunConfiguration = Configuration(View, a, "ready", p)
      BY <1>5 DEF RunConfiguration
  <2>7. Configuration(View', a, "call", p) = NextConfiguration(cs, RunConfiguration)
      BY <1>2, <1>5, <2>2, <2>6, CallConfiguration
  <2> QED BY <1>1, <1>5, <2>3, <2>4, <2>5, <2>7, CallStepKeeps
<1>6. CASE /\ phase = "engine_call" /\ pc = "matching" /\ Continue
           /\ UNCHANGED <<phase, process>>
  <2>1. IInv' /\ CallInv'
    <3>1. Next
        BY <1>6 DEF Next
    <3> QED BY <1>2, <1>6, <3>1, NextStep, LoopAccounts
  <2>2. /\ events' # <<>> /\ Len(events') = Len(events) + 1
        /\ next_event_sequence' = next_event_sequence + 1
      BY <1>2, <1>6, LoopNumbers
  <2>3. next_event_sequence' = first + Len(p) + Len(events')
    <3>1. next_event_sequence = first + Len(p) + Len(events)
        BY <1>4, <1>6
    <3>2. first \in Nat /\ Len(p) \in Nat /\ Len(events) \in Nat
        BY <1>2, <1>3
    <3> HIDE DEF first, p
    <3> QED BY <2>2, <3>1, <3>2
  <2>4. RunConfiguration = Configuration(View, a, "call", p)
      BY <1>6 DEF RunConfiguration
  <2>5. Configuration(View', a, "call", p) = NextConfiguration(cs, RunConfiguration)
      BY <1>2, <1>6, <2>4, LoopConfiguration
  <2> QED BY <1>1, <1>4, <1>6, <2>1, <2>2, <2>3, <2>5, CallStepKeeps
<1>7. CASE /\ phase = "engine_call" /\ pc = "idle"
           /\ process' = [process EXCEPT !.applied = @ + 1,
                                         !.produced = @ \o Stored(cs[a + 1], events)]
           /\ phase' = "run_engine" /\ UNCHANGED vars
  <2> DEFINE s == Stored(cs[a + 1], events)
  <2>1. /\ p \o s \in Seq(StoredEvent) /\ s \in Seq(StoredEvent)
        /\ Len(p \o s) = Len(p) + Len(events) /\ Produced(cs, a + 1, p \o s)
    <3>1. \A i \in 1..Len(events) :
              events[i].event_sequence = first + Len(p) + i - 1
      <4>1. \A i \in 1..Len(events) :
                events[i].event_sequence = next_event_sequence - Len(events) + i - 1
          BY <1>2, <1>4, <1>7, ReturnedNumbers
      <4>2. next_event_sequence - Len(events) = first + Len(p)
          BY <1>2, <1>3, <1>4, <1>7
      <4> QED BY <4>1, <4>2
    <3> QED BY <1>2, <1>3, <1>4, <1>7, <3>1, CollectedEvents
  <2>2. /\ process' \in Process /\ process'.applied = a + 1 /\ process'.produced = p \o s
        /\ process'.verb = process.verb /\ process'.lines = process.lines
        /\ process'.commands = cs
        /\ process'.command_path = process.command_path
    <3> DEFINE q == p \o s
               b == a + 1
    <3>1. process' = [process EXCEPT !.applied = b, !.produced = q]
        BY <1>7
    <3>2. q \in Seq(StoredEvent) /\ b \in Nat
        BY <1>2, <2>1
    <3> HIDE DEF q, b
    <3>3. /\ process' \in Process /\ process'.applied = b /\ process'.produced = q
          /\ process'.verb = process.verb /\ process'.lines = process.lines
          /\ process'.commands = cs
          /\ process'.command_path = process.command_path
        BY <1>2, <3>1, <3>2, CollectedProcess, Zenon
    <3> QED BY <3>3 DEF q, b
  <2>3. IInv' /\ CallInv'
    <3>1. CallInv'
        BY <1>2, <1>7 DEF vars, CallInv
    <3> QED BY <1>2, <1>7, <3>1, NextStep
  <2> HIDE DEF s
  <2>4. ProgramTypes' /\ ReplayInv' /\ FilesWritten' /\ RunExitZero'
      BY <1>1, <1>7, <2>2, <2>3, EngineKeepsFiles
  <2>5. phase' \notin ReplayPhase
      BY <1>7 DEF ReplayPhase
  <2>6. EngineProgress'
    <3>1. pc' = "idle" /\ next_event_sequence' = first + Len(p \o s)
        BY <1>2, <1>3, <1>4, <1>7, <2>1 DEF vars
    <3> QED BY <1>7, <2>1, <2>2, <2>3, <2>5, <3>1 DEF EngineProgress
  <2>7. PICK M, n : Passed(M, n, cs) /\ M[n] = RunConfiguration
      BY <1>1, <1>2 DEF PipelineInv, History
  <2> DEFINE y == Configuration(View, a + 1, "ready", p \o s)
  <2>8. RunConfiguration = Configuration(View, a, "call", p)
      BY <1>7 DEF RunConfiguration
  <2>9. y = NextConfiguration(cs, RunConfiguration)
      BY <1>7, <2>8, ReturnConfiguration DEF s
  <2>10. Later(RunConfiguration, y) /\ Later(y, y)
    <3>1. Later(RunConfiguration, y)
        BY <1>2, <2>1, <2>8, LaterByCommand
    <3>2. a + 1 \in Nat
        BY <1>2
    <3> QED BY <2>1, <3>1, <3>2, LaterInCall
  <2>11. \E L : Passed(L, n + 1, cs) /\ L[n + 1] = y
      BY <2>7, <2>9, <2>10, PassedOn
  <2>12. RunConfiguration' = y
      BY <1>7, <2>2, SameViewAfter DEF RunConfiguration
  <2>13. History'
      BY <1>7, <2>2, <2>5, <2>11, <2>12 DEF History
  <2> QED BY <2>4, <2>6, <2>13 DEF PipelineInv, ProgramInv
<1>8. CASE /\ phase = "run_engine" /\ a = Len(cs) /\ phase' = "write_events"
           /\ UNCHANGED <<vars, process>>
  <2>1. IInv'
      BY <1>2, <1>8, NextStep
  <2>2. ProgramTypes' /\ ReplayInv' /\ FilesWritten' /\ RunExitZero'
      BY <1>1, <1>2, <1>8, <2>1, EngineKeepsFiles
  <2>3. phase' \notin ReplayPhase
      BY <1>8 DEF ReplayPhase
  <2>4. EngineProgress'
      BY <1>2, <1>8, <2>3 DEF EngineProgress
  <2>5. PICK M, n : Passed(M, n, cs) /\ M[n] = RunConfiguration
      BY <1>1, <1>2 DEF PipelineInv, History
  <2>6. RunConfiguration = Configuration(View, a, "ready", p)
      BY <1>8 DEF RunConfiguration
  <2>7. M[n].applied = a /\ M[n].stage = "ready" /\ M[n].produced = p
      BY <2>5, <2>6, ConfigurationHas
  <2>8. Recorded(M, n, cs, p)
      BY <1>8, <2>5, <2>7 DEF Recorded
  <2>9. History'
      BY <1>8, <2>3, <2>8 DEF History
  <2> QED BY <2>2, <2>4, <2>9 DEF PipelineInv, ProgramInv
<1> QED BY <1>5, <1>6, <1>7, <1>8 DEF run_engine
-----------------------------------------------------------------------------
(* Replay and the end of a process.                                        *)

LEMMA WriteEventsKeeps ==
    ASSUME PipelineInv, write_events
    PROVE  PipelineInv'
<1> DEFINE cs == process.commands
           cp == process.command_path
           ep == process.event_path
<1>1. /\ phase = "write_events" /\ phase \in WritePhase /\ process' = process
      /\ \E log \in EventFile : files' = [files EXCEPT ![ep] = log]
      /\ StartReplay(files'[cp], files'[ep])
    BY DEF write_events, WritePhase, EventFile
<1>2. /\ Running /\ process \in Process /\ process.verb = "run"
      /\ cp \in Path /\ ep \in Path /\ files \in [Path -> Log]
      /\ EventFile \subseteq Log
    BY <1>1, RunFacts
<1>3. PICK log \in EventFile : files' = [files EXCEPT ![ep] = log]
    BY <1>1
<1>4. /\ files' \in [Path -> Log] /\ files'[ep] \in EventFile
      /\ cp # ep => files'[cp] \in CommandFile
  <2>1. files[cp] \in CommandFile
      BY <1>1, <1>2 DEF PipelineInv, ProgramInv, FilesWritten
  <2> QED BY <1>2, <1>3, <2>1, WriteKeepsFiles
<1>5. command_log' = files'[cp] /\ event_log' = files'[ep] /\ FreshEngine
    BY <1>1 DEF StartReplay
<1>6. files'[cp] \in Log /\ files'[ep] \in Log
    BY <1>2, <1>4
<1>7. RunnerInv' /\ DiagnosisInv' /\ Verdict' /\ phase' = "read_command"
  <2>1. FailureIsFirst' /\ GeneratedNumbered'
      BY <1>1, StartDiagnosed
  <2> QED BY <1>1, <1>6, <2>1, StartKeeps, StartVerdict DEF DiagnosisInv
<1>8. phase' \in ReplayPhase /\ phase' \notin WritePhase
    BY <1>7 DEF ReplayPhase, WritePhase
<1>9. ProgramTypes'
    BY <1>1, <1>2, <1>4, <1>7, <1>8 DEF ProgramTypes, RunnerInv
<1>10. ReplayInv' /\ RunExitZero'
    BY <1>7 DEF ReplayInv, RunExitZero
<1>11. FilesWritten'
  <2>1. EventFile' = EventFile /\ CommandFile' = CommandFile
      BY <1>1 DEF EventFile, CommandFile
  <2>2. /\ event_log' \in EventFile'
        /\ IF cp = ep THEN command_log' = event_log' ELSE command_log' \in CommandFile'
      BY <1>4, <1>5, <2>1
  <2> QED BY <1>1, <1>2, <1>5, <1>7, <2>2 DEF PipelineInv, ProgramInv, FilesWritten
<1>12. EngineProgress'
    BY <1>1, <1>2, <1>7, <1>8 DEF PipelineInv, ProgramInv, EngineProgress
<1>13. History'
  <2>1. PICK M, n : Recorded(M, n, cs, process.produced)
      BY <1>1, <1>2 DEF PipelineInv, History
  <2>2. 0 \in 0..n /\ M[0] = FirstConfiguration
      BY <2>1 DEF Recorded, Passed
  <2>3. generated' = <<>> /\ result'.commands_replayed = 0
      BY <1>1 DEF StartReplay, NoResult
  <2>4. M[0] = Configuration(View', 0, "ready", generated')
      BY <1>5, <2>2, <2>3, FreshConfiguration
  <2>5. ReplayIsAt(M[0])'
      BY <1>7, <2>3, <2>4 DEF ReplayIsAt
  <2> QED BY <1>1, <1>7, <2>1, <2>2, <2>5 DEF History
<1> QED BY <1>9, <1>10, <1>11, <1>12, <1>13 DEF PipelineInv, ProgramInv

LEMMA ReplayWalsKeeps ==
    ASSUME PipelineInv, replay_wals
    PROVE  PipelineInv'
<1>1. ReplayStep /\ UNCHANGED <<files, process, exit_code>>
    BY DEF replay_wals, pipelinevars
<1>2. phase \in ReplayPhase
    BY <1>1 DEF ReplayStep, ReadCommand, EngineStep, CompareEvent, FinishCommand,
                CheckExtraEvent, ReplayPhase
<1>3. RunnerInv /\ DiagnosisInv /\ Verdict
    BY <1>2 DEF PipelineInv, ProgramInv, ReplayInv
<1>4. /\ phase' \in ReplayPhase /\ UNCHANGED <<command_log, event_log>>
      /\ RunnerInv' /\ DiagnosisInv' /\ Verdict'
    BY <1>1, <1>3, ReplayStepKeeps
<1>5. phase' \notin WritePhase /\ phase \notin WritePhase
      /\ phase' # "idle" /\ phase # "idle"
    BY <1>2, <1>4 DEF WritePhase, ReplayPhase
<1>6. ProgramTypes'
    BY <1>1, <1>4, <1>5 DEF PipelineInv, ProgramInv, ProgramTypes, RunnerInv
<1>7. ReplayInv' /\ RunExitZero'
    BY <1>4, <1>5 DEF ReplayInv, RunExitZero
<1>8. Running' <=> Running
    BY <1>1, <1>2, <1>4 DEF Running
<1>9. FilesWritten'
    BY <1>1, <1>2, <1>4, <1>5, <1>8
    DEF PipelineInv, ProgramInv, FilesWritten, CommandFile, EventFile, WritePhase
<1>10. EngineProgress'
    BY <1>1, <1>2, <1>4, <1>5, <1>8
    DEF PipelineInv, ProgramInv, EngineProgress, WritePhase
<1>11. History'
  <2> DEFINE cs == process.commands
             p == process.produced
  <2>1. ASSUME Running, command_log.records = cs
        PROVE  \E M, n : /\ Recorded(M, n, cs, p)
                         /\ \E m \in 0..n : ReplayIsAt(M[m])'
    <3>1. PICK M, n : Recorded(M, n, cs, p) /\ \E m \in 0..n : ReplayIsAt(M[m])
        BY <1>2, <2>1 DEF PipelineInv, History
    <3>2. PICK m \in 0..n : ReplayIsAt(M[m])
        BY <3>1
    <3>3. \E j \in 0..n : ReplayIsAt(M[j])'
        BY <1>1, <1>3, <2>1, <3>1, <3>2, ReplayFollows
    <3> QED BY <3>1, <3>3
  <2> QED BY <1>1, <1>4, <1>5, <1>8, <2>1 DEF History, WritePhase
<1> QED BY <1>6, <1>7, <1>9, <1>10, <1>11 DEF PipelineInv, ProgramInv
-----------------------------------------------------------------------------
(* What a run that has reached its replay knows of its two files.          *)

LEMMA RunReplayFacts ==
    ASSUME PipelineInv, phase \in ReplayPhase, process.verb = "run"
    PROVE  LET cs == process.commands
               p == process.produced
           IN /\ RunnerInv /\ DiagnosisInv /\ Verdict /\ Running
              /\ cs \in Seq(LoggedCommand) /\ p \in Seq(StoredEvent)
              /\ Len(cs) \in Nat /\ Len(p) \in Nat
              /\ process.applied = Len(cs) /\ Produced(cs, Len(cs), p)
              /\ event_log.records = p
              /\ event_log.header = "Valid" => event_log.tail = "Clean"
              /\ cs # <<>> => event_log.header = "Valid"
              /\ IF process.command_path = process.event_path
                 THEN command_log = event_log ELSE command_log \in CommandFile
              /\ files[process.command_path] = command_log
              /\ files[process.event_path] = event_log
<1> DEFINE cs == process.commands
           p == process.produced
<1>1. RunnerInv /\ DiagnosisInv /\ Verdict
    BY DEF PipelineInv, ProgramInv, ReplayInv
<1>2. /\ Running /\ cs \in Seq(LoggedCommand) /\ p \in Seq(StoredEvent)
      /\ Len(cs) \in Nat /\ Len(p) \in Nat
    BY RunFacts, LenProperties
<1>3. process.applied = Len(cs) /\ Produced(cs, Len(cs), p)
    BY <1>2 DEF PipelineInv, ProgramInv, EngineProgress
<1>4. /\ event_log \in EventFile
      /\ IF process.command_path = process.event_path
         THEN command_log = event_log ELSE command_log \in CommandFile
      /\ files[process.command_path] = command_log
      /\ files[process.event_path] = event_log
    BY <1>2 DEF PipelineInv, ProgramInv, FilesWritten
<1>5. FirstStoredSequence(p) # 0
  <2>1. CASE p = <<>>
      BY <2>1 DEF FirstStoredSequence
  <2>2. CASE p # <<>>
    <3>1. 1 \in 1..Len(p)
        BY <1>2, <2>2, EmptySeq
    <3>2. p[1].body.event_sequence = FirstEventSequence + 1 - 1
        BY <1>3, <3>1 DEF Produced
    <3>3. p[1].body.event_sequence = FirstEventSequence
        BY <3>2, SequenceAssumption
    <3> QED BY <2>2, <3>3, EngineAssumption, SequenceAssumption DEF FirstStoredSequence
  <2> QED BY <2>1, <2>2
<1>6. /\ event_log.records = p
      /\ event_log.header = "Valid" => event_log.tail = "Clean"
      /\ p # <<>> => event_log = Segment(FirstStoredSequence(p), p, "Clean")
    BY <1>4, RunFacts
<1>7. cs # <<>> => p # <<>>
  <2>1. ASSUME cs # <<>> PROVE \E k \in 1..Len(p) : TRUE
    <3>1. 1 \in 1..Len(cs)
        BY <1>2, <2>1, EmptySeq
    <3> QED BY <1>3, <3>1 DEF Produced
  <2> QED BY <2>1
<1>8. cs # <<>> => event_log.header = "Valid"
    BY <1>5, <1>6, <1>7 DEF Segment
<1> QED BY <1>1, <1>2, <1>3, <1>4, <1>6, <1>8

\* A segment that is not usable, or holds events, is no log of commands.
LEMMA RunUnreadable ==
    ASSUME PipelineInv, phase \in ReplayPhase, process.verb = "run",
           process.commands # <<>>,
           \/ process.command_path = process.event_path
           \/ process.commands[1].command_sequence = 0
    PROVE  Unreadable
<1> DEFINE cs == process.commands
           p == process.produced
<1>1. CASE process.command_path = process.event_path
  <2>1. /\ command_log.records = p /\ p \in Seq(StoredEvent) /\ Len(p) \in Nat
        /\ Len(cs) \in Nat /\ Len(cs) # 0 /\ Produced(cs, Len(cs), p)
      BY <1>1, RunReplayFacts, EmptySeq
  <2>2. 1 \in 1..Len(cs)
      BY <2>1
  <2>3. PICK k \in 1..Len(p) : p[k].command_sequence = cs[1].command_sequence
      BY <2>1, <2>2 DEF Produced
  <2>4. 0 < Len(p) /\ p[1] \in StoredEvent
      BY <2>1, <2>3, ElementOfSeq
  <2>5. p[0 + 1].record_type # "OrderCommand"
      BY <2>4 DEF StoredEvent
  <2> QED BY <2>1, <2>4, <2>5 DEF Unreadable, read_storage_record
<1>2. CASE /\ process.command_path # process.event_path
           /\ process.commands[1].command_sequence = 0
  <2>1. command_log = Segment(FirstCommandSequence(cs), cs, "Clean")
      BY <1>2, RunReplayFacts, RunFacts
  <2>2. command_log.header = "Unusable"
      BY <1>2, <2>1 DEF Segment, FirstCommandSequence
  <2> QED BY <2>2 DEF Unreadable, read_storage_record
<1> QED BY <1>1, <1>2

\* Otherwise the replay reads the commands of the run.
LEMMA RunReadable ==
    ASSUME PipelineInv, phase \in ReplayPhase, process.verb = "run",
           process.commands # <<>>, process.command_path # process.event_path,
           process.commands[1].command_sequence # 0
    PROVE  /\ command_log.header = "Valid" /\ command_log.tail = "Clean"
           /\ command_log.records = process.commands
<1> DEFINE cs == process.commands
<1>1. command_log = Segment(FirstCommandSequence(cs), cs, "Clean")
    BY RunReplayFacts, RunFacts
<1>2. FirstCommandSequence(cs) # 0
    BY DEF FirstCommandSequence
<1> QED BY <1>1, <1>2 DEF Segment

\* The files of a run without commands hold nothing, with a header or without one.
LEMMA EmptyRun ==
    ASSUME PipelineInv, phase \in ReplayPhase, process.verb = "run",
           process.commands = <<>>
    PROVE  /\ command_log.records = <<>> /\ event_log.records = <<>>
           /\ command_log.header = "Valid" => command_log.tail = "Clean"
           /\ event_log.header = "Valid" => event_log.tail = "Clean"
<1>1. process.produced = <<>>
  <2>1. Len(process.commands) = 0
      OBVIOUS
  <2> QED BY <2>1, RunReplayFacts DEF Produced
<1>2. /\ event_log.records = <<>>
      /\ event_log.header = "Valid" => event_log.tail = "Clean"
    BY <1>1, RunReplayFacts
<1>3. CASE process.command_path = process.event_path
    BY <1>2, <1>3, RunReplayFacts
<1>4. CASE process.command_path # process.event_path
  <2>1. command_log \in CommandFile
      BY <1>4, RunReplayFacts
  <2> QED BY <1>2, <2>1, RunFacts
<1> QED BY <1>3, <1>4

\* The events generated are a beginning of those stored, and in the end all of them.
LEMMA ReplayAgrees ==
    ASSUME PipelineInv, phase = "stopped", process.verb = "run",
           command_log.records = process.commands
    PROVE  LET p == process.produced
           IN /\ Len(generated) <= Len(p)
              /\ \A i \in 1..Len(generated) : p[i] = generated[i]
              /\ result.commands_replayed = Len(process.commands) => generated = p
<1> DEFINE cs == process.commands
           p == process.produced
           k == result.commands_replayed
<1>1. phase \in ReplayPhase
    BY DEF ReplayPhase
<1>2. Running /\ k \in Nat /\ Len(cs) \in Nat
    BY <1>1, RunReplayFacts DEF RunnerInv, RunnerTypes, Result
<1>3. PICK M, n : Recorded(M, n, cs, p) /\ \E m \in 0..n : ReplayIsAt(M[m])
    BY <1>1, <1>2 DEF PipelineInv, History
<1>4. PICK m \in 0..n : ReplayIsAt(M[m])
    BY <1>3
<1>5. Later(M[m], M[n]) /\ M[n].applied = Len(cs) /\ M[n].produced = p
    BY <1>3 DEF Recorded, Passed
<1>6. PICK a \in {k, k + 1} : M[m] = Configuration(View, a, "ready", generated)
    BY <1>4 DEF ReplayIsAt
<1>7. M[m].applied = a /\ M[m].produced = generated
    BY <1>6, ConfigurationHas
<1>8. /\ Len(generated) <= Len(p)
      /\ \A i \in 1..Len(generated) : p[i] = generated[i]
    BY <1>5, <1>7 DEF Later
<1>9. ASSUME k = Len(cs) PROVE generated = p
  <2>1. a <= Len(cs)
      BY <1>5, <1>7 DEF Later
  <2>2. a = Len(cs)
      BY <1>2, <1>6, <1>9, <2>1
  <2> QED BY <1>5, <1>7, <2>2 DEF Later
<1> QED BY <1>8, <1>9

\* A replay of a run can stop short only where its commands are not contiguous.
LEMMA RunVerdict ==
    ASSUME PipelineInv, phase = "stopped", process.verb = "run",
           command_log.header = "Valid", command_log.tail = "Clean",
           command_log.records = process.commands, event_log.header = "Valid"
    PROVE  LET cs == process.commands
           IN result.failure_class =
                 IF Contiguous([records |-> cs], Len(cs)) THEN "None"
                 ELSE "CommandSequenceBreak"
<1> DEFINE cs == process.commands
           p == process.produced
           k == result.commands_replayed
           n == result.events_compared
<1>1. phase \in ReplayPhase
    BY DEF ReplayPhase
<1>2. /\ RunnerInv /\ Verdict /\ FailureIsFirst /\ OkMeansEqual
      /\ cs \in Seq(LoggedCommand) /\ Len(cs) \in Nat /\ Len(p) \in Nat
      /\ event_log.header = "Valid" /\ event_log.tail = "Clean"
      /\ event_log.records = p /\ p \in Seq(StoredEvent)
    BY <1>1, RunReplayFacts DEF RunnerInv, DiagnosisInv
<1>3. /\ k \in Nat /\ n \in Nat /\ k <= Len(cs)
      /\ generated \in Seq(StoredEvent) /\ Len(generated) \in Nat
    BY <1>2, LenProperties DEF RunnerInv, RunnerTypes, Result, Agreement
<1>4. /\ Len(generated) <= Len(p)
      /\ \A i \in 1..Len(generated) : p[i] = generated[i]
      /\ k = Len(cs) => generated = p
    BY ReplayAgrees
<1>5. \A j : Contiguous(command_log, j) <=> Contiguous([records |-> cs], j)
    BY DEF Contiguous
<1>6. CASE result.ok
  <2>1. result.failure_class = "None"
      BY <1>2, <1>6 DEF Verdict
  <2>2. Contiguous(command_log, Len(cs))
      BY <1>2, <1>6 DEF OkMeansEqual
  <2> QED BY <1>5, <2>1, <2>2
<1>7. CASE ~result.ok
  <2> DEFINE command_read == read_storage_record(command_log, k, "OrderCommand")
             event_read == read_storage_record(event_log, n, "ExecutionEvent")
             class == result.failure_class
  <2>1. class \in FailureClass
      BY <1>2, <1>7 DEF RunnerInv, RunnerTypes, Result, Verdict
  <2>2. n <= Len(generated) /\ n <= Len(p)
      BY <1>2, <1>7 DEF FailureIsFirst
  <2>3. command_read # "Failed"
    <3>1. CASE k < Len(cs)
      <4>1. cs[k + 1] \in LoggedCommand
          BY <1>2, <1>3, <3>1, ElementOfSeq
      <4>2. cs[k + 1].record_type = "OrderCommand"
          BY <4>1 DEF LoggedCommand
      <4> QED BY <3>1, <4>2 DEF read_storage_record
    <3>2. CASE ~(k < Len(cs))
        BY <3>2 DEF read_storage_record
    <3> QED BY <3>1, <3>2
  <2>4. /\ n < Len(p) => event_read = "RecordRead"
        /\ ~(n < Len(p)) => event_read = "EndOfLog"
    <3>1. CASE n < Len(p)
      <4>1. p[n + 1] \in StoredEvent
          BY <1>2, <1>3, <3>1, ElementOfSeq
      <4>2. p[n + 1].record_type = "ExecutionEvent"
          BY <4>1 DEF StoredEvent
      <4> QED BY <1>2, <3>1, <4>2 DEF read_storage_record
    <3>2. CASE ~(n < Len(p))
        BY <1>2, <3>2 DEF read_storage_record
    <3> QED BY <3>1, <3>2
  <2>5. class # "CommandReadFailed"
      BY <1>2, <1>7, <2>3 DEF FailureIsFirst
  <2>6. class # "StoredEventReadFailed"
    <3>1. class = "StoredEventReadFailed" => event_read = "Failed"
        BY <1>2, <1>7 DEF FailureIsFirst
    <3> QED BY <2>4, <3>1
  <2>7. class # "StoredEventMissing"
    <3>1. class = "StoredEventMissing" => n < Len(generated) /\ event_read = "EndOfLog"
        BY <1>2, <1>7 DEF FailureIsFirst
    <3>2. n < Len(generated) => n < Len(p)
        BY <1>2, <1>3, <1>4
    <3> QED BY <2>4, <3>1, <3>2
  <2>8. class # "EventFieldMismatch"
    <3>1. class = "EventFieldMismatch" =>
             /\ n < Len(generated)
             /\ FieldOf(p[n + 1], result.field) # FieldOf(generated[n + 1], result.field)
        BY <1>2, <1>7 DEF FailureIsFirst
    <3>2. n < Len(generated) => p[n + 1] = generated[n + 1]
      <4>1. n < Len(generated) => n + 1 \in 1..Len(generated)
          BY <1>3
      <4> QED BY <1>4, <4>1
    <3> QED BY <3>1, <3>2
  <2>9. class # "ExtraStoredEvent"
    <3>1. class = "ExtraStoredEvent" =>
             /\ event_read = "RecordRead" /\ n = Len(generated) /\ k = Len(cs)
        BY <1>2, <1>7 DEF FailureIsFirst
    <3>2. k = Len(cs) /\ n = Len(generated) => ~(n < Len(p))
        BY <1>2, <1>3, <1>4
    <3> QED BY <2>4, <3>1, <3>2
  <2>10. class = "CommandSequenceBreak"
      BY <2>1, <2>5, <2>6, <2>7, <2>8, <2>9 DEF FailureClass
  <2>11. command_read = "RecordRead" /\ ~Contiguous(command_log, k + 1)
      BY <1>2, <1>7, <2>10 DEF FailureIsFirst
  <2>12. k < Len(cs)
      BY <2>11 DEF read_storage_record
  <2>13. ~Contiguous(command_log, Len(cs))
    <3>1. PICK i \in 1..((k + 1) - 1) :
              command_log.records[i + 1].command_sequence
                 # command_log.records[i].command_sequence + 1
        BY <2>11 DEF Contiguous
    <3>2. i \in 1..(Len(cs) - 1)
        BY <1>2, <1>3, <2>12, <3>1
    <3> QED BY <3>1, <3>2 DEF Contiguous
  <2> QED BY <1>5, <2>10, <2>13
<1> QED BY <1>6, <1>7

\* The events of a run without commands cannot be read.
LEMMA EventsUnreadable ==
    ASSUME PipelineInv, phase = "stopped", process.verb = "run",
           process.commands = <<>>, command_log.header = "Valid",
           event_log.header # "Valid"
    PROVE  result.failure_class = "StoredEventReadFailed"
<1> DEFINE k == result.commands_replayed
           class == result.failure_class
           command_read == read_storage_record(command_log, k, "OrderCommand")
           event_read == read_storage_record(event_log, result.events_compared,
                                             "ExecutionEvent")
<1>1. phase \in ReplayPhase
    BY DEF ReplayPhase
<1>2. /\ RunnerInv /\ Verdict /\ FailureIsFirst /\ OkMeansEqual
    BY <1>1, RunReplayFacts DEF RunnerInv, DiagnosisInv
<1>3. ~result.ok
    BY <1>2 DEF OkMeansEqual
<1>4. class \in FailureClass /\ k \in Nat
    BY <1>2, <1>3 DEF RunnerInv, RunnerTypes, Result, Verdict
<1>5. command_log.records = <<>> /\ command_log.tail = "Clean"
    BY <1>1, EmptyRun
<1>6. command_read = "EndOfLog"
  <2>1. Len(command_log.records) = 0
      BY <1>5
  <2> QED BY <1>4, <1>5, <2>1 DEF read_storage_record
<1>7. event_read = "Failed"
    BY DEF read_storage_record
<1>8. class \notin {"CommandReadFailed", "CommandSequenceBreak", "StoredEventMissing",
                   "EventFieldMismatch", "ExtraStoredEvent"}
    BY <1>2, <1>3, <1>6, <1>7 DEF FailureIsFirst
<1> QED BY <1>4, <1>8 DEF FailureClass

LEMMA RunsReplay == PipelineInv => CompletedRunReplays
<1> SUFFICES ASSUME PipelineInv, phase = "stopped", process.verb = "run"
             PROVE  CompletedRunReplays
    BY DEF CompletedRunReplays
<1> DEFINE cs == process.commands
<1>1. phase \in ReplayPhase
    BY DEF ReplayPhase
<1>2. CASE cs = <<>>
  <2>1. /\ files[process.command_path] = command_log
        /\ files[process.event_path] = event_log
      BY <1>1, RunReplayFacts
  <2>2. /\ command_log.records = cs
        /\ command_log.header = "Valid" => command_log.tail = "Clean"
      BY <1>1, <1>2, EmptyRun
  <2>3. CASE command_log.header # "Valid"
    <3>1. Unreadable /\ Verdict
        BY <1>1, <2>3, RunReplayFacts DEF Unreadable, read_storage_record
    <3>2. result.failure_class = "CommandReadFailed"
        BY <3>1 DEF Verdict
    <3> QED BY <1>2, <2>1, <2>3, <3>2 DEF CompletedRunReplays
  <2>4. CASE command_log.header = "Valid" /\ event_log.header # "Valid"
    <3>1. result.failure_class = "StoredEventReadFailed"
        BY <1>2, <2>4, EventsUnreadable
    <3> QED BY <1>2, <2>1, <2>4, <3>1 DEF CompletedRunReplays
  <2>5. CASE command_log.header = "Valid" /\ event_log.header = "Valid"
    <3>1. result.failure_class = IF Contiguous([records |-> cs], Len(cs)) THEN "None"
                                 ELSE "CommandSequenceBreak"
        BY <2>2, <2>5, RunVerdict
    <3>2. Len(cs) = 0
        BY <1>2
    <3>3. Contiguous([records |-> cs], Len(cs))
        BY <3>2 DEF Contiguous
    <3> QED BY <1>2, <2>1, <2>5, <3>1, <3>3 DEF CompletedRunReplays
  <2> QED BY <2>3, <2>4, <2>5
<1>3. CASE /\ cs # <<>>
           /\ \/ process.command_path = process.event_path
              \/ cs[1].command_sequence = 0
  <2>1. Unreadable /\ Verdict
      BY <1>1, <1>3, RunUnreadable, RunReplayFacts
  <2>2. result.failure_class = "CommandReadFailed"
      BY <2>1 DEF Verdict
  <2> QED BY <1>3, <2>2 DEF CompletedRunReplays
<1>4. CASE /\ cs # <<>> /\ process.command_path # process.event_path
           /\ cs[1].command_sequence # 0
  <2>1. result.failure_class = IF Contiguous([records |-> cs], Len(cs)) THEN "None"
                               ELSE "CommandSequenceBreak"
      BY <1>1, <1>4, RunReadable, RunReplayFacts, RunVerdict
  <2> QED BY <1>4, <2>1 DEF CompletedRunReplays
<1> QED BY <1>2, <1>3, <1>4

\* main returns 0 only when what the scenario says is in the files.
LEMMA ReturnFromMainKeeps ==
    ASSUME PipelineInv, ReturnFromMain
    PROVE  PipelineInv'
<1> DEFINE cs == process.commands
           p == process.produced
           lines == process.lines
           rows == {n \in DOMAIN lines : ~Skipped(lines[n])}
<1>1. files' = files /\ files \in [Path -> Log]
    BY DEF ReturnFromMain, PipelineInv, ProgramInv, ProgramTypes
<1>2. CASE phase = "exit_error" /\ Exit("1")
    BY <1>1, <1>2, ExitKeeps
<1>3. CASE phase = "stopped" /\ Exit(IF result.ok THEN "0" ELSE "2")
  <2>1. phase \in ReplayPhase /\ process' = process
      BY <1>3 DEF ReplayPhase, Exit
  <2>2. ASSUME result.ok, process.verb = "run", rows # {}
        PROVE  /\ Len(files[process.command_path].records) = Cardinality(rows)
               /\ \A n \in rows :
                     /\ files[process.command_path].records[Place(rows, n)].command_sequence
                           = lines[n].sequence
                     /\ \E k \in DOMAIN p : p[k].command_sequence = lines[n].sequence
               /\ files[process.event_path].records = p
               /\ \A k \in DOMAIN p : p[k].body.event_sequence
                                         = FirstEventSequence + k - 1
    <3>1. /\ Running /\ cs \in Seq(LoggedCommand) /\ p \in Seq(StoredEvent)
          /\ Len(cs) \in Nat /\ Produced(cs, Len(cs), p) /\ Verdict
          /\ files[process.command_path] = command_log
          /\ files[process.event_path] = event_log /\ event_log.records = p
        BY <2>1, <2>2, RunReplayFacts
    <3>2. /\ lines \in Seq(Line) /\ load_scenario(lines).ok
          /\ cs = load_scenario(lines).commands
      <4>1. process \in Process
          BY <1>3 DEF PipelineInv, ProgramInv, ProgramTypes
      <4> QED BY <3>1, <4>1 DEF PipelineInv, ProgramInv, FilesWritten, Process
    <3>3. /\ Cardinality(rows) \in Nat /\ Len(cs) = Cardinality(rows)
          /\ \A n \in rows : /\ Place(rows, n) \in 1..Cardinality(rows)
                             /\ cs[Place(rows, n)].command_sequence = lines[n].sequence
        BY <3>2, ScenarioFacts
    <3> HIDE DEF rows
    <3>4. cs # <<>>
      <4>1. Cardinality(rows) # 0
          BY <2>2, <3>3
      <4> QED BY <3>1, <3>3, <4>1, EmptySeq
    <3>5. result.failure_class = "None"
        BY <2>2, <3>1 DEF Verdict
    <3>6. ~Unreadable
        BY <1>3, <3>1, <3>5 DEF Verdict
    <3>7. command_log.records = cs
        BY <2>1, <2>2, <3>4, <3>6, RunUnreadable, RunReadable
    <3>8. DOMAIN p = 1..Len(p)
        BY <3>1, LenProperties
    <3>9. ASSUME NEW n \in rows
          PROVE  \E k \in DOMAIN p : p[k].command_sequence = lines[n].sequence
      <4>1. Place(rows, n) \in 1..Len(cs)
          BY <3>3
      <4>2. PICK k \in 1..Len(p) :
                p[k].command_sequence = cs[Place(rows, n)].command_sequence
          BY <3>1, <4>1 DEF Produced
      <4> QED BY <3>3, <3>8, <4>2
    <3>10. \A k \in DOMAIN p : p[k].body.event_sequence = FirstEventSequence + k - 1
        BY <3>1, <3>8 DEF Produced
    <3> QED BY <3>1, <3>3, <3>7, <3>9, <3>10
  <2>3. CASE result.ok
    <3>1. RunExitZero'
        BY <1>1, <2>1, <2>2, <2>3 DEF RunExitZero
    <3> QED BY <1>1, <1>3, <3>1, ExitKeeps
  <2>4. CASE ~result.ok
      BY <1>1, <1>3, <2>4, ExitKeeps
  <2> QED BY <2>3, <2>4
<1> QED BY <1>2, <1>3 DEF ReturnFromMain

LEMMA KilledKeeps ==
    ASSUME PipelineInv, Killed
    PROVE  PipelineInv'
<1>1. Exit("killed") /\ files' \in [Path -> Log]
    BY DEF Killed, PipelineInv, ProgramInv, ProgramTypes
<1> QED BY <1>1, ExitKeeps

LEMMA NothingHappens ==
    ASSUME PipelineInv, UNCHANGED allvars
    PROVE  PipelineInv'
<1>1. UNCHANGED <<files, process, exit_code, phase, command_log, event_log, result,
                  generated, pc, events, next_event_sequence, vars, replayvars>>
    BY DEF allvars, pipelinevars, replayvars, runnervars, vars
<1>2. IInv'
    BY <1>1, NextStep DEF PipelineInv, ProgramInv, ProgramTypes
<1>3. ProgramTypes' /\ RunExitZero'
    BY <1>1, <1>2 DEF PipelineInv, ProgramInv, ProgramTypes, RunExitZero
<1>4. ReplayInv'
  <2>1. Verdict' <=> Verdict
      BY <1>1 DEF Verdict, Unreadable
  <2> QED BY <1>1, <2>1, RunnerStep, DiagnosisStep DEF PipelineInv, ProgramInv, ReplayInv
<1>5. Running' <=> Running
    BY <1>1 DEF Running
<1>6. FilesWritten'
    BY <1>1, <1>5
    DEF PipelineInv, ProgramInv, FilesWritten, CommandFile, EventFile
<1>7. CallInv' <=> CallInv
    BY <1>1 DEF CallInv, vars
<1>8. EngineProgress'
    BY <1>1, <1>5, <1>7 DEF PipelineInv, ProgramInv, EngineProgress
<1>9. RunConfiguration' = RunConfiguration /\ \A x : ReplayIsAt(x)' <=> ReplayIsAt(x)
    BY <1>1, SameViewAfter DEF RunConfiguration, ReplayIsAt
<1>10. History'
    BY <1>1, <1>5, <1>9 DEF PipelineInv, History
<1> QED BY <1>3, <1>4, <1>6, <1>8, <1>10 DEF PipelineInv, ProgramInv

LEMMA PipelineStep == PipelineInv /\ [PipelineNext]_allvars => PipelineInv'
<1> SUFFICES ASSUME PipelineInv, [PipelineNext]_allvars PROVE PipelineInv'
    OBVIOUS
<1>1. CASE \E lines \in Scenarios, p, q \in Path : run_command(lines, p, q)
    BY <1>1, RunCommandKeeps
<1>2. CASE \E p, q \in Path : replay_command(p, q)
    BY <1>2, ReplayCommandKeeps
<1>3. CASE ProcessStep
    BY <1>3, WriteCommandsKeeps, WriteFailsKeeps, RunEngineKeeps, WriteEventsKeeps,
       ReplayWalsKeeps, ReturnFromMainKeeps DEF ProcessStep
<1>4. CASE Killed
    BY <1>4, KilledKeeps
<1>5. CASE UNCHANGED allvars
    BY <1>5, NothingHappens
<1> QED BY <1>1, <1>2, <1>3, <1>4, <1>5 DEF PipelineNext

LEMMA PipelineStarts == PipelineInit => PipelineInv
<1> SUFFICES ASSUME PipelineInit PROVE PipelineInv
    OBVIOUS
<1>1. phase = "idle" /\ exit_code = "none" /\ IInv
    BY InitStep DEF PipelineInit, ReplayIdle
<1>2. files \in [Path -> Log]
  <2>1. Logs \cup {NoFile} \subseteq Log
      BY LogsAssumption, NoFileType
  <2> QED BY <2>1 DEF PipelineInit
<1>3. "idle" \notin WritePhase \cup ReplayPhase
    BY DEF WritePhase, ReplayPhase
<1>4. ProgramTypes /\ RunExitZero
    BY <1>1, <1>2, <1>3 DEF ProgramTypes, RunExitZero
<1>5. ReplayInv /\ FilesWritten /\ EngineProgress /\ History
    BY <1>1, <1>3, NotRunning
<1> QED BY <1>4, <1>5 DEF PipelineInv, ProgramInv

LEMMA PipelineInvAlways == PipelineSpec => []PipelineInv
BY PipelineStarts, PipelineStep, PTL DEF PipelineSpec
-----------------------------------------------------------------------------
\* The theorems.

\* A process that reports success, of either verb, has read both files to a clean
\* end and found the stored events to be those that the commands generate: what a
\* killed or failed writer leaves behind never passes for more.
THEOREM ProgramSuccessMeansEqual == PipelineSpec => []OkMeansEqual
<1>1. PipelineInv => OkMeansEqual
  <2> SUFFICES ASSUME PipelineInv, phase = "stopped" PROVE OkMeansEqual
      BY DEF OkMeansEqual
  <2>1. phase \in ReplayPhase
      BY DEF ReplayPhase
  <2> QED BY <2>1 DEF PipelineInv, ProgramInv, ReplayInv, RunnerInv
<1> QED BY <1>1, PipelineInvAlways, PTL

\* The replay with which run ends finds what run_engine produced, whatever the
\* files held before: a second engine given the same commands generates the same
\* events, so that only the scenario and the paths decide the verdict.  A run without
\* commands does not notice that it could not write a file; its replay does.
THEOREM RunsReplayTheirFiles == PipelineSpec => []CompletedRunReplays
BY RunsReplay, PipelineInvAlways, PTL

\* run exits with 0 only when every line of the scenario is in the command file, at
\* its place, and the event file holds all the events of the engine that ran them,
\* numbered without a gap and with an answer to every command.
THEOREM ExitZeroMeansLogged == PipelineSpec => []RunExitZero
<1>1. PipelineInv => RunExitZero
    BY DEF PipelineInv, ProgramInv
<1> QED BY <1>1, PipelineInvAlways, PTL
=============================================================================
