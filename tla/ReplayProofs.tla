---------------------------- MODULE ReplayProofs ----------------------------
(***************************************************************************)
(* Proofs about ReplayRunner for any pair of logs, of any length.  The     *)
(* runner's invariant relates its counters to the two logs: the commands   *)
(* replayed count up by one, the events compared equal the stored ones,    *)
(* and outside the comparing loop nothing generated waits for comparison.  *)
(* The engine's part of the state keeps the invariant of OrderBookProofs,  *)
(* because a logged command is a command like any other.                   *)
(***************************************************************************)
EXTENDS Replay, OrderBookProofs, FiniteSetTheorems

-----------------------------------------------------------------------------
\* The inductive invariant.

Phase == {"idle", "read_command", "applying", "comparing", "read_extra", "stopped"}

FailureClass == {"CommandReadFailed", "CommandSequenceBreak", "StoredEventMissing",
                 "StoredEventReadFailed", "EventFieldMismatch", "ExtraStoredEvent"}

FieldName == {EventField[i] : i \in 1..12} \cup {"None"}

Result == [ok : BOOLEAN, commands_replayed : Nat, events_compared : Nat,
           failure_class : FailureClass \cup {"None"}, command_sequence : Nat,
           event_index : Nat, field : FieldName]

RunnerTypes ==
    /\ phase \in Phase
    /\ command_log \in Log /\ event_log \in Log
    /\ previous_command_sequence \in Nat \cup {NoSequence}
    /\ index \in Nat
    /\ result \in Result
    /\ generated \in Seq(StoredEvent)

\* What has been replayed and compared so far agrees.
Agreement ==
    LET k == result.commands_replayed
        n == result.events_compared
    IN /\ k <= Len(command_log.records)
       /\ Contiguous(command_log, k)
       /\ previous_command_sequence = IF k = 0 THEN NoSequence
                                      ELSE command_log.records[k].command_sequence
       /\ n <= Len(generated) /\ n <= Len(event_log.records)
       /\ \A i \in 1..n : event_log.records[i] = generated[i]

\* Where the runner is tells what it has read, and what remains to be compared.
CountersFitPhase ==
    LET k == result.commands_replayed
        n == result.events_compared
    IN /\ phase # "applying" => pc = "idle"
       /\ phase \in {"read_command", "applying", "comparing", "read_extra"} => result.ok
       /\ phase \in {"read_command", "applying", "read_extra"} =>
             index = 0 /\ n = Len(generated)
       /\ phase \in {"applying", "comparing"} =>
             /\ command_log.header = "Valid"
             /\ k < Len(command_log.records)
             /\ CurrentCommand \in LoggedCommand
             /\ ~SequenceBreaks(CurrentCommand)
       /\ phase = "comparing" =>
             /\ index <= Len(events)
             /\ n + Len(events) = Len(generated) + index
       /\ phase = "read_extra" =>
             /\ command_log.header = "Valid" /\ command_log.tail = "Clean"
             /\ k = Len(command_log.records)

RunnerInv ==
    /\ IInv
    /\ RunnerTypes
    /\ Agreement
    /\ CountersFitPhase
    /\ OkMeansEqual
-----------------------------------------------------------------------------
\* Logs and their records.

\* A record that was read is of the type that was asked for, and a clean end
\* means that every record was read.
LEMMA ReadFacts ==
    ASSUME NEW log \in Log, NEW n \in Nat, NEW type \in RecordType
    PROVE  LET status == read_storage_record(log, n, type)
           IN /\ status \in {"RecordRead", "EndOfLog", "Failed"}
              /\ status # "Failed" => log.header = "Valid"
              /\ status = "EndOfLog" => log.tail = "Clean" /\ n >= Len(log.records)
              /\ status = "RecordRead" =>
                    /\ n + 1 \in 1..Len(log.records)
                    /\ n < Len(log.records)
                    /\ log.records[n + 1].record_type = type
<1>1. /\ log.records \in Seq(LoggedCommand \cup StoredEvent)
      /\ log.header \in {"Valid", "Unusable"} /\ log.tail \in {"Clean", "Torn"}
    BY DEF Log
<1>2. Len(log.records) \in Nat
    BY <1>1, LenProperties
<1> QED BY <1>1, <1>2 DEF read_storage_record

\* A record of a log is a command or an event, as its type says.
LEMMA RecordFacts ==
    ASSUME NEW log \in Log, NEW i \in 1..Len(log.records)
    PROVE  /\ log.records[i] \in LoggedCommand \cup StoredEvent
           /\ log.records[i].record_type = "OrderCommand" => log.records[i] \in LoggedCommand
           /\ log.records[i].record_type = "ExecutionEvent" => log.records[i] \in StoredEvent
<1>1. log.records \in Seq(LoggedCommand \cup StoredEvent)
    BY DEF Log
<1>2. log.records[i] \in LoggedCommand \cup StoredEvent
    BY <1>1, ElementOfSeq
<1>3. /\ \A x \in LoggedCommand : x.record_type = "OrderCommand"
      /\ \A x \in StoredEvent : x.record_type = "ExecutionEvent"
    BY DEF LoggedCommand, StoredEvent
<1> QED BY <1>2, <1>3

\* Two stored events without a difference are the same event.
LEMMA NoDifferences ==
    ASSUME NEW x \in StoredEvent, NEW y \in StoredEvent, Differences(x, y) = {}
    PROVE  x = y
<1>1. \A i \in 1..12 : FieldOf(x, EventField[i]) = FieldOf(y, EventField[i])
  <2>1. DOMAIN EventField = 1..12
      BY DEF EventField
  <2> QED BY <2>1 DEF Differences
<1>2. /\ x.body.event_type = y.body.event_type
      /\ x.body.event_sequence = y.body.event_sequence
      /\ x.command_sequence = y.command_sequence
    BY <1>1 DEF FieldOf, EventField
<1>3. /\ x.body.instrument_id = y.body.instrument_id
      /\ x.body.order_id = y.body.order_id
      /\ x.body.contra_order_id = y.body.contra_order_id
      /\ x.body.side = y.body.side
      /\ x.body.price_ticks = y.body.price_ticks
    BY <1>1 DEF FieldOf, EventField
<1>4. /\ x.body.quantity_lots = y.body.quantity_lots
      /\ x.body.remaining = y.body.remaining
      /\ x.body.trade_id = y.body.trade_id
      /\ x.body.rejection_reason = y.body.rejection_reason
    BY <1>1 DEF FieldOf, EventField
<1>5. x.body \in Event /\ y.body \in Event
    BY DEF StoredEvent
<1>6. x.body = y.body
    BY <1>2, <1>3, <1>4, <1>5 DEF Event
<1> QED BY <1>2, <1>6 DEF StoredEvent

\* EventComparator::compare names a field exactly when there is a difference, and
\* the field is one that differs.
LEMMA CompareFacts ==
    ASSUME NEW x \in StoredEvent, NEW y \in StoredEvent
    PROVE  LET field == compare(x, y)
           IN  /\ field \in FieldName
               /\ field = "None" => x = y
               /\ field # "None" => FieldOf(x, field) # FieldOf(y, field)
<1> DEFINE d == Differences(x, y)
           first == CHOOSE i \in d : \A j \in d : i <= j
<1>1. d \subseteq 1..12
    BY DEF Differences, EventField
<1>2. CASE d = {}
  <2>1. compare(x, y) = "None"
      BY <1>2 DEF compare
  <2> QED BY <1>2, <2>1, NoDifferences DEF FieldName
<1>3. CASE d # {}
  <2>1. \E i \in d : \A j \in d : i <= j
    <3> SUFFICES ASSUME \A i \in d : \E j \in d : j < i PROVE FALSE
        BY <1>1
    <3>0. PICK i \in d : i \in 1..12
        BY <1>1, <1>3
    <3> HIDE DEF d
    <3>1. 1 \notin d /\ 2 \notin d /\ 3 \notin d
        BY <1>1
    <3>2. 4 \notin d /\ 5 \notin d /\ 6 \notin d
        BY <1>1, <3>1
    <3>3. 7 \notin d /\ 8 \notin d /\ 9 \notin d
        BY <1>1, <3>1, <3>2
    <3>4. 10 \notin d /\ 11 \notin d /\ 12 \notin d
        BY <1>1, <3>1, <3>2, <3>3
    <3>5. i = 1 \/ i = 2 \/ i = 3 \/ i = 4 \/ i = 5 \/ i = 6 \/ i = 7 \/ i = 8
            \/ i = 9 \/ i = 10 \/ i = 11 \/ i = 12
        BY <3>0
    <3> QED BY <3>0, <3>1, <3>2, <3>3, <3>4, <3>5
  <2> HIDE DEF d
  <2>2. first \in 1..12
      BY <1>1, <2>1
  <2>5. first \in d
      BY <2>1
  <2>6. FieldOf(x, EventField[first]) # FieldOf(y, EventField[first])
    <3> HIDE DEF first
    <3> QED BY <2>5 DEF d, Differences
  <2> HIDE DEF first
  <2>3. compare(x, y) = EventField[first]
      BY <1>3 DEF compare, first, d
  <2>4. \A i \in 1..12 : EventField[i] # "None"
      BY DEF EventField
  <2> QED BY <2>2, <2>3, <2>4, <2>6 DEF FieldName
<1> QED BY <1>2, <1>3

\* The events of a command as the log would store them.
LEMMA StoredFacts ==
    ASSUME NEW c \in LoggedCommand, NEW es \in Seq(Event)
    PROVE  /\ Stored(c, es) \in Seq(StoredEvent)
           /\ Len(Stored(c, es)) = Len(es)
<1>1. Len(es) \in Nat /\ \A i \in 1..Len(es) : es[i] \in Event
    BY LenProperties, ElementOfSeq
<1>2. c.command_sequence \in Nat
    BY DEF LoggedCommand
<1>3. Stored(c, es) \in [1..Len(es) -> StoredEvent]
    BY <1>1, <1>2 DEF Stored, StoredEvent
<1>4. Stored(c, es) \in Seq(StoredEvent)
    BY <1>1, <1>3
<1>5. Len(Stored(c, es)) = Len(es)
    BY <1>1, <1>3
<1> QED BY <1>4, <1>5
-----------------------------------------------------------------------------
\* The steps.

LEMMA IdleInv == ReplayIdle => RunnerInv
<1> SUFFICES ASSUME ReplayIdle PROVE RunnerInv
    OBVIOUS
<1>1. IInv
    BY InitStep DEF ReplayIdle
<1>2. /\ command_log \in Log /\ event_log \in Log
      /\ command_log.records = <<>> /\ event_log.records = <<>>
    BY DEF ReplayIdle, Log
<1>3. /\ phase = "idle" /\ index = 0 /\ result = NoResult /\ generated = <<>>
      /\ previous_command_sequence = NoSequence /\ pc = "idle"
    BY DEF ReplayIdle, Init
<1>4. /\ result \in Result
      /\ result.ok /\ result.commands_replayed = 0 /\ result.events_compared = 0
    BY <1>3 DEF NoResult, Result, FieldName
<1>5. Len(<<>>) = 0 /\ generated \in Seq(StoredEvent)
    BY <1>3
<1>6. RunnerTypes
    BY <1>2, <1>3, <1>4, <1>5 DEF RunnerTypes, Phase
<1>7. Agreement
    BY <1>2, <1>3, <1>4, <1>5 DEF Agreement, Contiguous
<1>8. CountersFitPhase /\ OkMeansEqual
    BY <1>3, <1>4, <1>5 DEF CountersFitPhase, OkMeansEqual
<1> QED BY <1>1, <1>6, <1>7, <1>8 DEF RunnerInv

\* A fresh engine is one in its initial state.
LEMMA FreshEngineOK == FreshEngine => IInv'
<1>1. FreshEngine => Init'
    BY DEF FreshEngine, Init
<1> QED BY <1>1, InitStep, PTL

LEMMA StartKeeps ==
    ASSUME NEW commands \in Log, NEW stored \in Log, StartReplay(commands, stored)
    PROVE  RunnerInv'
<1>1. IInv'
    BY FreshEngineOK DEF StartReplay
<1>2. command_log' \in Log /\ event_log' \in Log
    BY DEF StartReplay
<1>3. /\ phase' = "read_command" /\ index' = 0 /\ result' = NoResult /\ generated' = <<>>
      /\ previous_command_sequence' = NoSequence /\ pc' = "idle"
    BY DEF StartReplay, FreshEngine
<1>4. /\ result' \in Result
      /\ result'.ok /\ result'.commands_replayed = 0 /\ result'.events_compared = 0
    BY <1>3 DEF NoResult, Result, FieldName
<1>5. Len(<<>>) = 0 /\ generated' \in Seq(StoredEvent)
    BY <1>3
<1>6. Len(command_log'.records) \in Nat /\ Len(event_log'.records) \in Nat
    BY <1>2, LenProperties DEF Log
<1>7. RunnerTypes'
    BY <1>2, <1>3, <1>4, <1>5 DEF RunnerTypes, Phase
<1>8. Agreement'
    BY <1>3, <1>4, <1>5, <1>6 DEF Agreement, Contiguous
<1>9. CountersFitPhase' /\ OkMeansEqual'
    BY <1>3, <1>4, <1>5 DEF CountersFitPhase, OkMeansEqual
<1> QED BY <1>1, <1>7, <1>8, <1>9 DEF RunnerInv

\* A failure ends the replay and leaves the counters as they are.
LEMMA FailKeeps ==
    ASSUME RunnerInv, phase # "applying", UNCHANGED <<vars, command_log, event_log>>,
           NEW class \in FailureClass, NEW sequence \in Nat, NEW event_index \in Nat,
           NEW field \in FieldName, Fail(class, sequence, event_index, field)
    PROVE  RunnerInv'
<1>1. IInv'
    BY NextStep DEF RunnerInv
<1>2. /\ result' \in Result /\ ~result'.ok
      /\ result'.commands_replayed = result.commands_replayed
      /\ result'.events_compared = result.events_compared
    BY DEF Fail, RunnerInv, RunnerTypes, Result
<1>3. /\ phase' = "stopped" /\ pc' = pc /\ pc = "idle"
      /\ UNCHANGED <<command_log, event_log, previous_command_sequence, index, generated>>
    BY DEF Fail, vars, RunnerInv, CountersFitPhase
<1>4. RunnerTypes'
    BY <1>2, <1>3 DEF RunnerInv, RunnerTypes, Phase
<1>5. Agreement'
    BY <1>2, <1>3 DEF RunnerInv, Agreement, Contiguous
<1>6. CountersFitPhase' /\ OkMeansEqual'
    BY <1>2, <1>3 DEF CountersFitPhase, OkMeansEqual
<1> QED BY <1>1, <1>4, <1>5, <1>6 DEF RunnerInv

LEMMA ReadCommandKeeps ==
    ASSUME RunnerInv, ReadCommand
    PROVE  RunnerInv'
<1> DEFINE k == result.commands_replayed
           status == read_storage_record(command_log, k, "OrderCommand")
<1>1. /\ phase = "read_command" /\ pc = "idle" /\ result.ok
      /\ index = 0 /\ result.events_compared = Len(generated)
      /\ UNCHANGED <<command_log, event_log>>
    BY DEF ReadCommand, RunnerInv, CountersFitPhase
<1>2. /\ command_log \in Log /\ k \in Nat /\ k <= Len(command_log.records)
      /\ Len(command_log.records) \in Nat
    BY LenProperties DEF RunnerInv, RunnerTypes, Agreement, Result, Log
<1>3. /\ status \in {"RecordRead", "EndOfLog", "Failed"}
      /\ status # "Failed" => command_log.header = "Valid"
      /\ status = "EndOfLog" => command_log.tail = "Clean" /\ k >= Len(command_log.records)
      /\ status = "RecordRead" =>
            /\ k + 1 \in 1..Len(command_log.records)
            /\ k < Len(command_log.records)
            /\ CurrentCommand.record_type = "OrderCommand"
    BY <1>2, ReadFacts DEF RecordType, CurrentCommand
<1>4. "None" \in FieldName /\ 0 \in Nat
    BY DEF FieldName
<1>5. CASE status = "Failed"
  <2>1. Fail("CommandReadFailed", 0, 0, "None") /\ UNCHANGED vars
      BY <1>5 DEF ReadCommand
  <2> QED BY <1>1, <1>4, <2>1, FailKeeps DEF FailureClass
<1>6. CASE status = "EndOfLog"
  <2>1. /\ phase' = "read_extra"
        /\ UNCHANGED <<vars, previous_command_sequence, index, result, generated>>
      BY <1>6 DEF ReadCommand
  <2>2. IInv'
      BY <2>1, NextStep DEF RunnerInv
  <2>3. pc' = pc /\ events' = events
      BY <2>1 DEF vars
  <2>4. RunnerTypes' /\ Agreement'
      BY <1>1, <2>1 DEF RunnerInv, RunnerTypes, Agreement, Contiguous, Phase
  <2>5. k = Len(command_log.records)
      BY <1>2, <1>3, <1>6
  <2>6. CountersFitPhase' /\ OkMeansEqual'
      BY <1>1, <1>3, <1>6, <2>1, <2>3, <2>5 DEF CountersFitPhase, OkMeansEqual
  <2> QED BY <2>2, <2>4, <2>6 DEF RunnerInv
<1>7. CASE status = "RecordRead"
  <2>1. CurrentCommand \in LoggedCommand
      BY <1>2, <1>3, <1>7, RecordFacts DEF CurrentCommand
  <2>2. CurrentCommand.command_sequence \in Nat /\ CurrentCommand.body \in Command
      BY <2>1 DEF LoggedCommand
  <2>3. CASE SequenceBreaks(CurrentCommand)
    <3>1. /\ Fail("CommandSequenceBreak", CurrentCommand.command_sequence, 0, "None")
          /\ UNCHANGED vars
        BY <1>7, <2>3 DEF ReadCommand
    <3> QED BY <1>1, <1>4, <2>2, <3>1, FailKeeps DEF FailureClass
  <2>4. CASE ~SequenceBreaks(CurrentCommand)
    <3>1. /\ Apply(CurrentCommand.body) /\ phase' = "applying"
          /\ UNCHANGED <<previous_command_sequence, index, result, generated>>
        BY <1>7, <2>4 DEF ReadCommand
    <3>2. IInv'
        BY <2>2, <3>1, ApplyKeepsIInv DEF RunnerInv
    <3>3. RunnerTypes' /\ Agreement'
        BY <1>1, <3>1 DEF RunnerInv, RunnerTypes, Agreement, Contiguous, Phase
    <3>4. CurrentCommand' = CurrentCommand
        BY <1>1, <3>1 DEF CurrentCommand
    <3>5. ~SequenceBreaks(CurrentCommand)'
        BY <2>4, <3>1, <3>4 DEF SequenceBreaks
    <3>6. CountersFitPhase' /\ OkMeansEqual'
        BY <1>1, <1>3, <1>7, <2>1, <3>1, <3>4, <3>5 DEF CountersFitPhase, OkMeansEqual
    <3> QED BY <3>2, <3>3, <3>6 DEF RunnerInv
  <2> QED BY <2>3, <2>4
<1> QED BY <1>3, <1>5, <1>6, <1>7

LEMMA EngineStepKeeps ==
    ASSUME RunnerInv, EngineStep
    PROVE  RunnerInv'
<1>1. /\ phase = "applying" /\ result.ok
      /\ index = 0 /\ result.events_compared = Len(generated)
      /\ CurrentCommand \in LoggedCommand /\ ~SequenceBreaks(CurrentCommand)
      /\ UNCHANGED <<command_log, event_log, previous_command_sequence, index, result>>
    BY DEF EngineStep, RunnerInv, CountersFitPhase
<1>2. CurrentCommand' = CurrentCommand /\ ~SequenceBreaks(CurrentCommand)'
    BY <1>1 DEF CurrentCommand, SequenceBreaks
<1>3. CASE pc = "matching" /\ Continue /\ UNCHANGED <<phase, generated>>
  <2>1. IInv'
      BY <1>3, NextStep DEF RunnerInv, Next
  <2>2. RunnerTypes' /\ Agreement'
      BY <1>1, <1>3 DEF RunnerInv, RunnerTypes, Agreement, Contiguous
  <2>3. CountersFitPhase' /\ OkMeansEqual'
      BY <1>1, <1>2, <1>3 DEF RunnerInv, CountersFitPhase, OkMeansEqual
  <2> QED BY <2>1, <2>2, <2>3 DEF RunnerInv
<1>4. CASE /\ pc = "idle"
           /\ generated' = generated \o Stored(CurrentCommand, events)
           /\ phase' = "comparing"
           /\ UNCHANGED vars
  <2>1. IInv'
      BY <1>4, NextStep DEF RunnerInv
  <2>2. pc' = pc /\ events' = events
      BY <1>4 DEF vars
  <2>3. /\ Stored(CurrentCommand, events) \in Seq(StoredEvent)
        /\ Len(Stored(CurrentCommand, events)) = Len(events)
        /\ Len(events) \in Nat
      BY <1>1, StoredFacts, LenProperties DEF RunnerInv, IInv, TypeOK
  <2>4. generated \in Seq(StoredEvent) /\ Len(generated) \in Nat
      BY LenProperties DEF RunnerInv, RunnerTypes
  <2>5. /\ generated' \in Seq(StoredEvent)
        /\ Len(generated') = Len(generated) + Len(events)
        /\ \A i \in 1..Len(generated) : generated'[i] = generated[i]
    <3> DEFINE s == Stored(CurrentCommand, events)
    <3>1. s \in Seq(StoredEvent) /\ Len(s) = Len(events)
        BY <2>3
    <3>2. generated' = generated \o s
        BY <1>4
    <3> HIDE DEF s
    <3>3. /\ generated \o s \in Seq(StoredEvent)
          /\ Len(generated \o s) = Len(generated) + Len(s)
          /\ \A i \in 1..(Len(generated) + Len(s)) :
                (generated \o s)[i] = IF i <= Len(generated) THEN generated[i]
                                      ELSE s[i - Len(generated)]
        BY <2>4, <3>1, ConcatProperties
    <3> QED BY <2>3, <2>4, <3>1, <3>2, <3>3
  <2>6. RunnerTypes'
      BY <1>1, <1>4, <2>5 DEF RunnerInv, RunnerTypes, Phase
  <2>7. Agreement'
    <3>1. \A i \in 1..result.events_compared : event_log.records[i] = generated'[i]
        BY <1>1, <2>5 DEF RunnerInv, Agreement
    <3> QED BY <1>1, <2>3, <2>4, <2>5, <3>1 DEF RunnerInv, Agreement, Contiguous
  <2>8. CountersFitPhase' /\ OkMeansEqual'
      BY <1>1, <1>2, <1>4, <2>2, <2>3, <2>4, <2>5 DEF RunnerInv, CountersFitPhase, OkMeansEqual
  <2> QED BY <2>1, <2>6, <2>7, <2>8 DEF RunnerInv
<1> QED BY <1>3, <1>4 DEF EngineStep

LEMMA CompareEventKeeps ==
    ASSUME RunnerInv, CompareEvent
    PROVE  RunnerInv'
<1> DEFINE n == result.events_compared
           status == read_storage_record(event_log, n, "ExecutionEvent")
           expected == generated[n + 1]
           stored == event_log.records[n + 1]
           field == compare(expected, stored)
           sequence == CurrentCommand.command_sequence
<1>1. /\ phase = "comparing" /\ index < Len(events) /\ result.ok /\ pc = "idle"
      /\ CurrentCommand \in LoggedCommand /\ ~SequenceBreaks(CurrentCommand)
      /\ n + Len(events) = Len(generated) + index
      /\ UNCHANGED <<vars, command_log, event_log>>
    BY DEF CompareEvent, RunnerInv, CountersFitPhase
<1>2. /\ event_log \in Log /\ n \in Nat /\ index \in Nat
      /\ result.commands_replayed \in Nat /\ result \in Result
      /\ generated \in Seq(StoredEvent) /\ Len(generated) \in Nat
    BY LenProperties DEF RunnerInv, RunnerTypes, Result
<1>3. Len(events) \in Nat
    BY LenProperties DEF RunnerInv, IInv, TypeOK
<1>4. n < Len(generated) /\ n + 1 \in 1..Len(generated)
    BY <1>1, <1>2, <1>3
<1>5. expected \in StoredEvent
    BY <1>2, <1>4, ElementOfSeq
<1>6. /\ status \in {"RecordRead", "EndOfLog", "Failed"}
      /\ status = "RecordRead" =>
            /\ n + 1 \in 1..Len(event_log.records)
            /\ n < Len(event_log.records)
            /\ stored.record_type = "ExecutionEvent"
    BY <1>2, ReadFacts DEF RecordType
<1>7. sequence \in Nat /\ "None" \in FieldName
    BY <1>1 DEF LoggedCommand, FieldName
<1>8. CASE status = "EndOfLog"
  <2>1. Fail("StoredEventMissing", sequence, index, "None")
      BY <1>8 DEF CompareEvent
  <2> QED BY <1>1, <1>2, <1>7, <2>1, FailKeeps DEF FailureClass
<1>9. CASE status = "Failed"
  <2>1. Fail("StoredEventReadFailed", sequence, index, "None")
      BY <1>9 DEF CompareEvent
  <2> QED BY <1>1, <1>2, <1>7, <2>1, FailKeeps DEF FailureClass
<1>10. CASE status = "RecordRead"
  <2>1. stored \in StoredEvent
      BY <1>2, <1>6, <1>10, RecordFacts
  <2>2. field \in FieldName /\ (field = "None" => stored = expected)
    <3> HIDE DEF expected, stored
    <3> QED BY <1>5, <2>1, CompareFacts
  <2>3. CASE field # "None"
    <3>1. Fail("EventFieldMismatch", sequence, index, field)
        BY <1>10, <2>3 DEF CompareEvent
    <3> HIDE DEF field, sequence
    <3> QED BY <1>1, <1>2, <1>7, <2>2, <3>1, FailKeeps DEF FailureClass
  <2>4. CASE field = "None"
    <3>1. /\ index' = index + 1
          /\ result' = [result EXCEPT !.events_compared = @ + 1]
          /\ UNCHANGED <<phase, previous_command_sequence, generated>>
        BY <1>10, <2>4 DEF CompareEvent
    <3>2. /\ result' \in Result /\ result'.ok
          /\ result'.events_compared = n + 1
          /\ result'.commands_replayed = result.commands_replayed
        BY <1>1, <1>2, <3>1, SMTT(30) DEF Result
    <3>3. IInv'
        BY <1>1, NextStep DEF RunnerInv
    <3>4. RunnerTypes'
        BY <1>1, <1>2, <3>1, <3>2 DEF RunnerInv, RunnerTypes
    <3>5. Agreement'
      <4>1. stored = expected
          BY <2>2, <2>4
      <4>2. \A i \in 1..(n + 1) : event_log.records[i] = generated[i]
          BY <1>2, <4>1 DEF RunnerInv, Agreement
      <4>3. n + 1 <= Len(generated) /\ n + 1 <= Len(event_log.records)
          BY <1>2, <1>4, <1>6, <1>10
      <4> QED BY <1>1, <3>1, <3>2, <4>2, <4>3 DEF RunnerInv, Agreement, Contiguous
    <3>6. CurrentCommand' = CurrentCommand /\ ~SequenceBreaks(CurrentCommand)'
        BY <1>1, <3>1, <3>2 DEF CurrentCommand, SequenceBreaks
    <3>7. pc' = pc /\ events' = events
        BY <1>1 DEF vars
    <3>8. index' <= Len(events') /\ n + 1 + Len(events') = Len(generated') + index'
      <4>1. /\ index' = index + 1 /\ Len(events') = Len(events)
            /\ Len(generated') = Len(generated)
          BY <3>1, <3>7
      <4>2. n + Len(events) = Len(generated) + index /\ index < Len(events)
          BY <1>1
      <4> HIDE DEF n
      <4> QED BY <1>2, <1>3, <4>1, <4>2
    <3>9. CountersFitPhase' /\ OkMeansEqual'
        BY <1>1, <3>1, <3>2, <3>6, <3>7, <3>8 DEF RunnerInv, CountersFitPhase, OkMeansEqual
    <3> QED BY <3>3, <3>4, <3>5, <3>9 DEF RunnerInv
  <2> QED BY <2>3, <2>4
<1> QED BY <1>6, <1>8, <1>9, <1>10

\* The book is valid, so the command counts as replayed.
LEMMA FinishCommandKeeps ==
    ASSUME RunnerInv, FinishCommand
    PROVE  RunnerInv'
<1> DEFINE k == result.commands_replayed
<1>1. /\ phase = "comparing" /\ index = Len(events) /\ result.ok /\ pc = "idle"
      /\ k < Len(command_log.records)
      /\ CurrentCommand \in LoggedCommand /\ ~SequenceBreaks(CurrentCommand)
      /\ result.events_compared + Len(events) = Len(generated) + index
      /\ UNCHANGED <<vars, command_log, event_log>>
    BY DEF FinishCommand, RunnerInv, CountersFitPhase
<1>2. /\ previous_command_sequence' = CurrentCommand.command_sequence
      /\ result' = [result EXCEPT !.commands_replayed = @ + 1]
      /\ index' = 0 /\ phase' = "read_command" /\ generated' = generated
    BY IInvValidates DEF FinishCommand, RunnerInv
<1>3. /\ k \in Nat /\ result \in Result /\ result.events_compared \in Nat
      /\ Len(events) \in Nat /\ Len(generated) \in Nat
      /\ Len(command_log.records) \in Nat
    BY LenProperties DEF RunnerInv, RunnerTypes, Result, IInv, TypeOK, Log
<1>4. /\ result' \in Result /\ result'.ok /\ result'.commands_replayed = k + 1
      /\ result'.events_compared = result.events_compared
    BY <1>1, <1>2, <1>3, SMTT(30) DEF Result
<1>5. CurrentCommand = command_log.records[k + 1] /\ CurrentCommand.command_sequence \in Nat
    BY <1>1 DEF CurrentCommand, LoggedCommand
<1>6. IInv'
    BY <1>1, NextStep DEF RunnerInv
<1>7. RunnerTypes'
    BY <1>1, <1>2, <1>4, <1>5 DEF RunnerInv, RunnerTypes, Phase
<1>8. Contiguous(command_log, k + 1)
  <2> SUFFICES ASSUME NEW i \in 1..k
               PROVE  command_log.records[i + 1].command_sequence
                         = command_log.records[i].command_sequence + 1
      BY <1>3 DEF Contiguous
  <2>1. CASE i < k
      BY <1>3, <2>1 DEF RunnerInv, Agreement, Contiguous
  <2>2. CASE i = k
    <3>1. previous_command_sequence = command_log.records[k].command_sequence
        BY <1>3, <2>2 DEF RunnerInv, Agreement
    <3>2. \/ previous_command_sequence = NoSequence
          \/ CurrentCommand.command_sequence = previous_command_sequence + 1
        BY <1>1 DEF SequenceBreaks
    <3>3. previous_command_sequence # NoSequence
      <4>1. command_log.records[k] \in LoggedCommand \cup StoredEvent
          BY <1>1, <1>3, <2>2, RecordFacts DEF RunnerInv, RunnerTypes
      <4> QED BY <3>1, <4>1 DEF LoggedCommand, StoredEvent, NoSequence
    <3> QED BY <1>5, <2>2, <3>1, <3>2, <3>3
  <2> QED BY <1>3, <2>1, <2>2
<1>9. Agreement'
    BY <1>1, <1>2, <1>3, <1>4, <1>5, <1>8 DEF RunnerInv, Agreement, Contiguous
<1>10. pc' = pc /\ result.events_compared = Len(generated)
    BY <1>1, <1>3 DEF vars
<1>11. CountersFitPhase' /\ OkMeansEqual'
    BY <1>1, <1>2, <1>4, <1>10 DEF CountersFitPhase, OkMeansEqual
<1> QED BY <1>6, <1>7, <1>9, <1>11 DEF RunnerInv

\* Only a stored log that ends where the generated events end is a success.
LEMMA CheckExtraEventKeeps ==
    ASSUME RunnerInv, CheckExtraEvent
    PROVE  RunnerInv'
<1> DEFINE n == result.events_compared
           status == read_storage_record(event_log, n, "ExecutionEvent")
<1>1. /\ phase = "read_extra" /\ pc = "idle" /\ result.ok /\ n = Len(generated)
      /\ command_log.header = "Valid" /\ command_log.tail = "Clean"
      /\ result.commands_replayed = Len(command_log.records)
      /\ UNCHANGED <<vars, command_log, event_log>>
    BY DEF CheckExtraEvent, RunnerInv, CountersFitPhase
<1>2. /\ event_log \in Log /\ n \in Nat /\ generated \in Seq(StoredEvent)
      /\ event_log.records \in Seq(LoggedCommand \cup StoredEvent)
      /\ Len(event_log.records) \in Nat
    BY LenProperties DEF RunnerInv, RunnerTypes, Result, Log
<1>3. /\ status \in {"RecordRead", "EndOfLog", "Failed"}
      /\ status # "Failed" => event_log.header = "Valid"
      /\ status = "EndOfLog" => event_log.tail = "Clean" /\ n >= Len(event_log.records)
    BY <1>2, ReadFacts DEF RecordType
<1>4. "None" \in FieldName /\ 0 \in Nat
    BY DEF FieldName
<1>5. CASE status = "RecordRead"
  <2>1. Fail("ExtraStoredEvent", 0, 0, "None")
      BY <1>5 DEF CheckExtraEvent
  <2> QED BY <1>1, <1>4, <2>1, FailKeeps DEF FailureClass
<1>6. CASE status = "Failed"
  <2>1. Fail("StoredEventReadFailed", 0, 0, "None")
      BY <1>6 DEF CheckExtraEvent
  <2> QED BY <1>1, <1>4, <2>1, FailKeeps DEF FailureClass
<1>7. CASE status = "EndOfLog"
  <2>1. /\ phase' = "stopped"
        /\ UNCHANGED <<previous_command_sequence, index, result, generated>>
      BY <1>7 DEF CheckExtraEvent
  <2>2. IInv'
      BY <1>1, NextStep DEF RunnerInv
  <2>3. RunnerTypes' /\ Agreement'
      BY <1>1, <2>1 DEF RunnerInv, RunnerTypes, Agreement, Contiguous, Phase
  <2>4. /\ n <= Len(event_log.records)
        /\ \A i \in 1..n : event_log.records[i] = generated[i]
      BY DEF RunnerInv, Agreement
  <2>5. Len(event_log.records) = Len(generated)
      BY <1>1, <1>2, <1>3, <1>7, <2>4
  <2>6. generated \in Seq(LoggedCommand \cup StoredEvent)
      BY <1>2, SeqMonotonic
  <2>7. event_log.records = generated
      BY <1>1, <1>2, <2>4, <2>5, <2>6, SeqEqual
  <2>8. Contiguous(command_log, Len(command_log.records))
      BY <1>1 DEF RunnerInv, Agreement
  <2>9. OkMeansEqual'
      BY <1>1, <1>3, <1>7, <2>1, <2>7, <2>8 DEF OkMeansEqual, Contiguous
  <2>10. CountersFitPhase'
    <3>1. pc' = pc
        BY <1>1 DEF vars
    <3> QED BY <1>1, <2>1, <3>1 DEF CountersFitPhase
  <2> QED BY <2>2, <2>3, <2>9, <2>10 DEF RunnerInv
<1> QED BY <1>3, <1>5, <1>6, <1>7

LEMMA RunnerStep == RunnerInv /\ [ReplayNext]_replayvars => RunnerInv'
<1> SUFFICES ASSUME RunnerInv, [ReplayNext]_replayvars PROVE RunnerInv'
    OBVIOUS
<1>1. CASE \E commands, stored \in Logs : StartReplay(commands, stored)
    BY <1>1, StartKeeps, LogsAssumption
<1>2. CASE ReplayStep
    BY <1>2, ReadCommandKeeps, EngineStepKeeps, CompareEventKeeps, FinishCommandKeeps,
       CheckExtraEventKeeps DEF ReplayStep
<1>3. CASE UNCHANGED replayvars
  <2>1. IInv'
      BY <1>3, NextStep DEF RunnerInv, replayvars
  <2>2. UNCHANGED <<command_log, event_log, phase, previous_command_sequence, index,
                    result, generated, pc, events>>
      BY <1>3 DEF replayvars, runnervars, vars
  <2>3. RunnerTypes' /\ Agreement' /\ OkMeansEqual'
      BY <2>2 DEF RunnerInv, RunnerTypes, Agreement, Contiguous, OkMeansEqual
  <2>4. CountersFitPhase'
      BY <2>2 DEF RunnerInv, CountersFitPhase, CurrentCommand, SequenceBreaks
  <2> QED BY <2>1, <2>3, <2>4 DEF RunnerInv
<1> QED BY <1>1, <1>2, <1>3 DEF ReplayNext

LEMMA RunnerInvAlways == ReplaySpec => []RunnerInv
<1> QED BY IdleInv, RunnerStep, PTL DEF ReplaySpec

-----------------------------------------------------------------------------
(* What a failure reports.                                                 *)

\* The generated events carry the sequences of the commands before the one at
\* hand, and behind those, while they are compared, that of the command itself.
GeneratedNumbered ==
    /\ phase \in {"read_command", "applying", "read_extra"} =>
          \A i \in 1..Len(generated) :
              generated[i].command_sequence <= previous_command_sequence
    /\ phase = "comparing" =>
          LET older == Len(generated) - Len(events)
          IN  /\ older >= 0
              /\ \A i \in 1..older :
                    generated[i].command_sequence < CurrentCommand.command_sequence
              /\ \A i \in (older + 1)..Len(generated) :
                    generated[i].command_sequence = CurrentCommand.command_sequence

\* That what is about to be reported is what the logs show at the counters.
Diagnosis(class, sequence, event_index, field) ==
    LET k == result.commands_replayed
        n == result.events_compared
        command_read == read_storage_record(command_log, k, "OrderCommand")
        event_read == read_storage_record(event_log, n, "ExecutionEvent")
    IN  /\ class \in {"StoredEventMissing", "EventFieldMismatch"} =>
              /\ n < Len(generated)
              /\ sequence = generated[n + 1].command_sequence
              /\ event_index = Cardinality({i \in 1..n :
                                  generated[i].command_sequence = sequence})
        /\ \/ class = "CommandReadFailed" /\ command_read = "Failed"
           \/ /\ class = "CommandSequenceBreak" /\ command_read = "RecordRead"
              /\ ~Contiguous(command_log, k + 1)
           \/ class = "StoredEventReadFailed" /\ event_read = "Failed"
           \/ class = "StoredEventMissing" /\ event_read = "EndOfLog"
           \/ /\ class = "EventFieldMismatch" /\ event_read = "RecordRead"
              /\ FieldOf(event_log.records[n + 1], field)
                     # FieldOf(generated[n + 1], field)
           \/ /\ class = "ExtraStoredEvent" /\ event_read = "RecordRead"
              /\ n = Len(generated)
              /\ k = Len(command_log.records)

\* A failure with the right diagnosis is a first divergence.
LEMMA FailDiagnosed ==
    ASSUME RunnerInv, RunnerInv', UNCHANGED <<command_log, event_log>>,
           NEW class, NEW sequence, NEW event_index, NEW field,
           Fail(class, sequence, event_index, field),
           Diagnosis(class, sequence, event_index, field)
    PROVE  FailureIsFirst' /\ GeneratedNumbered'
<1>1. /\ result'.failure_class = class /\ result'.command_sequence = sequence
      /\ result'.event_index = event_index /\ result'.field = field
      /\ result'.commands_replayed = result.commands_replayed
      /\ result'.events_compared = result.events_compared
    BY DEF Fail, RunnerInv, RunnerTypes, Result
<1>2. /\ phase' = "stopped" /\ generated' = generated
      /\ command_log' = command_log /\ event_log' = event_log
    BY DEF Fail
<1>3. /\ Contiguous(command_log, result.commands_replayed)
      /\ result.events_compared <= Len(generated)
      /\ result.events_compared <= Len(event_log.records)
      /\ \A i \in 1..result.events_compared : event_log.records[i] = generated[i]
    BY DEF RunnerInv, Agreement
<1>4. GeneratedNumbered'
    BY <1>2 DEF GeneratedNumbered
<1>5. FailureIsFirst'
    BY <1>1, <1>2, <1>3 DEF FailureIsFirst, Diagnosis, Contiguous
<1> QED BY <1>4, <1>5

LEMMA StartDiagnosed ==
    ASSUME NEW commands, NEW stored, StartReplay(commands, stored)
    PROVE  FailureIsFirst' /\ GeneratedNumbered'
<1>1. phase' = "read_command" /\ generated' = <<>>
    BY DEF StartReplay
<1>2. Len(<<>>) = 0
    OBVIOUS
<1> QED BY <1>1, <1>2 DEF FailureIsFirst, GeneratedNumbered

\* The sequence of a command that does not break the numbering lies above those of
\* the events generated before it.
LEMMA CommandIsNewer ==
    ASSUME RunnerInv, GeneratedNumbered, CurrentCommand \in LoggedCommand,
           ~SequenceBreaks(CurrentCommand), phase \in {"read_command", "applying"}
    PROVE  \A i \in 1..Len(generated) :
              generated[i].command_sequence < CurrentCommand.command_sequence
<1> SUFFICES ASSUME NEW i \in 1..Len(generated)
             PROVE  generated[i].command_sequence < CurrentCommand.command_sequence
    OBVIOUS
<1>1. generated[i] \in StoredEvent
    BY ElementOfSeq DEF RunnerInv, RunnerTypes
<1>2. generated[i].command_sequence \in Nat
    BY <1>1 DEF StoredEvent
<1>3. generated[i].command_sequence <= previous_command_sequence
    BY DEF GeneratedNumbered
<1>4. previous_command_sequence \in Nat \cup {NoSequence}
    BY DEF RunnerInv, RunnerTypes
<1>5. previous_command_sequence # NoSequence
    BY <1>2, <1>3 DEF NoSequence
<1>6. CurrentCommand.command_sequence = previous_command_sequence + 1
    BY <1>5 DEF SequenceBreaks
<1> QED BY <1>2, <1>3, <1>4, <1>5, <1>6

\* A command with another number than the one after the last breaks the run.
LEMMA BreakIsGap ==
    ASSUME RunnerInv, SequenceBreaks(CurrentCommand)
    PROVE  ~Contiguous(command_log, result.commands_replayed + 1)
<1> DEFINE k == result.commands_replayed
<1>1. k \in Nat
    BY DEF RunnerInv, RunnerTypes, Result
<1>2. /\ previous_command_sequence # NoSequence
      /\ CurrentCommand.command_sequence # previous_command_sequence + 1
    BY DEF SequenceBreaks
<1>3. k # 0 /\ previous_command_sequence = command_log.records[k].command_sequence
    BY <1>2 DEF RunnerInv, Agreement
<1>4. CurrentCommand = command_log.records[k + 1]
    BY DEF CurrentCommand
<1> HIDE DEF k
<1>5. k \in 1..((k + 1) - 1)
    BY <1>1, <1>3
<1> QED BY <1>2, <1>3, <1>4, <1>5 DEF Contiguous, k

LEMMA ReadCommandDiagnosed ==
    ASSUME RunnerInv, RunnerInv', ReadCommand, GeneratedNumbered
    PROVE  FailureIsFirst' /\ GeneratedNumbered'
<1> DEFINE status == read_storage_record(command_log, result.commands_replayed,
                                         "OrderCommand")
<1>1. phase = "read_command" /\ UNCHANGED <<command_log, event_log>>
    BY DEF ReadCommand
<1>2. CASE status = "Failed" /\ Fail("CommandReadFailed", 0, 0, "None")
  <2>1. Diagnosis("CommandReadFailed", 0, 0, "None")
      BY <1>2 DEF Diagnosis
  <2> QED BY <1>1, <1>2, <2>1, FailDiagnosed
<1>3. CASE /\ status = "RecordRead" /\ SequenceBreaks(CurrentCommand)
           /\ Fail("CommandSequenceBreak", CurrentCommand.command_sequence, 0, "None")
  <2>1. Diagnosis("CommandSequenceBreak", CurrentCommand.command_sequence, 0, "None")
      BY <1>3, BreakIsGap DEF Diagnosis
  <2> QED BY <1>1, <1>3, <2>1, FailDiagnosed
<1>4. CASE /\ phase' \in {"read_extra", "applying"}
           /\ UNCHANGED <<previous_command_sequence, generated>>
    BY <1>1, <1>4 DEF GeneratedNumbered, FailureIsFirst
<1> QED BY <1>2, <1>3, <1>4 DEF ReadCommand

LEMMA EngineStepDiagnosed ==
    ASSUME RunnerInv, EngineStep, GeneratedNumbered
    PROVE  FailureIsFirst' /\ GeneratedNumbered'
<1>1. /\ phase = "applying" /\ CurrentCommand \in LoggedCommand
      /\ ~SequenceBreaks(CurrentCommand)
      /\ UNCHANGED <<command_log, previous_command_sequence, result>>
    BY DEF EngineStep, RunnerInv, CountersFitPhase
<1>2. CASE UNCHANGED <<phase, generated>>
    BY <1>1, <1>2 DEF GeneratedNumbered, FailureIsFirst
<1>3. CASE /\ generated' = generated \o Stored(CurrentCommand, events)
           /\ phase' = "comparing" /\ UNCHANGED vars
  <2> DEFINE s == Stored(CurrentCommand, events)
             c == CurrentCommand.command_sequence
  <2>1. /\ s \in Seq(StoredEvent) /\ Len(s) = Len(events) /\ Len(events) \in Nat
        /\ generated \in Seq(StoredEvent) /\ Len(generated) \in Nat
      BY <1>1, StoredFacts, LenProperties DEF RunnerInv, RunnerTypes, IInv, TypeOK
  <2>2. \A i \in 1..Len(events) : s[i].command_sequence = c
      BY DEF Stored
  <2>3. \A i \in 1..Len(generated) : generated[i].command_sequence < c
      BY <1>1, CommandIsNewer
  <2>4. generated' = generated \o s /\ CurrentCommand' = CurrentCommand /\ events' = events
      BY <1>1, <1>3 DEF CurrentCommand, vars
  <2>5. CurrentCommand'.command_sequence = c
      BY <2>4
  <2> HIDE DEF s, c
  <2>6. /\ Len(generated \o s) = Len(generated) + Len(events)
        /\ \A i \in 1..(Len(generated) + Len(events)) :
              (generated \o s)[i] = IF i <= Len(generated) THEN generated[i]
                                    ELSE s[i - Len(generated)]
    <3>1. /\ Len(generated \o s) = Len(generated) + Len(s)
          /\ \A i \in 1..(Len(generated) + Len(s)) :
                (generated \o s)[i] = IF i <= Len(generated) THEN generated[i]
                                      ELSE s[i - Len(generated)]
        BY <2>1, ConcatProperties
    <3> QED BY <2>1, <3>1
  <2>7. Len(generated') - Len(events') = Len(generated)
      BY <2>1, <2>4, <2>6
  <2>8. \A i \in 1..Len(generated) : generated'[i].command_sequence < c
      BY <2>1, <2>3, <2>4, <2>6
  <2>9. ASSUME NEW i \in (Len(generated) + 1)..Len(generated')
        PROVE  generated'[i].command_sequence = c
    <3>1. /\ i \in 1..(Len(generated) + Len(events)) /\ ~(i <= Len(generated))
          /\ i - Len(generated) \in 1..Len(events)
        BY <2>1, <2>4, <2>6
    <3>2. generated'[i] = s[i - Len(generated)]
        BY <2>4, <2>6, <3>1
    <3> QED BY <2>2, <3>1, <3>2
  <2>10. GeneratedNumbered'
      BY <1>3, <2>1, <2>5, <2>7, <2>8, <2>9 DEF GeneratedNumbered
  <2> QED BY <1>3, <2>10 DEF FailureIsFirst
<1> QED BY <1>2, <1>3 DEF EngineStep

\* The index within the command counts the compared events of that command.
LEMMA IndexCounts ==
    ASSUME RunnerInv, GeneratedNumbered, phase = "comparing", index < Len(events)
    PROVE  LET n == result.events_compared
               c == CurrentCommand.command_sequence
           IN  /\ n < Len(generated)
               /\ c = generated[n + 1].command_sequence
               /\ index = Cardinality({i \in 1..n : generated[i].command_sequence = c})
<1> DEFINE n == result.events_compared
           c == CurrentCommand.command_sequence
           older == Len(generated) - Len(events)
<1>1. /\ n \in Nat /\ index \in Nat /\ Len(generated) \in Nat /\ Len(events) \in Nat
    BY LenProperties DEF RunnerInv, RunnerTypes, Result, IInv, TypeOK
<1>2. n + Len(events) = Len(generated) + index
    BY DEF RunnerInv, CountersFitPhase
<1>3. /\ older >= 0
      /\ \A i \in 1..older : generated[i].command_sequence < c
      /\ \A i \in (older + 1)..Len(generated) : generated[i].command_sequence = c
    BY DEF GeneratedNumbered
<1>4. /\ older \in Nat /\ n = older + index /\ n < Len(generated)
  <2>1. index < Len(events)
      OBVIOUS
  <2> HIDE DEF n
  <2> QED BY <1>1, <1>2, <1>3, <2>1
<1>5. c \in Nat
    BY DEF RunnerInv, CountersFitPhase, LoggedCommand
<1> HIDE DEF n, c, older
<1>6. generated[n + 1].command_sequence = c
  <2>1. n + 1 \in (older + 1)..Len(generated)
      BY <1>1, <1>4
  <2> QED BY <1>3, <2>1
<1>7. {i \in 1..n : generated[i].command_sequence = c} = (older + 1)..n
  <2>1. ASSUME NEW i \in 1..n, generated[i].command_sequence = c
        PROVE  i \in (older + 1)..n
    <3>1. i \in 1..older => generated[i].command_sequence < c
        BY <1>3
    <3>2. i \notin 1..older
        BY <1>5, <2>1, <3>1
    <3> QED BY <1>4, <3>2
  <2>2. ASSUME NEW i \in (older + 1)..n
        PROVE  i \in 1..n /\ generated[i].command_sequence = c
    <3>1. i \in 1..n /\ i \in (older + 1)..Len(generated)
        BY <1>1, <1>4
    <3> QED BY <1>3, <3>1
  <2> QED BY <2>1, <2>2
<1>8. Cardinality((older + 1)..n) = index
  <2>1. older + 1 \in Int /\ n \in Int
      BY <1>1, <1>4
  <2>2. Cardinality((older + 1)..n) = IF older + 1 > n THEN 0 ELSE n - (older + 1) + 1
      BY <2>1, FS_Interval
  <2> QED BY <1>1, <1>4, <2>2
<1> QED BY <1>4, <1>6, <1>7, <1>8 DEF n, c

LEMMA CompareEventDiagnosed ==
    ASSUME RunnerInv, RunnerInv', CompareEvent, GeneratedNumbered
    PROVE  FailureIsFirst' /\ GeneratedNumbered'
<1> DEFINE n == result.events_compared
           status == read_storage_record(event_log, n, "ExecutionEvent")
           expected == generated[n + 1]
           stored == event_log.records[n + 1]
           field == compare(expected, stored)
           sequence == CurrentCommand.command_sequence
<1>1. /\ phase = "comparing" /\ index < Len(events)
      /\ UNCHANGED <<vars, command_log, event_log>>
    BY DEF CompareEvent
<1>2. /\ n < Len(generated) /\ sequence = expected.command_sequence
      /\ index = Cardinality({i \in 1..n : generated[i].command_sequence = sequence})
    BY <1>1, IndexCounts
<1>3. CASE status = "EndOfLog" /\ Fail("StoredEventMissing", sequence, index, "None")
  <2>1. Diagnosis("StoredEventMissing", sequence, index, "None")
      BY <1>2, <1>3 DEF Diagnosis
  <2> QED BY <1>1, <1>3, <2>1, FailDiagnosed
<1>4. CASE status = "Failed" /\ Fail("StoredEventReadFailed", sequence, index, "None")
  <2>1. Diagnosis("StoredEventReadFailed", sequence, index, "None")
      BY <1>4 DEF Diagnosis
  <2> QED BY <1>1, <1>4, <2>1, FailDiagnosed
<1>5. CASE /\ status = "RecordRead" /\ field # "None"
           /\ Fail("EventFieldMismatch", sequence, index, field)
  <2>1. /\ event_log \in Log /\ n \in Nat /\ generated \in Seq(StoredEvent)
        /\ Len(generated) \in Nat
      BY LenProperties DEF RunnerInv, RunnerTypes, Result
  <2>2. /\ n + 1 \in 1..Len(event_log.records)
        /\ stored.record_type = "ExecutionEvent"
      BY <1>5, <2>1, ReadFacts DEF RecordType
  <2>3. stored \in StoredEvent
      BY <2>1, <2>2, RecordFacts
  <2>4. expected \in StoredEvent
    <3>1. n + 1 \in 1..Len(generated)
        BY <1>2, <2>1
    <3> QED BY <2>1, <3>1, ElementOfSeq
  <2>5. FieldOf(expected, field) # FieldOf(stored, field)
    <3> HIDE DEF expected, stored
    <3> QED BY <1>5, <2>3, <2>4, CompareFacts
  <2> HIDE DEF field
  <2>6. Diagnosis("EventFieldMismatch", sequence, index, field)
      BY <1>2, <1>5, <2>5 DEF Diagnosis
  <2> QED BY <1>1, <1>5, <2>6, FailDiagnosed
<1>6. CASE /\ result' = [result EXCEPT !.events_compared = @ + 1]
           /\ UNCHANGED <<phase, previous_command_sequence, generated>>
  <2>1. events' = events /\ result'.commands_replayed = result.commands_replayed
      BY <1>1, <1>6 DEF vars, RunnerInv, RunnerTypes, Result
  <2>2. CurrentCommand' = CurrentCommand
      BY <1>1, <2>1 DEF CurrentCommand
  <2> QED BY <1>1, <1>6, <2>1, <2>2 DEF GeneratedNumbered, FailureIsFirst
<1> QED BY <1>3, <1>4, <1>5, <1>6 DEF CompareEvent

LEMMA FinishCommandDiagnosed ==
    ASSUME RunnerInv, FinishCommand, GeneratedNumbered
    PROVE  FailureIsFirst' /\ GeneratedNumbered'
<1> DEFINE c == CurrentCommand.command_sequence
           older == Len(generated) - Len(events)
<1>1. phase = "comparing"
    BY DEF FinishCommand
<1>2. /\ previous_command_sequence' = c /\ phase' = "read_command"
      /\ generated' = generated
    BY IInvValidates DEF FinishCommand, RunnerInv
<1>3. /\ Len(generated) \in Nat /\ Len(events) \in Nat /\ c \in Nat
    BY <1>1, LenProperties
    DEF RunnerInv, RunnerTypes, IInv, TypeOK, CountersFitPhase, LoggedCommand
<1>4. /\ older >= 0
      /\ \A i \in 1..older : generated[i].command_sequence < c
      /\ \A i \in (older + 1)..Len(generated) : generated[i].command_sequence = c
    BY <1>1 DEF GeneratedNumbered
<1> HIDE DEF c
<1>5. ASSUME NEW i \in 1..Len(generated) PROVE generated[i].command_sequence <= c
  <2>1. generated[i] \in StoredEvent
      BY ElementOfSeq DEF RunnerInv, RunnerTypes
  <2>2. generated[i].command_sequence \in Nat
      BY <2>1 DEF StoredEvent
  <2>3. older \in Nat
      BY <1>3, <1>4
  <2> HIDE DEF older
  <2>4. i \in 1..older \/ i \in (older + 1)..Len(generated)
      BY <1>3, <2>3
  <2> QED BY <1>3, <1>4, <2>2, <2>4
<1> QED BY <1>2, <1>5 DEF GeneratedNumbered, FailureIsFirst

LEMMA CheckExtraEventDiagnosed ==
    ASSUME RunnerInv, RunnerInv', CheckExtraEvent, GeneratedNumbered
    PROVE  FailureIsFirst' /\ GeneratedNumbered'
<1> DEFINE n == result.events_compared
           status == read_storage_record(event_log, n, "ExecutionEvent")
<1>1. /\ phase = "read_extra" /\ result.ok /\ n = Len(generated)
      /\ result.commands_replayed = Len(command_log.records)
      /\ UNCHANGED <<command_log, event_log>>
    BY DEF CheckExtraEvent, RunnerInv, CountersFitPhase
<1>2. CASE status = "RecordRead" /\ Fail("ExtraStoredEvent", 0, 0, "None")
  <2>1. Diagnosis("ExtraStoredEvent", 0, 0, "None")
      BY <1>1, <1>2 DEF Diagnosis
  <2> QED BY <1>1, <1>2, <2>1, FailDiagnosed
<1>3. CASE status = "Failed" /\ Fail("StoredEventReadFailed", 0, 0, "None")
  <2>1. Diagnosis("StoredEventReadFailed", 0, 0, "None")
      BY <1>3 DEF Diagnosis
  <2> QED BY <1>1, <1>3, <2>1, FailDiagnosed
<1>4. CASE phase' = "stopped" /\ UNCHANGED <<result, generated>>
    BY <1>1, <1>4 DEF GeneratedNumbered, FailureIsFirst
<1> QED BY <1>2, <1>3, <1>4 DEF CheckExtraEvent

DiagnosisInv == FailureIsFirst /\ GeneratedNumbered

LEMMA DiagnosisStep ==
    RunnerInv /\ RunnerInv' /\ DiagnosisInv /\ [ReplayNext]_replayvars => DiagnosisInv'
<1> SUFFICES ASSUME RunnerInv, RunnerInv', DiagnosisInv, [ReplayNext]_replayvars
             PROVE  FailureIsFirst' /\ GeneratedNumbered'
    BY DEF DiagnosisInv
<1>1. CASE \E commands, stored \in Logs : StartReplay(commands, stored)
    BY <1>1, StartDiagnosed
<1>2. CASE ReplayStep
    BY <1>2, ReadCommandDiagnosed, EngineStepDiagnosed, CompareEventDiagnosed,
       FinishCommandDiagnosed, CheckExtraEventDiagnosed DEF ReplayStep, DiagnosisInv
<1>3. CASE UNCHANGED replayvars
  <2>1. UNCHANGED <<command_log, event_log, phase, previous_command_sequence, result,
                    generated, events>>
      BY <1>3 DEF replayvars, runnervars, vars
  <2> QED BY <2>1 DEF DiagnosisInv, FailureIsFirst, GeneratedNumbered, Contiguous,
                      CurrentCommand
<1> QED BY <1>1, <1>2, <1>3 DEF ReplayNext

LEMMA DiagnosisAlways == ReplaySpec => []DiagnosisInv
<1>1. ReplayIdle => DiagnosisInv
    BY DEF ReplayIdle, DiagnosisInv, FailureIsFirst, GeneratedNumbered
<1> QED BY <1>1, RunnerInvAlways, DiagnosisStep, PTL DEF ReplaySpec
-----------------------------------------------------------------------------
\* The theorems.

\* A replay that reports success has read both logs to a clean end, found the
\* commands numbered without a gap, and the stored events are exactly those that
\* a fresh engine generates from the commands.
THEOREM SuccessMeansEqual == ReplaySpec => []OkMeansEqual
<1>1. RunnerInv => OkMeansEqual
    BY DEF RunnerInv
<1> QED BY <1>1, RunnerInvAlways, PTL

\* A replay that fails reports the first place at which the logs and the engine
\* part: the class, the command, the event within it and the field are those of
\* the first record that differs, and everything in front of it agrees.
THEOREM FailureNamesFirstDivergence == ReplaySpec => []FailureIsFirst
<1>1. DiagnosisInv => FailureIsFirst
    BY DEF DiagnosisInv
<1> QED BY <1>1, DiagnosisAlways, PTL
=============================================================================
