----------------------------- MODULE WalSegment -----------------------------
(***************************************************************************)
(* One binary WAL segment: the file, its writer (WalSegmentWriter), the    *)
(* recovery scan that a reopening writer and recover_wal_segment run, and  *)
(* a reader (WalSegmentReader) that may tail the file while it is written. *)
(*                                                                         *)
(* Bytes are kept at the grain at which the code tells them apart.  The    *)
(* file is a sequence of units: the two halves of the segment header, and  *)
(* for each record the two halves of its header, its payload and its       *)
(* padding.  A header can be torn between its halves; a payload or a       *)
(* padding that is cut anywhere behaves like one that is absent.  A CRC or *)
(* a magic number is taken to reject whatever is not the header or the     *)
(* payload that the writer laid out.                                       *)
(*                                                                         *)
(* The process can die at any step; what reached the operating system      *)
(* stays in the file (commit flushes, it never syncs).                     *)
(***************************************************************************)
EXTENDS Integers, Sequences, FiniteSets, SequencesExt

CONSTANTS
    Payload,     \* payloads a caller may append
    Empty,       \* the payloads of no bytes
    Padded,      \* the payloads whose record needs padding to 8 bytes
    Configs,     \* [stream_id, epoch, first_sequence] a writer is opened with
    MaxSequence  \* bound: no append takes a sequence above this one

ASSUME PayloadAssumption ==
    Empty \subseteq Payload /\ Padded \subseteq Payload \ Empty

ASSUME ConfigAssumption ==
    Configs \subseteq [stream_id : Nat, epoch : Nat, first_sequence : Nat]

VARIABLES
    file,                     \* units that reached the operating system
    stream_buffer,            \* units still in the writer's ofstream
    writer,                   \* "closed", or writer_error_ of the open writer
    config,                   \* what the open writer was opened with
    next_sequence,
    last_position,            \* a position is its sequence; 0 is not valid
    last_committed_position,
    pending_positions,        \* each with the record that it stands for
    committed_positions,
    reader,
    delivered,                \* records the reader has returned, in order
    acknowledged              \* records a successful commit() covered

writervars == <<stream_buffer, writer, config, next_sequence, last_position,
                last_committed_position, pending_positions,
                committed_positions>>
readervars == <<reader, delivered>>
vars == <<file, writervars, readervars, acknowledged>>

Record == [config : Configs, sequence : Nat, payload : Payload]

------------------------------------------------------------------------------
(* The on-disk layout.  An operator marked as a fault is a plausible error *)
(* in the operator after it, kept to see that the properties notice it;    *)
(* the specification does not use it.                                      *)

Unit(part, of) == [part |-> part, of |-> of]

SegmentHeader(c) == <<Unit("segment_front", c), Unit("segment_back", c)>>

\* make_header and the three writes of write_record.
RecordUnits(r) ==
    <<Unit("header_front", r), Unit("header_back", r)>>
        \o (IF r.payload \in Empty THEN <<>>
            ELSE <<Unit("payload", r.payload)>>)
        \o (IF r.payload \in Padded THEN <<Unit("padding", "zeros")>>
            ELSE <<>>)

has_valid_static_fields(c) ==
    c.stream_id # 0 /\ c.epoch # 0 /\ c.first_sequence # 0

\* The file starts with a whole, valid segment header.
ValidSegment(f) ==
    /\ Len(f) >= 2
    /\ f[1].part = "segment_front"
    /\ f[2] = Unit("segment_back", f[1].of)
    /\ has_valid_static_fields(f[1].of)

\* A whole record header of this stream and epoch, with this sequence.
ExpectedHeader(units, c, sequence) ==
    /\ units[1].part = "header_front"
    /\ units[2] = Unit("header_back", units[1].of)
    /\ units[1].of.config.stream_id = c.stream_id
    /\ units[1].of.config.epoch = c.epoch
    /\ units[1].of.sequence = sequence

\* The fault: the payload's CRC is not compared.
PayloadIntact_Unchecked(unit, payload) == TRUE

\* The payload has the CRC that the record header carries.
PayloadIntact(unit, payload) == unit = Unit("payload", payload)

\* What a sequential read of one record meets, and the units it consumes.
\* std::istream::ignore reports a padding that is cut short by eofbit alone,
\* which the callers' test of the stream does not see: such a record counts.
Frame(units, c, sequence) ==
    LET r    == units[1].of
        bare == r.payload \in Empty
    IN  IF units = <<>> THEN [kind |-> "EndOfLog", used |-> 0]
        ELSE IF Len(units) < 2 THEN [kind |-> "Torn", used |-> 1]
        ELSE IF ~ExpectedHeader(units, c, sequence)
             THEN [kind |-> "Bad", used |-> 2]
        ELSE IF ~bare /\ Len(units) < 3 THEN [kind |-> "Torn", used |-> 2]
        ELSE IF ~bare /\ ~PayloadIntact(units[3], r.payload)
             THEN [kind |-> "Bad", used |-> 3]
        ELSE [kind |-> "Record",
              used |-> IF Len(units) < Len(RecordUnits(r))
                       THEN Len(units) ELSE Len(RecordUnits(r))]

\* Where the walk of a scan stands: the records it has accepted, and the offset
\* of the first unit behind them.
Place == [log : Seq(Record), offset : Nat]

Start == [log |-> <<>>, offset |-> 2]

\* What the walk meets at a place.
FrameAt(f, at) ==
    Frame(SubSeq(f, at.offset + 1, Len(f)), f[1].of,
          f[1].of.first_sequence + Len(at.log))

\* One pass of the loop; a walk that meets no record stays where it is.
Pass(f) ==
    [at \in Place |->
        LET frame == FrameAt(f, at)
        IN  IF frame.kind # "Record" THEN at
            ELSE [log    |-> Append(at.log, f[at.offset + 1].of),
                  offset |-> at.offset + frame.used]]

Walk(f) ==
    LET walk[n \in Nat] == IF n = 0 THEN Start ELSE Pass(f)[walk[n - 1]]
    IN  walk

\* What the scan returns for a walk that ends at a place.
ErrorOf == [EndOfLog |-> "None", Torn |-> "IncompleteTrailingRecord",
            Bad |-> "CorruptedMiddleRecord"]

ResultAt(f) ==
    [at \in Place |->
        [error |-> ErrorOf[FrameAt(f, at).kind],
         log |-> at.log, offset |-> at.offset]]

\* WalSegmentScanner::scan.  A record has at least two units, so that after
\* this many passes the walk has met its end.
scan(f) ==
    IF ValidSegment(f) THEN ResultAt(f)[Walk(f)[(Len(f) - 2) \div 2]]
    ELSE [error |-> "InvalidSegmentHeader", log |-> <<>>, offset |-> 0]

\* The fault: a torn tail is left in place.
CutTornTail_Never(f) == f

\* The fault: the cut is made where the last accepted record starts.
CutTornTail_OneRecordEarly(f) ==
    LET log == scan(f).log
    IN  IF scan(f).error # "IncompleteTrailingRecord" THEN f
        ELSE IF log = <<>> THEN SubSeq(f, 1, scan(f).offset)
        ELSE SubSeq(f, 1, scan(f).offset - Len(RecordUnits(Last(log))))

\* WalFile::truncate at the scan's last valid offset, for a torn tail only.
CutTornTail(f) ==
    IF scan(f).error = "IncompleteTrailingRecord"
    THEN SubSeq(f, 1, scan(f).offset) ELSE f

------------------------------------------------------------------------------
Init ==
    /\ file = <<>>
    /\ stream_buffer = <<>>
    /\ writer = "closed"
    /\ config \in Configs
    /\ next_sequence = 0
    /\ last_position = 0
    /\ last_committed_position = 0
    /\ pending_positions = <<>>
    /\ committed_positions = <<>>
    /\ reader = [state |-> "failed", config |-> config, cache |-> <<>>,
                 fetched |-> 0, last_position |-> 0]
    /\ delivered = <<>>
    /\ acknowledged = {}

(* The writer.                                                             *)

\* The members of a freshly constructed writer.
FreshWriter(c) ==
    /\ config' = c
    /\ pending_positions' = <<>>
    /\ committed_positions' = <<>>
    /\ UNCHANGED <<readervars, acknowledged>>

\* The constructor on a missing or an empty file: the segment header goes to
\* the stream, not yet to the file.
CreateSegment(c) ==
    /\ writer = "closed" /\ file = <<>>
    /\ FreshWriter(c)
    /\ next_sequence' = c.first_sequence
    /\ last_position' = 0 /\ last_committed_position' = 0
    /\ \/ writer' = "None" /\ stream_buffer' = SegmentHeader(c)
       \/ writer' = "CannotWriteFile" /\ stream_buffer' = <<>>
    /\ UNCHANGED file

\* The sequence a writer continues with after a scan.
SequenceAfter(log, c) ==
    IF log = <<>> THEN c.first_sequence ELSE Last(log).sequence + 1

\* The fault: a torn tail counts as corruption.
Recoverable_CleanOnly(error) == error = "None"

\* The outcomes of a scan after which a writer appends.
Recoverable(error) == error \in {"None", "IncompleteTrailingRecord"}

\* prepare_existing_segment.
ReopenSegment(c) ==
    LET result == scan(file)
        last   == IF result.log = <<>> THEN 0 ELSE Last(result.log).sequence
    IN  /\ writer = "closed" /\ file # <<>>
        /\ FreshWriter(c)
        /\ stream_buffer' = <<>>
        /\ \/ /\ ~ValidSegment(file) \/ file[1].of # c
              /\ writer' = "InvalidSegmentHeader"
              /\ next_sequence' = c.first_sequence
              /\ last_position' = 0 /\ last_committed_position' = 0
              /\ UNCHANGED file
           \/ /\ ValidSegment(file) /\ file[1].of = c
              /\ ~Recoverable(result.error)
              /\ writer' = result.error
              /\ next_sequence' = c.first_sequence
              /\ last_position' = 0 /\ last_committed_position' = 0
              /\ UNCHANGED file
           \/ /\ ValidSegment(file) /\ file[1].of = c
              /\ Recoverable(result.error)
              /\ file' = CutTornTail(file)
              /\ writer' = "None"
              /\ next_sequence' = SequenceAfter(result.log, c)
              /\ last_position' = last
              /\ last_committed_position' = last

\* A write or a flush that fails: some first units of what the stream holds
\* reach the file, and the stream keeps its buffer.
StreamFails(held, error) ==
    /\ \E k \in 0..Len(held) : file' = file \o SubSeq(held, 1, k)
    /\ \E k \in Len(stream_buffer)..Len(held) :
          stream_buffer' = SubSeq(held, 1, k)
    /\ writer' = error

append(p) ==
    LET r    == [config |-> config, sequence |-> next_sequence, payload |-> p]
        held == stream_buffer \o RecordUnits(r)
    IN  /\ writer = "None"
        /\ next_sequence <= MaxSequence
        /\ \/ /\ stream_buffer' = held
              /\ last_position' = next_sequence
              /\ next_sequence' = next_sequence + 1
              /\ pending_positions' = Append(pending_positions, r)
              /\ UNCHANGED <<file, writer>>
           \/ /\ StreamFails(held, "CannotWriteFile")
              /\ UNCHANGED <<last_position, next_sequence, pending_positions>>
        /\ UNCHANGED <<config, last_committed_position, committed_positions,
                       readervars, acknowledged>>

\* A healthy ofstream hands first units of its buffer to the file on its own.
Spill ==
    /\ writer = "None"
    /\ \E k \in 1..Len(stream_buffer) :
          /\ file' = file \o SubSeq(stream_buffer, 1, k)
          /\ stream_buffer' = SubSeq(stream_buffer, k + 1, Len(stream_buffer))
    /\ UNCHANGED <<writer, config, next_sequence, last_position,
                   last_committed_position, pending_positions,
                   committed_positions, readervars, acknowledged>>

\* The fault: the pending positions are not cleared.
Publish_KeepsPending ==
    /\ committed_positions' = committed_positions \o pending_positions
    /\ last_committed_position' =
          IF pending_positions = <<>> THEN last_committed_position
          ELSE Last(pending_positions).sequence
    /\ UNCHANGED pending_positions

\* commit() publishes the pending positions.
Publish ==
    /\ committed_positions' = committed_positions \o pending_positions
    /\ last_committed_position' =
          IF pending_positions = <<>> THEN last_committed_position
          ELSE Last(pending_positions).sequence
    /\ pending_positions' = <<>>

\* The fault: the positions are published without flushing the stream.
commit_NoFlush ==
    /\ writer = "None"
    /\ Publish
    /\ acknowledged' = acknowledged \union Range(pending_positions)
    /\ UNCHANGED <<file, stream_buffer, writer, config, next_sequence,
                   last_position, readervars>>

commit ==
    /\ writer = "None"
    /\ file' = file \o stream_buffer
    /\ stream_buffer' = <<>>
    /\ Publish
    /\ acknowledged' = acknowledged \union Range(pending_positions)
    /\ UNCHANGED <<writer, config, next_sequence, last_position, readervars>>

commit_fails ==
    /\ writer = "None"
    /\ StreamFails(stream_buffer, "CannotFlushFile")
    /\ UNCHANGED <<config, next_sequence, last_position,
                   last_committed_position, pending_positions,
                   committed_positions, readervars, acknowledged>>

pop_committed_position ==
    /\ committed_positions # <<>>
    /\ committed_positions' = Tail(committed_positions)
    /\ UNCHANGED <<file, stream_buffer, writer, config, next_sequence,
                   last_position, last_committed_position, pending_positions,
                   readervars, acknowledged>>

\* The writer is gone, and its members with it.
WriterGone ==
    /\ writer' = "closed"
    /\ stream_buffer' = <<>>
    /\ next_sequence' = 0
    /\ last_position' = 0 /\ last_committed_position' = 0
    /\ pending_positions' = <<>> /\ committed_positions' = <<>>
    /\ UNCHANGED <<config, readervars, acknowledged>>

\* The destructor flushes.  A failed stream tries its buffer once more when it
\* is closed, with whatever success.
CloseWriter ==
    /\ writer # "closed"
    /\ \E k \in 0..Len(stream_buffer) :
          /\ writer = "None" => k = Len(stream_buffer)
          /\ file' = file \o SubSeq(stream_buffer, 1, k)
    /\ WriterGone

\* The process dies: what is in the stream is lost.
Crash ==
    /\ writer # "closed"
    /\ WriterGone
    /\ UNCHANGED file

\* recover_wal_segment, run while no writer has the file open.
recover_wal_segment ==
    /\ writer = "closed"
    /\ file' = CutTornTail(file)
    /\ UNCHANGED <<writervars, readervars, acknowledged>>

------------------------------------------------------------------------------
(* The reader.  cache holds units that its ifstream has fetched and not    *)
(* consumed; they are not read from the file again.                        *)

OpenReader ==
    /\ reader' =
         IF ValidSegment(file)
         THEN [state |-> "good", config |-> file[1].of,
               cache |-> SubSeq(file, 3, Len(file)), fetched |-> Len(file),
               last_position |-> 0]
         ELSE [reader EXCEPT !.state = "failed"]
    /\ delivered' = <<>>
    /\ UNCHANGED <<file, writervars, acknowledged>>

\* The units the next read sees: those fetched, and when they do not hold the
\* whole record, whatever the file holds beyond them by now.
Enough(cache, sequence) ==
    LET frame == Frame(cache, reader.config, sequence)
    IN  \/ frame.kind = "Bad"
        \/ /\ frame.kind = "Record"
           /\ frame.used = Len(RecordUnits(cache[1].of))

\* read_next on a usable stream: a record, end of log, or a failure.  Callers
\* stop at a failure (replay.cpp, main.cpp), so a failed reader reads no more.
ReadRecord ==
    LET sequence == IF reader.last_position # 0 THEN reader.last_position + 1
                    ELSE reader.config.first_sequence
        refill   == ~Enough(reader.cache, sequence)
        units    == IF refill
                    THEN reader.cache
                            \o SubSeq(file, reader.fetched + 1, Len(file))
                    ELSE reader.cache
        frame    == Frame(units, reader.config, sequence)
        cut      == frame.kind = "Record"
                        /\ frame.used < Len(RecordUnits(units[1].of))
    IN  /\ reader' = [reader EXCEPT
             !.state = IF frame.kind \in {"Torn", "Bad"} THEN "failed"
                       ELSE IF cut THEN "eof" ELSE "good",
             !.cache = SubSeq(units, frame.used + 1, Len(units)),
             !.fetched = IF refill /\ Len(file) > @ THEN Len(file) ELSE @,
             !.last_position = IF frame.kind = "Record" THEN sequence ELSE @]
        /\ delivered' = IF frame.kind = "Record"
                        THEN Append(delivered, units[1].of) ELSE delivered

\* After a padding cut short the stream's eofbit makes one read find nothing.
read_next ==
    /\ \/ reader.state = "good" /\ ReadRecord
       \/ /\ reader.state = "eof"
          /\ reader' = [reader EXCEPT !.state = "good"]
          /\ UNCHANGED delivered
    /\ UNCHANGED <<file, writervars, acknowledged>>

------------------------------------------------------------------------------
Next ==
    \/ \E c \in Configs : CreateSegment(c) \/ ReopenSegment(c)
    \/ \E p \in Payload : append(p)
    \/ Spill
    \/ commit
    \/ commit_fails
    \/ pop_committed_position
    \/ CloseWriter
    \/ Crash
    \/ recover_wal_segment
    \/ OpenReader
    \/ read_next

Spec == Init /\ [][Next]_vars

------------------------------------------------------------------------------
WalError == {"None", "CannotWriteFile", "CannotFlushFile",
             "InvalidSegmentHeader", "CorruptedMiddleRecord"}

\* Types of the segment's state; in particular a torn tail is never the error
\* that a writer is left with.
TypeOK ==
    /\ writer \in WalError \union {"closed"}
    /\ config \in Configs
    /\ {next_sequence, last_position, last_committed_position} \subseteq Nat
    /\ pending_positions \in Seq(Record)
    /\ committed_positions \in Seq(Record)
    /\ delivered \in Seq(Record)
    /\ acknowledged \subseteq Record
    /\ reader.state \in {"good", "eof", "failed"}
    /\ reader.fetched >= Len(reader.cache)

\* Every record that a successful commit() covered can be read back from the
\* file, whatever crashes, failed writes, reopenings and recoveries followed.
CommittedReadBack == acknowledged \subseteq Range(scan(file).log)

\* A healthy writer extends a clean log: once its stream reaches the file the
\* segment scans without error, its records count up from first_sequence
\* without a gap, and next_sequence is the one after the last of them.
WriterContinuesLog ==
    writer = "None" =>
        LET result == scan(file \o stream_buffer)
        IN  /\ result.error = "None"
            /\ next_sequence = config.first_sequence + Len(result.log)
            /\ file # <<>> => file[1].of = config

\* The committed queue followed by the pending positions is a run of
\* consecutive records that ends at last_position; those in the queue are in
\* the file, and the pending ones begin after last_committed_position.
CommitQueueExact ==
    writer # "closed" =>
        LET queue == committed_positions \o pending_positions
        IN  /\ \A i \in DOMAIN queue :
                  queue[i].sequence = last_position - Len(queue) + i
            /\ Range(committed_positions) \subseteq Range(scan(file).log)
            /\ last_committed_position # 0 =>
                  Len(pending_positions) =
                      last_position - last_committed_position

\* What a reader has returned is a prefix of the log that recovery keeps: a
\* tailing reader never returns a record that a crash then takes away, that a
\* later writer replaces, or that is patched together from stale units.
DeliveredIsLogged == IsPrefix(delivered, scan(file).log)

\* No step takes a complete record out of the log or changes one: recovery
\* and reopening cut a torn tail and nothing else.
LogOnlyGrows == [][IsPrefix(scan(file).log, scan(file').log)]_vars

\* The segment implements a durable log: the records that a scan accepts only
\* grow in number and count up without a gap, an acknowledged record is in them
\* from then on, and a reader is handed them in order, none skipped or changed.
Log == INSTANCE DurableLog WITH log <- scan(file).log
ImplementsDurableLog == Log!LogSpec

\* WAL-010: a record is visible to readers only after it is committed.
VisibleOnlyAfterCommit ==
    Range(delivered) \intersect Range(pending_positions) = {}
=============================================================================
