------------------------------ MODULE WalLayout ------------------------------
(***************************************************************************)
(* The arithmetic of record lengths in a WAL segment.  Lengths inside a    *)
(* record header are unsigned words that wrap (uint32_t in the code);      *)
(* payload sizes, file offsets and the reader's padding are 64 bits wide   *)
(* and do not.                                                             *)
(*                                                                         *)
(* WalSegment has the same writer and scan at the grain of units, where a  *)
(* record is either padded or not.  Here nothing is torn; a record is      *)
(* where its bytes are, and the question is whether a walk by the lengths  *)
(* in the headers meets the next record.                                   *)
(***************************************************************************)
EXTENDS Integers, Sequences, SequencesExt

CONSTANTS
    Word,         \* number of values of a length field; 2^32 in the code
    HeaderSize,   \* sizeof(WalRecordHeader)
    Alignment,    \* DefaultRecordAlignment
    PayloadSize,  \* sizes of the payloads that callers append
    MaxRecords    \* bound: no append makes the file longer than this

ASSUME LayoutAssumption ==
    /\ Word \in Nat /\ HeaderSize \in Nat \ {0} /\ Alignment \in Nat \ {0}
    /\ HeaderSize % Alignment = 0
    /\ Word % Alignment = 0
    /\ HeaderSize < Word
    /\ PayloadSize \subseteq Nat

VARIABLES
    records,       \* the records in the file: [sequence, size, at]
    file_size,     \* in bytes; offsets count from the first record
    next_sequence,
    writer         \* "None" or the writer_error_ a reopening ended with

vars == <<records, file_size, next_sequence, writer>>

Record == [sequence : Nat, size : Nat, at : Nat]

------------------------------------------------------------------------------
\* For the alignments of the code, which are not zero.
align_up(value, alignment) ==
    IF value % alignment = 0 THEN value
    ELSE (value + (alignment - (value % alignment))) % Word

\* The subtraction is one of words as well.
padding_for(value, alignment) == (align_up(value, alignment) - value) % Word

\* make_header: payload_length and the raw length are truncated to words.
payload_length(r) == r.size % Word
raw_length(r) == (HeaderSize + payload_length(r)) % Word
record_length(r) == align_up(raw_length(r), Alignment)

\* The padding that write_record appends.
WrittenPadding(r) == padding_for(raw_length(r), Alignment)

\* The bytes that write_record appends: the payload is written whole.
WrittenBytes(r) == HeaderSize + r.size + WrittenPadding(r)

\* The part of the check that concerns lengths; the writer stores the value
\* that has_valid_static_fields recomputes.
has_valid_static_fields(r) ==
    record_length(r) >= HeaderSize /\ record_length(r) % Alignment = 0

\* The fault: the reader does not skip the padding.
ReadPadding_None(r) == 0

\* What scan and read_next skip after the payload.  The difference is taken in
\* 64 bits; a negative count makes std::istream::ignore skip nothing.
ReadPadding(r) ==
    LET padding == record_length(r) - HeaderSize - payload_length(r)
    IN  IF padding < 0 THEN 0 ELSE padding

\* Where a scan goes on behind a record.
SkipTo(r) == r.at + HeaderSize + payload_length(r) + ReadPadding(r)

\* Where the walk of a scan stands when it has accepted the first n records.  A
\* padding that ends with the file is not missed.
OffsetAfter(n) ==
    IF n = 0 THEN 0
    ELSE IF SkipTo(records[n]) > file_size THEN file_size
    ELSE SkipTo(records[n])

\* The walk accepts the n-th record after those in front of it.  Bytes that do
\* not start a record do not pass as a header, and a payload read short of its
\* size does not have its CRC.
Accepted(n) ==
    /\ records[n].at = OffsetAfter(n - 1)
    /\ has_valid_static_fields(records[n])
    /\ records[n].sequence = n
    /\ payload_length(records[n]) = records[n].size

\* WalSegmentScanner::scan: the walk goes from record to record, as the file has
\* them, and ends at the first that it does not accept.
scan ==
    LET refused == {n \in DOMAIN records : ~Accepted(n)}
        read    == IF refused = {} THEN Len(records) ELSE Min(refused) - 1
        end     == OffsetAfter(read)
    IN  [error  |-> IF end = file_size THEN "None"
                    ELSE IF file_size - end < HeaderSize
                         THEN "IncompleteTrailingRecord"
                    ELSE "CorruptedMiddleRecord",
         log    |-> SubSeq(records, 1, read),
         offset |-> end]

------------------------------------------------------------------------------
Init ==
    /\ records = <<>>
    /\ file_size = 0
    /\ next_sequence = 1
    /\ writer = "None"

\* append, and its write_record, on a healthy stream: any size is accepted.
append(size) ==
    LET r == [sequence |-> next_sequence, size |-> size, at |-> file_size]
    IN  /\ writer = "None"
        /\ Len(records) < MaxRecords
        /\ records' = Append(records, r)
        /\ file_size' = file_size + WrittenBytes(r)
        /\ next_sequence' = next_sequence + 1
        /\ UNCHANGED writer

\* The fault: the file is cut one record earlier.
Kept_OneLess(log) == Len(log) - 1

\* The records that a reopening writer keeps.
Kept(log) == Len(log)

\* A new writer on the file: prepare_existing_segment.
Reopen ==
    LET cut  == scan.error = "IncompleteTrailingRecord"
    IN  /\ records # <<>>
        /\ IF scan.error = "CorruptedMiddleRecord"
           THEN /\ writer' = scan.error
                /\ next_sequence' = 1
                /\ UNCHANGED <<records, file_size>>
           ELSE /\ writer' = "None"
                /\ next_sequence' = Len(scan.log) + 1
                /\ file_size' = IF cut THEN scan.offset ELSE file_size
                /\ records' = IF cut THEN SubSeq(records, 1, Kept(scan.log))
                              ELSE records

Next == (\E size \in PayloadSize : append(size)) \/ Reopen

Spec == Init /\ [][Next]_vars

------------------------------------------------------------------------------
\* A record whose aligned length is a word, computed without wrapping.
Fits(r) ==
    \E words \in 0..(Word \div Alignment) - 1 :
        words * Alignment >= HeaderSize + r.size

\* The number of records in front of the first that does not fit.
FittingPrefix ==
    LET oversize == {i \in DOMAIN records : ~Fits(records[i])}
    IN  IF oversize = {} THEN Len(records) ELSE Min(oversize) - 1

\* The walk by header lengths returns every record in front of the first
\* oversize one, whatever their sizes, at a multiple of the alignment; if no
\* record is oversize the scan reaches the end of the file without error.
FittingRecordsRead ==
    /\ IsPrefix(SubSeq(records, 1, FittingPrefix), scan.log)
    /\ \A i \in 1..FittingPrefix : records[i].at % Alignment = 0
    /\ FittingPrefix = Len(records) =>
          scan = [error |-> "None", log |-> records, offset |-> file_size]

\* A reopening writer takes no record out of the file, not even when it cuts
\* what it takes for a torn tail, and numbers on from the last one, so that
\* what it appends is not mistaken for a gap.
ReopenLosesNothing ==
    [][writer' = "None" => /\ IsPrefix(records, records')
                           /\ next_sequence' = Len(records') + 1]_vars
=============================================================================
