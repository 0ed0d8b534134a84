------------------------------ MODULE TypedWal ------------------------------
(***************************************************************************)
(* What the application layer puts on top of a WAL segment: a commit       *)
(* policy (FlushCommitPolicy or NoSyncCommitPolicy) that decides what a    *)
(* commit does and reports, and a typed reader that checks type and size   *)
(* of each record before it copies it out.  The typed writer only passes   *)
(* its calls on: a typed append is append with a payload of its type.      *)
(***************************************************************************)
EXTENDS WalSegment

CONSTANTS
    OfType,  \* payloads whose record has the type of the typed reader
    OfSize   \* payloads of sizeof(TRecord) bytes

ASSUME TypedAssumption ==
    OfType \cup OfSize \subseteq Payload

VARIABLES
    commit_result,  \* the WalCommitResult of the step just taken, or NoResult
    received,       \* records that the typed reader has copied out, in order
    read_error,     \* the error of the last typed read
    promised        \* ghost: records covered by a flush policy's Committed

typedvars == <<commit_result, received, read_error, promised>>
allvars == <<vars, typedvars>>

NoResult == [status |-> "NoResult", committed_up_to |-> 0]

TypedInit ==
    /\ Init
    /\ commit_result = NoResult
    /\ received = <<>>
    /\ read_error = "None"
    /\ promised = {}

------------------------------------------------------------------------------
\* The result of a commit, and what it promises to a caller who takes its word.
Report(status, committed_up_to, covered) ==
    /\ commit_result' = [status |-> status, committed_up_to |-> committed_up_to]
    /\ promised' = promised \cup
          {r \in covered : status = "Committed" /\ r.sequence <= committed_up_to}
    /\ UNCHANGED <<received, read_error>>

Written == Range(scan(file).log) \cup Range(pending_positions)

\* The fault: the result of the flush is not looked at.
FlushCommit_IgnoresFailure ==
    \/ commit /\ Report("Committed", last_committed_position', Written)
    \/ commit_fails /\ Report("Committed", last_position, Written)
    \/ /\ writer \notin {"closed", "None"}
       /\ Report("Failed", last_position, Written)
       /\ UNCHANGED vars

\* FlushCommitPolicy::commit is WalSegmentWriter::commit with its results; a
\* failure reports the last appended position.
FlushCommit ==
    \/ commit /\ Report("Committed", last_committed_position', Written)
    \/ commit_fails /\ Report("Failed", last_position, Written)
    \/ /\ writer \notin {"closed", "None"}
       /\ Report("Failed", last_position, Written)
       /\ UNCHANGED vars

\* NoSyncCommitPolicy::commit asks the writer for its last position only; it
\* makes no claim of durability.
NoSyncCommit ==
    /\ writer # "closed"
    /\ Report("Committed", last_position, {})
    /\ UNCHANGED vars

\* A new typed reader on a new raw reader.
OpenTypedReader ==
    /\ OpenReader
    /\ received' = <<>>
    /\ read_error' = "None"
    /\ commit_result' = NoResult
    /\ UNCHANGED promised

\* The fault: the size of the payload is not compared.
TypedError_AnySize(payload) ==
    IF payload \notin OfType THEN "RecordTypeMismatch" ELSE "None"

\* The checks that TypedWalReader makes, in their order.
TypedError(payload) ==
    IF payload \notin OfType THEN "RecordTypeMismatch"
    ELSE IF payload \notin OfSize THEN "PayloadSizeMismatch" ELSE "None"

\* TypedWalReader::read_next.  The raw reader has moved past the record by the
\* time that the checks refuse it; the next call reads the record after it.
TypedRead ==
    LET new == Len(delivered') > Len(delivered)
        r   == Last(delivered')
    IN  /\ read_next
        /\ read_error' = IF reader'.state = "failed" THEN "RawFailure"
                         ELSE IF ~new THEN "EndOfLog"
                         ELSE TypedError(r.payload)
        /\ received' = IF new /\ read_error' = "None" THEN Append(received, r)
                       ELSE received
        /\ commit_result' = NoResult
        /\ UNCHANGED promised

\* The steps of the segment that neither layer takes part in.
SegmentStep ==
    /\ \/ \E c \in Configs : CreateSegment(c) \/ ReopenSegment(c)
       \/ \E p \in Payload : append(p)
       \/ Spill
       \/ pop_committed_position
       \/ CloseWriter
       \/ Crash
       \/ recover_wal_segment
    /\ commit_result' = NoResult
    /\ UNCHANGED <<received, read_error, promised>>

TypedNext ==
    \/ SegmentStep
    \/ FlushCommit \/ NoSyncCommit
    \/ OpenTypedReader \/ TypedRead

TypedSpec == TypedInit /\ [][TypedNext]_allvars

------------------------------------------------------------------------------
\* A caller of the flush policy can rely on the result alone: all records up to
\* a committed_up_to that came with Committed stay readable, also those of an
\* earlier writer that a reopening found, whatever crashes and fails, and
\* however commits of the other policy come in between.
PromiseKept == promised \subseteq Range(scan(file).log)

\* The typed reader hands out the records of its type and size in the order of
\* the log, none twice and none left out between two that it returns, while
\* the file is appended to, torn, cut and reopened under it: the k-th record it
\* has returned is the k-th of the log that matches.
TypedReadsLog ==
    LET log == scan(file).log
        hits(n) == {i \in 1..n : log[i].payload \in OfType \cap OfSize}
    IN  \A k \in DOMAIN received :
            \E i \in DOMAIN log : /\ i \in hits(i) /\ Cardinality(hits(i)) = k
                                  /\ received[k] = log[i]
=============================================================================
