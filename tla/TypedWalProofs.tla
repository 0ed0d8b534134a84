--------------------------- MODULE TypedWalProofs ---------------------------
(***************************************************************************)
(* Proofs about the typed adapters and the commit policies, on top of the  *)
(* proofs about the segment.  Every step of the typed layer is a step of   *)
(* the segment or leaves it alone, so the segment's inductive invariant    *)
(* holds here as well.  What the typed reader has copied out is related to *)
(* what its raw reader has returned, and that to the log.                  *)
(***************************************************************************)
EXTENDS TypedWal, WalSegmentProofs

\* Where records of the typed reader's type and size are among the first n.
Hits(log, n) == {i \in 1..n : log[i].payload \in OfType \cap OfSize}

\* The k-th record copied out is the k-th that matches of those returned, and
\* there are as many.
Copies(copied, returned) ==
    /\ copied \in Seq(Record)
    /\ Len(copied) = Cardinality(Hits(returned, Len(returned)))
    /\ \A k \in 1..Len(copied) :
          \E i \in 1..Len(returned) :
              /\ i \in Hits(returned, i) /\ Cardinality(Hits(returned, i)) = k
              /\ copied[k] = returned[i]

TypedInv == IInv /\ PromiseKept /\ Copies(received, delivered)
-----------------------------------------------------------------------------
(* Counting the records that match.                                        *)

\* Sequences that agree on the first n elements have the same hits there.
LEMMA SameHits ==
    ASSUME NEW s, NEW t, NEW n \in Nat, \A i \in 1..n : s[i] = t[i]
    PROVE  Hits(s, n) = Hits(t, n)
    BY DEF Hits

LEMMA HitsFinite ==
    ASSUME NEW s, NEW n \in Nat
    PROVE  IsFiniteSet(Hits(s, n)) /\ Cardinality(Hits(s, n)) \in Nat
<1>1. IsFiniteSet(1..n)
    BY FS_Interval
<1>2. Hits(s, n) \in SUBSET (1..n)
    BY DEF Hits
<1> QED BY <1>1, <1>2, FS_Subset, FS_CardinalityType

\* One more record is one more hit, if it matches.
LEMMA HitsNext ==
    ASSUME NEW s, NEW n \in Nat
    PROVE  LET matches == s[n + 1].payload \in OfType \cap OfSize
           IN  /\ n + 1 \in Hits(s, n + 1) <=> matches
               /\ Cardinality(Hits(s, n + 1)) = IF matches THEN Cardinality(Hits(s, n)) + 1
                                                ELSE Cardinality(Hits(s, n))
<1> DEFINE matches == s[n + 1].payload \in OfType \cap OfSize
<1>1. /\ n + 1 \in 1..(n + 1) /\ n + 1 \notin 1..n
      /\ \A i : i \in 1..(n + 1) <=> i \in 1..n \/ i = n + 1
    OBVIOUS
<1>2. n + 1 \notin Hits(s, n) /\ (n + 1 \in Hits(s, n + 1) <=> matches)
    BY <1>1, Zenon DEF Hits
<1>3. matches => Hits(s, n + 1) = Hits(s, n) \cup {n + 1}
    BY <1>1, Zenon DEF Hits
<1>4. ~matches => Hits(s, n + 1) = Hits(s, n)
    BY <1>1, Zenon DEF Hits
<1> QED BY <1>2, <1>3, <1>4, HitsFinite, FS_AddElement


\* A copied record stays where it was when another one is returned.
LEMMA CopiesBefore ==
    ASSUME NEW copied \in Seq(Record), NEW returned \in Seq(Record), NEW r \in Record,
           Copies(copied, returned), NEW k \in 1..Len(copied)
    PROVE  LET now == Append(returned, r)
           IN  \E i \in 1..Len(now) : /\ i \in Hits(now, i)
                                      /\ Cardinality(Hits(now, i)) = k
                                      /\ copied[k] = now[i]
<1> DEFINE now == Append(returned, r)
<1>1. /\ Len(returned) \in Nat /\ Len(now) = Len(returned) + 1
      /\ \A i \in 1..Len(returned) : now[i] = returned[i]
    BY AppendProperties
<1> PICK i \in 1..Len(returned) : /\ i \in Hits(returned, i)
                                  /\ Cardinality(Hits(returned, i)) = k
                                  /\ copied[k] = returned[i]
    BY DEF Copies
<1> HIDE DEF now
<1>2. i \in Nat /\ i \in 1..Len(now) /\ \A j \in 1..i : now[j] = returned[j]
    BY <1>1
<1>3. Hits(now, i) = Hits(returned, i)
    BY <1>2, SameHits
<1> QED BY <1>1, <1>2, <1>3 DEF now

\* A returned record is copied out if it matches, and passed over if not.
LEMMA CopiesNext ==
    ASSUME NEW copied \in Seq(Record), NEW returned \in Seq(Record), NEW r \in Record,
           Copies(copied, returned)
    PROVE  IF r.payload \in OfType \cap OfSize
           THEN Copies(Append(copied, r), Append(returned, r))
           ELSE Copies(copied, Append(returned, r))
<1> DEFINE now == Append(returned, r)
           n == Len(returned)
           more == Append(copied, r)
           matches == r.payload \in OfType \cap OfSize
<1>1. /\ n \in Nat /\ Len(now) = n + 1 /\ now[n + 1] = r /\ n + 1 \in 1..(n + 1)
      /\ \A i \in 1..n : now[i] = returned[i]
    BY AppendProperties
<1>2. /\ more \in Seq(Record) /\ Len(more) = Len(copied) + 1 /\ Len(copied) \in Nat
      /\ more[Len(copied) + 1] = r
      /\ \A k \in 1..Len(copied) : more[k] = copied[k]
    BY AppendProperties
<1>3. \A k \in 1..Len(copied) :
          \E i \in 1..Len(now) : /\ i \in Hits(now, i) /\ Cardinality(Hits(now, i)) = k
                                 /\ copied[k] = now[i]
    BY CopiesBefore
<1>4. Len(copied) = Cardinality(Hits(now, n))
  <2>1. Len(copied) = Cardinality(Hits(returned, n))
      BY DEF Copies
  <2> HIDE DEF n, now
  <2> QED BY <1>1, <2>1, SameHits
<1> HIDE DEF n, now, more
<1>5. /\ n + 1 \in Hits(now, n + 1) <=> matches
      /\ Cardinality(Hits(now, n + 1)) = IF matches THEN Cardinality(Hits(now, n)) + 1
                                         ELSE Cardinality(Hits(now, n))
    BY <1>1, HitsNext
<1>6. CASE matches
  <2>1. ASSUME NEW k \in 1..Len(more)
        PROVE  \E i \in 1..Len(now) : /\ i \in Hits(now, i) /\ Cardinality(Hits(now, i)) = k
                                      /\ more[k] = now[i]
    <3>1. CASE k \in 1..Len(copied)
        BY <1>2, <1>3, <3>1
    <3>2. CASE k = Len(copied) + 1
        BY <1>1, <1>2, <1>4, <1>5, <1>6, <3>2
    <3> QED BY <1>2, <3>1, <3>2
  <2>2. Copies(more, now)
      BY <1>1, <1>2, <1>4, <1>5, <1>6, <2>1 DEF Copies
  <2> QED BY <1>6, <2>2 DEF more, now
<1>7. CASE ~matches
  <2>1. Copies(copied, now)
      BY <1>1, <1>3, <1>4, <1>5, <1>7 DEF Copies
  <2> QED BY <1>7, <2>1 DEF now
<1> QED BY <1>6, <1>7

\* A reader that has returned nothing has copied nothing.
LEMMA CopiesNothing == Copies(<<>>, <<>>)
<1>1. <<>> \in Seq(Record) /\ Len(<<>>) = 0
    BY EmptySeq
<1>2. Hits(<<>>, 0) = {}
    BY DEF Hits
<1> QED BY <1>1, <1>2, FS_EmptySet DEF Copies
-----------------------------------------------------------------------------
(* The steps.                                                              *)

\* Seen from the segment, the typed layer only takes the segment's steps.
LEMMA TypedStepIsSegmentStep ==
    ASSUME [TypedNext]_allvars
    PROVE  [Next]_vars
<1>1. CASE SegmentStep
    BY <1>1 DEF SegmentStep, Next
<1>2. CASE FlushCommit \/ NoSyncCommit
    BY <1>2 DEF FlushCommit, NoSyncCommit, Next
<1>3. CASE OpenTypedReader \/ TypedRead
    BY <1>3 DEF OpenTypedReader, TypedRead, Next
<1>4. CASE UNCHANGED allvars
    BY <1>4 DEF allvars
<1> QED BY <1>1, <1>2, <1>3, <1>4 DEF TypedNext

LEMMA TypedInitHolds ==
    ASSUME Application, TypedInit
    PROVE  TypedInv
<1>1. IInv
    BY InitHolds DEF TypedInit
<1>2. PromiseKept
    BY DEF TypedInit, PromiseKept
<1>3. Copies(received, delivered)
    BY CopiesNothing DEF TypedInit, Init
<1> QED BY <1>1, <1>2, <1>3 DEF TypedInv

\* Committed is reported when the records that were written or waiting are in
\* the file; a report of failure promises nothing.
LEMMA PromiseStep ==
    ASSUME Application, TypedInv, [TypedNext]_allvars
    PROVE  PromiseKept'
<1> DEFINE before == Range(scan(file).log)
           after == Range(scan(file').log)
<1>1. IInv /\ [Next]_vars /\ promised \subseteq before
    BY TypedStepIsSegmentStep DEF TypedInv, PromiseKept
<1>2. before \subseteq after
    BY <1>1, NextKeepsSegment, LogsOfStep
<1>3. SUFFICES promised' \subseteq after
    BY DEF PromiseKept
<1>4. CASE promised' = promised
    BY <1>1, <1>2, <1>4
<1>5. CASE commit /\ Report("Committed", last_committed_position', Written)
  <2>1. Range(pending_positions) \subseteq after
      BY <1>1, <1>5, CommitStep
  <2>2. promised' \subseteq promised \cup Written
      BY <1>5 DEF Report
  <2> QED BY <1>1, <1>2, <2>1, <2>2 DEF Written
<1>6. ASSUME NEW position, Report("Failed", position, Written)
      PROVE  promised' = promised
    BY <1>6 DEF Report
<1>7. ASSUME NEW position, Report("Committed", position, {})
      PROVE  promised' = promised
    BY <1>7 DEF Report
<1>8. CASE FlushCommit
    BY <1>4, <1>5, <1>6, <1>8 DEF FlushCommit
<1>9. CASE NoSyncCommit
    BY <1>4, <1>7, <1>9 DEF NoSyncCommit
<1>10. CASE SegmentStep \/ OpenTypedReader \/ TypedRead \/ UNCHANGED allvars
    BY <1>4, <1>10 DEF SegmentStep, OpenTypedReader, TypedRead, allvars, typedvars
<1> QED BY <1>8, <1>9, <1>10 DEF TypedNext

\* A raw read that returns a record has not failed.
LEMMA ReturnIsNoFailure ==
    ASSUME Application, IInv, read_next, delivered' # delivered
    PROVE  reader'.state # "failed"
<1>1. reader.state = "good" /\ ReadRecord
    BY DEF read_next
<1>2. reader \in ReaderType
    BY DEF IInv, Types
<1> DEFINE s == IF reader.last_position # 0 THEN reader.last_position + 1
                ELSE reader.config.first_sequence
           refill == ~Enough(reader.cache, s)
           units == IF refill
                    THEN reader.cache \o SubSeq(file, reader.fetched + 1, Len(file))
                    ELSE reader.cache
           frame == Frame(units, reader.config, s)
           cut == frame.kind = "Record" /\ frame.used < Len(RecordUnits(units[1].of))
           rest == SubSeq(units, frame.used + 1, Len(units))
           state == IF frame.kind \in {"Torn", "Bad"} THEN "failed"
                    ELSE IF cut THEN "eof" ELSE "good"
<1>3. frame.kind = "Record"
    BY <1>1 DEF ReadRecord
<1>4. \E upto, position :
         reader' = [reader EXCEPT !.state = state, !.cache = rest, !.fetched = upto,
                                  !.last_position = position]
    BY <1>1, Zenon DEF ReadRecord
<1>5. state # "failed"
    BY <1>3
<1> HIDE DEF state, rest
<1> QED BY <1>2, <1>4, <1>5 DEF ReaderType

\* A typed read copies the record out that the raw reader has just returned, if
\* it matches; any other step leaves both readers alone or starts them anew.
LEMMA CopiesStep ==
    ASSUME Application, TypedInv, [TypedNext]_allvars
    PROVE  Copies(received, delivered)'
<1>1. IInv /\ Copies(received, delivered) /\ delivered \in Seq(Record)
      /\ received \in Seq(Record)
    BY DEF TypedInv, IInv, Types, Copies
<1>2. CASE OpenTypedReader
    BY <1>2, CopiesNothing DEF OpenTypedReader, OpenReader
<1>3. CASE received' = received /\ delivered' = delivered
    BY <1>1, <1>3
<1>4. CASE TypedRead
  <2> DEFINE r == Last(delivered')
             new == Len(delivered') > Len(delivered)
  <2>1. /\ read_next
        /\ read_error' = IF reader'.state = "failed" THEN "RawFailure"
                         ELSE IF ~new THEN "EndOfLog"
                         ELSE TypedError(r.payload)
        /\ received' = IF new /\ read_error' = "None" THEN Append(received, r)
                       ELSE received
      BY <1>4 DEF TypedRead
  <2>2. \/ delivered' = delivered
        \/ /\ Len(delivered) < Len(scan(file).log)
           /\ delivered' = Append(delivered, scan(file).log[Len(delivered) + 1])
      BY <1>1, <2>1, ReadStep
  <2>3. Len(delivered) \in Nat
      BY <1>1
  <2>4. CASE delivered' = delivered
    <3>1. ~new
        BY <2>3, <2>4
    <3> QED BY <1>3, <2>1, <2>4, <3>1
  <2>5. CASE delivered' # delivered
    <3> DEFINE x == scan(file).log[Len(delivered) + 1]
    <3>1. x \in Record
      <4>1. scan(file).log \in Seq(Record)
          BY <1>1, ScanLog DEF Application, IInv, SegmentAt, Settled
      <4>2. Len(scan(file).log) \in Nat
          BY <4>1
      <4>3. Len(delivered) + 1 \in 1..Len(scan(file).log)
          BY <2>2, <2>3, <2>5, <4>2
      <4> QED BY <4>1, <4>3, ElementOfSeq
    <3>2. delivered' = Append(delivered, x)
        BY <2>2, <2>5
    <3> HIDE DEF x
    <3>3. /\ Len(delivered') = Len(delivered) + 1
          /\ delivered'[Len(delivered) + 1] = x
        BY <1>1, <3>1, <3>2, AppendProperties
    <3>4. r = x /\ new
        BY <2>3, <3>3 DEF Last
    <3>5. read_error' = TypedError(x.payload)
        BY <1>1, <2>1, <2>5, <3>4, ReturnIsNoFailure
    <3>6. TypedError(x.payload) = "None" <=> x.payload \in OfType \cap OfSize
        BY DEF TypedError
    <3>7. received' = IF x.payload \in OfType \cap OfSize THEN Append(received, x)
                      ELSE received
        BY <2>1, <3>4, <3>5, <3>6
    <3> QED BY <1>1, <3>1, <3>2, <3>7, CopiesNext
  <2> QED BY <2>4, <2>5
<1>5. CASE FlushCommit \/ NoSyncCommit
    BY <1>3, <1>5 DEF FlushCommit, NoSyncCommit, Report, commit, commit_fails, readervars,
                      vars
<1>6. CASE SegmentStep
  <2>1. received' = received
      BY <1>6 DEF SegmentStep
  <2>2. delivered' = delivered
      BY <1>6 DEF SegmentStep, CreateSegment, ReopenSegment, FreshWriter, append, Spill,
                  pop_committed_position, CloseWriter, Crash, WriterGone,
                  recover_wal_segment, readervars
  <2> QED BY <1>3, <2>1, <2>2
<1>7. CASE UNCHANGED allvars
    BY <1>3, <1>7 DEF allvars, typedvars, vars, readervars
<1> QED BY <1>2, <1>4, <1>5, <1>6, <1>7 DEF TypedNext

LEMMA TypedInductive ==
    ASSUME Application
    PROVE  TypedSpec => []TypedInv
<1>1. TypedInit => TypedInv
    BY TypedInitHolds
<1>2. TypedInv /\ [TypedNext]_allvars => TypedInv'
  <2>1. TypedInv /\ [TypedNext]_allvars => IInv'
      BY TypedStepIsSegmentStep, NextKeepsIInv DEF TypedInv
  <2>2. TypedInv /\ [TypedNext]_allvars => PromiseKept' /\ Copies(received, delivered)'
      BY PromiseStep, CopiesStep
  <2> QED BY <2>1, <2>2 DEF TypedInv
<1> QED BY <1>1, <1>2, PTL DEF TypedSpec
-----------------------------------------------------------------------------
(* The theorems.                                                           *)

\* FlushCommitPolicy reports Committed only for what is in the file, and that
\* stays readable whatever crashes, failures and other commits follow.
THEOREM FlushPolicyKeepsPromise ==
    ASSUME Application
    PROVE  TypedSpec => []PromiseKept
<1>1. TypedInv => PromiseKept
    BY DEF TypedInv
<1> QED BY <1>1, TypedInductive, PTL

\* TypedWalReader hands out all records of its type and size up to the one it has
\* got to, in the order of the log and none twice, although a record that it
\* refuses has been consumed.
THEOREM TypedReaderSkipsNothing ==
    ASSUME Application
    PROVE  TypedSpec => []TypedReadsLog
<1>1. TypedInv => TypedReadsLog
  <2> SUFFICES ASSUME TypedInv PROVE TypedReadsLog
      OBVIOUS
  <2> DEFINE log == scan(file).log
  <2>1. /\ received \in Seq(Record) /\ delivered \in Seq(Record)
        /\ Copies(received, delivered) /\ IsPrefix(delivered, log)
      BY Consequences DEF TypedInv, Copies, IInv, Types, DeliveredIsLogged
  <2>2. log \in Seq(Record)
      BY ScanLog DEF Application, TypedInv, IInv, SegmentAt, Settled
  <2> HIDE DEF log
  <2>3. /\ Len(delivered) <= Len(log) /\ \A i \in 1..Len(delivered) : delivered[i] = log[i]
        /\ Len(delivered) \in Nat /\ Len(log) \in Nat
        /\ DOMAIN received = 1..Len(received) /\ DOMAIN log = 1..Len(log)
      BY <2>1, <2>2, PrefixPointwise, LenProperties
  <2>4. SUFFICES ASSUME NEW k \in 1..Len(received)
                 PROVE  \E i \in 1..Len(log) : /\ i \in Hits(log, i)
                                               /\ Cardinality(Hits(log, i)) = k
                                               /\ received[k] = log[i]
      BY <2>3 DEF TypedReadsLog, Hits, log
  <2> PICK i \in 1..Len(delivered) : /\ i \in Hits(delivered, i)
                                     /\ Cardinality(Hits(delivered, i)) = k
                                     /\ received[k] = delivered[i]
      BY <2>1 DEF Copies
  <2>5. i \in Nat /\ i \in 1..Len(log) /\ \A j \in 1..i : delivered[j] = log[j]
      BY <2>3
  <2>6. Hits(delivered, i) = Hits(log, i)
      BY <2>5, SameHits
  <2> QED BY <2>3, <2>5, <2>6
<1> QED BY <1>1, TypedInductive, PTL

\* No step of the adapters or the policies takes a record out of the log.
THEOREM TypedLogGrows ==
    ASSUME Application
    PROVE  TypedSpec => LogOnlyGrows
<1>1. TypedInv /\ [TypedNext]_allvars => [IsPrefix(scan(file).log, scan(file').log)]_vars
    BY TypedStepIsSegmentStep, NextKeepsSegment DEF TypedInv, SegmentKept
<1> QED BY <1>1, TypedInductive, PTL DEF TypedSpec, LogOnlyGrows
=============================================================================
