-------------------------- MODULE WalSegmentProofs --------------------------
(***************************************************************************)
(* Proofs about one WAL segment: its writer, recovery and a tailing        *)
(* reader. The inductive invariant says what the units in the file and in  *)
(* the writer's stream amount to: a healthy writer's stream completes the  *)
(* file to a clean log; the stream of one that has failed holds units of   *)
(* such a log which, written once more, cannot pass for others; what a     *)
(* reader has fetched is a stretch of the file or of a torn tail that was  *)
(* cut from it, and then nothing in it can be taken for a record.          *)
(***************************************************************************)
EXTENDS WalScanProofs

\* Records of the file that lie before the place where it was cut.
LEMMA ReadStale ==
    ASSUME NEW f, Segment(f), Padded = {}, NEW a, Boundary(f, a),
           NEW cache \in Seq(UnitSet), NEW b, CacheStale(f, a.offset, cache, b),
           a.offset < b.offset
    PROVE  \E r : /\ Stands(f, a, r)
                  /\ Begins(cache, f[1].of, SequenceAt(f, a), r)
                  /\ Size(r) <= Len(cache)
                  /\ CacheStale(f, a.offset + Size(r),
                                SubSeq(cache, Size(r) + 1, Len(cache)), b)
                  /\ SubSeq(cache, Size(r) + 1, Len(cache)) \in Seq(UnitSet)
                  /\ Len(SubSeq(cache, Size(r) + 1, Len(cache)))
                        = Len(cache) - Size(r)
<1>1. Boundary(f, b)
    BY DEF CacheStale
<1> PICK r : Stands(f, a, r) /\ After(a, r).offset <= b.offset
    BY <1>1, PlacesOrdered
<1> DEFINE o == a.offset
           k == Size(r)
           d == b.offset - o
           n == Len(cache)
           rest == SubSeq(cache, k + 1, n)
<1>2. /\ o \in Nat /\ b.offset \in Nat /\ Len(f) \in Nat /\ n \in Nat
      /\ k \in {2, 3}
    BY <1>1, BoundaryPlace, SegmentConfig DEF Size
<1>3. o + k <= b.offset
    BY DEF After
<1>4. /\ \A i \in 1..d : cache[i] = f[o + i]
      /\ n = d + 1 \/ n = d + 2
      /\ n # d + 1 =>
            \E q : /\ cache[d + 1] = Unit("header_front", q)
                   /\ cache[d + 2] = Unit("header_back", q)
                   /\ q.sequence = SequenceAt(f, b)
                   /\ q.config = f[1].of
                   /\ q.payload \notin Empty
    BY DEF CacheStale
<1>x. HoldsAt(f, o, r)
    BY DEF Stands
<1>y. r.payload \notin Empty => k = 3
    BY DEF Size
<1>z. /\ r.config.stream_id = f[1].of.stream_id
      /\ r.config.epoch = f[1].of.epoch
      /\ r.sequence = SequenceAt(f, a)
    BY DEF Stands, SequenceAt
<1> HIDE DEF k, o
<1>w. b.offset - (o + k) = d - k
    BY <1>2
<1>v. d \in Int
    BY <1>2
<1>u. k <= d
    BY <1>2, <1>3
<1> HIDE DEF d
<1>5. d \in Nat /\ d < n /\ k < n
    BY <1>2, <1>4, <1>u, <1>v
<1> HIDE DEF n
<1>6. /\ rest \in Seq(UnitSet) /\ Len(rest) = n - k
      /\ \A i \in 1..n - k : rest[i] = cache[k + i]
    BY <1>2, <1>5, RestOf DEF n
<1> HIDE DEF rest
<1>7. HoldsAt(cache, 0, r)
  <2>1. cache[1] = f[o + 1] /\ cache[2] = f[o + 2] /\ 2 <= n
      BY <1>2, <1>4, <1>5, <1>u
  <2>2. r.payload \notin Empty => cache[3] = f[o + 3] /\ 3 <= n
      BY <1>2, <1>4, <1>5, <1>u, <1>y
  <2>3. 0 + 1 = 1 /\ 0 + 2 = 2 /\ 0 + 3 = 3
      OBVIOUS
  <2> QED BY <1>x, <2>1, <2>2, <2>3, Zenon DEF HoldsAt, n
<1>8. CacheStale(f, o + k, rest, b)
  <2>2. ASSUME NEW i \in 1..d - k PROVE rest[i] = f[(o + k) + i]
    <3>1. i \in 1..n - k /\ k + i \in 1..d /\ o + (k + i) = (o + k) + i
        BY <1>2, <1>5
    <3> QED BY <1>4, <1>6, <3>1
  <2>3. CASE n = d + 1
    <3>1. Len(rest) = (d - k) + 1
        BY <1>2, <1>5, <1>6, <2>3
    <3> QED BY <1>1, <1>3, <1>w, <2>2, <3>1 DEF CacheStale
  <2>4. CASE n # d + 1
    <3>1. n = d + 2 /\ Len(rest) = (d - k) + 2
        BY <1>2, <1>4, <1>5, <1>6, <2>4
    <3> PICK q : /\ cache[d + 1] = Unit("header_front", q)
                 /\ cache[d + 2] = Unit("header_back", q)
                 /\ q.sequence = SequenceAt(f, b)
                 /\ q.config = f[1].of
                 /\ q.payload \notin Empty
        BY <1>4, <2>4
    <3>2. /\ (d - k) + 1 \in 1..n - k /\ k + ((d - k) + 1) = d + 1
          /\ (d - k) + 2 \in 1..n - k /\ k + ((d - k) + 2) = d + 2
        BY <1>2, <1>5, <1>u, <3>1
    <3>3. rest[(d - k) + 1] = cache[d + 1] /\ rest[(d - k) + 2] = cache[d + 2]
        BY <1>6, <3>2
    <3> QED BY <1>1, <1>3, <1>w, <2>2, <3>1, <3>3 DEF CacheStale
  <2> QED BY <2>3, <2>4
<1>9. k <= n
    BY <1>2, <1>5
<1>10. Begins(cache, f[1].of, SequenceAt(f, a), r)
    BY <1>7, <1>z DEF Begins
<1> QED BY <1>6, <1>8, <1>9, <1>10 DEF k, o, n, rest

\* What a read of these units does: it returns the record that stands at the
\* reader's place, and the units kept are again those of a reader behind it.
Onward(f, a, limit, units, frame, upto) ==
    LET rest == SubSeq(units, frame.used + 1, Len(units))
        r    == units[1].of
    IN  /\ frame.kind = "Record" =>
             /\ Stands(f, a, r)
             /\ rest \in Seq(UnitSet)
             /\ Cached(f, a.offset + Size(r), rest, limit)
             /\ upto = (a.offset + Size(r)) + Len(rest)
        /\ frame.kind = "EndOfLog" =>
             /\ rest = <<>>
             /\ Cached(f, a.offset, rest, limit)
             /\ upto = a.offset + Len(rest)

LEMMA OnwardFresh ==
    ASSUME NEW f, Segment(f), Padded = {}, NEW a, Boundary(f, a), NEW limit,
           NEW units \in Seq(UnitSet), CacheFresh(f, a.offset, units)
    PROVE  Onward(f, a, limit, units, Frame(units, f[1].of, SequenceAt(f, a)),
                  a.offset + Len(units))
<1> DEFINE c == f[1].of
           s == SequenceAt(f, a)
           frame == Frame(units, c, s)
           rest  == SubSeq(units, frame.used + 1, Len(units))
           r == units[1].of
           o == a.offset
           n == Len(units)
<1>1. o \in Nat /\ n \in Nat /\ Len(f) \in Nat /\ o <= Len(f)
    BY BoundaryPlace, SegmentConfig
<1>2. ASSUME frame.kind = "Record"
      PROVE  /\ Stands(f, a, r)
             /\ rest \in Seq(UnitSet)
             /\ CacheFresh(f, o + Size(r), rest)
             /\ Len(rest) = n - Size(r)
  <2>1. Begins(units, c, s, r)
      BY <1>2, FrameIs
  <2>2. frame = [kind |-> "Record", used |-> Size(r)]
      BY <2>1, FrameIs
  <2> HIDE DEF r
  <2>3. frame.used = Size(r)
      BY <2>2
  <2> HIDE DEF frame
  <2>4. /\ Stands(f, a, r)
        /\ CacheFresh(f, o + Size(r), SubSeq(units, Size(r) + 1, n))
        /\ SubSeq(units, Size(r) + 1, n) \in Seq(UnitSet)
        /\ Len(SubSeq(units, Size(r) + 1, n)) = n - Size(r)
      BY <2>1, ReadFresh
  <2> QED BY <2>3, <2>4
<1>3. ASSUME frame.kind = "EndOfLog"
      PROVE  rest = <<>> /\ n = 0 /\ Len(rest) = 0 /\ CacheFresh(f, o, rest)
  <2>1. units = <<>>
      BY <1>3, FrameIs
  <2>2. n = 0
      BY <2>1
  <2>3. frame.used = 0
      BY <2>1 DEF Frame
  <2> HIDE DEF frame, n
  <2>4. rest = <<>>
      BY <2>1, <2>2, <2>3 DEF n
  <2> HIDE DEF rest
  <2>5. Len(rest) = 0
      BY <2>4
  <2>6. CacheFresh(f, o, rest)
      BY <1>1, <2>5 DEF CacheFresh
  <2> QED BY <2>2, <2>4, <2>5, <2>6
<1>4. Size(r) \in {2, 3}
    BY DEF Size
<1> HIDE DEF frame, rest, o, n, r
<1>5. ASSUME frame.kind = "Record" PROVE o + n = (o + Size(r)) + Len(rest)
    BY <1>1, <1>2, <1>4, <1>5
<1>6. ASSUME frame.kind = "EndOfLog" PROVE o + n = o + Len(rest)
    BY <1>3, <1>6
<1>7. ASSUME frame.kind = "Record" PROVE Cached(f, o + Size(r), rest, limit)
    BY <1>2, <1>7 DEF Cached
<1>8. ASSUME frame.kind = "EndOfLog" PROVE Cached(f, o, rest, limit)
    BY <1>3, <1>8 DEF Cached
<1> QED BY <1>2, <1>3, <1>5, <1>6, <1>7, <1>8 DEF Onward, frame, rest, o, n, r

\* The units a reader keeps before a place where the file was cut.
LEMMA OnwardStale ==
    ASSUME NEW f, Segment(f), Padded = {}, NEW a, Boundary(f, a), NEW limit,
           NEW cache \in Seq(UnitSet), NEW b, CacheStale(f, a.offset, cache, b),
           b.offset <= limit, a.offset < b.offset
    PROVE  LET frame == Frame(cache, f[1].of, SequenceAt(f, a))
           IN  /\ frame.kind = "Record"
               /\ frame.used = Len(RecordUnits(cache[1].of))
               /\ Onward(f, a, limit, cache, frame, a.offset + Len(cache))
<1> DEFINE c == f[1].of
           s == SequenceAt(f, a)
           frame == Frame(cache, c, s)
           o == a.offset
           n == Len(cache)
<1>1. o \in Nat /\ n \in Nat
    BY BoundaryPlace
<1> PICK r : /\ Stands(f, a, r)
             /\ Begins(cache, c, s, r)
             /\ Size(r) <= n
             /\ CacheStale(f, o + Size(r), SubSeq(cache, Size(r) + 1, n), b)
             /\ SubSeq(cache, Size(r) + 1, n) \in Seq(UnitSet)
             /\ Len(SubSeq(cache, Size(r) + 1, n)) = n - Size(r)
    BY ReadStale
<1> DEFINE rest == SubSeq(cache, Size(r) + 1, n)
<1>2. frame = [kind |-> "Record", used |-> Size(r)] /\ cache[1].of = r
    BY FrameIs
<1> HIDE DEF frame
<1>3. frame.kind = "Record" /\ frame.used = Size(r)
    BY <1>2
<1>4. Cached(f, o + Size(r), rest, limit)
    BY DEF Cached
<1>5. Len(RecordUnits(r)) = Size(r)
    BY DEF RecordUnits, Size, Unit
<1>6. Size(r) \in {2, 3}
    BY DEF Size
<1>7. rest \in Seq(UnitSet) /\ Len(rest) = n - Size(r)
    OBVIOUS
<1> HIDE DEF rest, o, n
<1>8. o + n = (o + Size(r)) + Len(rest)
    BY <1>1, <1>6, <1>7
<1>9. Onward(f, a, limit, cache, frame, a.offset + Len(cache))
    BY <1>2, <1>3, <1>4, <1>7, <1>8 DEF Onward, rest, o, n
<1> QED BY <1>2, <1>3, <1>5, <1>9 DEF frame

\* The units a reader keeps of what was cut off right behind its place: either
\* they are what the file holds there now, or no record is read.
LEMMA OnwardStump ==
    ASSUME NEW f, Segment(f), OneStream(f), Padded = {}, NEW a, Boundary(f, a),
           NEW base, Boundary(f, base), a.offset <= base.offset,
           TailSafe(f, base.offset, SequenceAt(f, base)),
           NEW cache \in Seq(UnitSet), CacheStale(f, a.offset, cache, a)
    PROVE  LET all == cache \o SubSeq(f, (a.offset + Len(cache)) + 1, Len(f))
               kept == Frame(cache, f[1].of, SequenceAt(f, a)).kind
               kind == Frame(all, f[1].of, SequenceAt(f, a)).kind
           IN  /\ kept # "Record" /\ kept # "EndOfLog"
               /\ kind # "EndOfLog"
               /\ kind = "Record" =>
                     /\ all \in Seq(UnitSet)
                     /\ CacheFresh(f, a.offset, all)
                     /\ a.offset + Len(cache) < Len(f)
                     /\ Len(f) = a.offset + Len(all)
<1> DEFINE c == f[1].of
           s == SequenceAt(f, a)
           o == a.offset
           n == Len(cache)
           all == cache \o SubSeq(f, (o + n) + 1, Len(f))
<1>1. /\ o \in Nat /\ n \in Nat /\ o + n \in Nat /\ Len(f) \in Nat
      /\ f \in Seq(UnitSet)
    BY BoundaryPlace, SegmentConfig DEF Segment
<1>2. /\ all \in Seq(UnitSet)
      /\ Len(all) = n + IF o + n < Len(f) THEN Len(f) - (o + n) ELSE 0
      /\ \A i \in 1..n : all[i] = cache[i]
    BY <1>1, FetchedUnits
<1>3. o - o + 1 = 1 /\ o - o + 2 = 2
    BY <1>1
<1>4. n \in {1, 2}
    BY <1>3 DEF CacheStale
<1>5. n = 2 => \E q : cache[1] = Unit("header_front", q) /\ q.payload \notin Empty
    BY <1>3 DEF CacheStale
<1>6. Frame(cache, c, s).kind # "Record"
  <2>1. SUFFICES ASSUME Begins(cache, c, s, cache[1].of) PROVE FALSE
      BY FrameIs
  <2>2. n = 2
      BY <1>4, <2>1 DEF Begins, HoldsAt
  <2>3. cache[1].of.payload \in Empty
      BY <2>1, <2>2 DEF Begins, HoldsAt
  <2> QED BY <1>5, <2>2, <2>3 DEF Unit
<1>7. Frame(cache, c, s).kind # "EndOfLog"
  <2>1. cache # <<>>
      BY <1>4
  <2> QED BY <2>1, FrameIs
<1>8. Len(all) > 0
  <2> HIDE DEF all, n, o
  <2> QED BY <1>1, <1>2, <1>4
<1>9. Frame(all, c, s).kind # "EndOfLog"
  <2> HIDE DEF all
  <2>1. all # <<>>
      BY <1>8
  <2> QED BY <1>2, <2>1, FrameIs
<1>10. ASSUME Frame(all, c, s).kind = "Record"
       PROVE  CacheFresh(f, o, all) /\ o + n < Len(f) /\ Len(f) = o + Len(all)
  <2>1. Begins(all, c, s, all[1].of)
    <3> HIDE DEF all
    <3> QED BY <1>2, <1>10, FrameIs
  <2>2. TailSafe(f, o, s)
      BY TailSafeBelow
  <2>3. CacheFresh(f, o, all) /\ o + n < Len(f)
    <3> DEFINE r == all[1].of
    <3>1. Begins(cache \o SubSeq(f, a.offset + Len(cache) + 1, Len(f)),
                  f[1].of, SequenceAt(f, a), r)
        BY <2>1
    <3> HIDE DEF r
    <3> QED BY <2>2, <3>1, StumpJoins
  <2> HIDE DEF all, o, n
  <2>4. Len(f) = o + Len(all)
      BY <1>1, <1>2, <2>3
  <2> QED BY <2>3, <2>4
<1> HIDE DEF all
<1>11. /\ Frame(cache, c, s).kind # "Record"
       /\ Frame(cache, c, s).kind # "EndOfLog"
       /\ Frame(all, c, s).kind # "EndOfLog"
       /\ Frame(all, c, s).kind = "Record" =>
             /\ all \in Seq(UnitSet) /\ CacheFresh(f, o, all)
             /\ o + n < Len(f) /\ Len(f) = o + Len(all)
    BY <1>2, <1>6, <1>7, <1>9, <1>10
<1> QED BY <1>11 DEF all

LEMMA OnwardCached ==
    ASSUME NEW f, Segment(f), OneStream(f), Padded = {}, NEW a, Boundary(f, a),
           NEW base, Boundary(f, base),
           TailSafe(f, base.offset, SequenceAt(f, base)),
           NEW cache \in Seq(UnitSet), Cached(f, a.offset, cache, base.offset),
           NEW frame, frame = Frame(cache, f[1].of, SequenceAt(f, a)),
           NEW all,
           all = cache \o SubSeq(f, (a.offset + Len(cache)) + 1, Len(f))
    PROVE  /\ (frame.kind = "Record" => frame.used # Len(RecordUnits(cache[1].of)))
              => Onward(f, a, base.offset, all,
                        Frame(all, f[1].of, SequenceAt(f, a)),
                        IF Len(f) > a.offset + Len(cache) THEN Len(f)
                        ELSE a.offset + Len(cache))
           /\ Onward(f, a, base.offset, cache, frame, a.offset + Len(cache))
<1> DEFINE c == f[1].of
           s == SequenceAt(f, a)
           o == a.offset
           n == Len(cache)
           upto == IF Len(f) > o + n THEN Len(f) ELSE o + n
           K == frame.kind = "Record" => frame.used # Len(RecordUnits(cache[1].of))
           A == Onward(f, a, base.offset, all, Frame(all, c, s), upto)
           B == Onward(f, a, base.offset, cache, frame, o + n)
<1>1. /\ o \in Nat /\ n \in Nat /\ o + n \in Nat /\ Len(f) \in Nat
      /\ f \in Seq(UnitSet) /\ base.offset \in Nat
  <2>1. o \in Nat /\ base.offset \in Nat
      BY BoundaryPlace
  <2>2. n \in Nat /\ Len(f) \in Nat /\ f \in Seq(UnitSet)
      BY SegmentConfig DEF Segment
  <2> HIDE DEF o, n
  <2> QED BY <2>1, <2>2
<1>2. /\ all \in Seq(UnitSet)
      /\ Len(all) = n + IF o + n < Len(f) THEN Len(f) - (o + n) ELSE 0
      /\ \A i \in 1..n : all[i] = cache[i]
      /\ \A i \in 1..Len(all) : i > n =>
            /\ (o + n) + (i - n) \in 1..Len(f)
            /\ all[i] = f[(o + n) + (i - n)]
  <2> DEFINE held == cache \o SubSeq(f, (o + n) + 1, Len(f))
  <2>1. /\ held \in Seq(UnitSet)
        /\ Len(held) = n + IF o + n < Len(f) THEN Len(f) - (o + n) ELSE 0
        /\ \A i \in 1..n : held[i] = cache[i]
        /\ \A i \in 1..Len(held) : i > n =>
              /\ (o + n) + (i - n) \in 1..Len(f)
              /\ held[i] = f[(o + n) + (i - n)]
      BY <1>1, FetchedUnits
  <2>2. all = held
      OBVIOUS
  <2> HIDE DEF held
  <2> QED BY <2>1, <2>2
<1>3. ASSUME CacheFresh(f, o, cache) PROVE A /\ B
  <2>1. B
      BY <1>3, OnwardFresh
  <2>2. o + n <= Len(f) /\ \A i \in 1..n : cache[i] = f[o + i]
      BY <1>3 DEF CacheFresh
  <2> HIDE DEF o, n, A, B
  <2>3. ASSUME NEW i \in 1..Len(all) PROVE all[i] = f[o + i]
    <3>1. CASE i > n
      <4>0. i \in Int
          OBVIOUS
      <4>1. (o + n) + (i - n) = o + i
          BY <1>1, <4>0
      <4>2. all[i] = f[(o + n) + (i - n)]
          BY <1>2, <3>1
      <4> QED BY <4>1, <4>2
    <3>2. CASE i \in 1..n
        BY <1>2, <2>2, <3>2
    <3>3. i \in Nat /\ i >= 1
        OBVIOUS
    <3>4. i > n \/ i \in 1..n
        BY <1>1, <3>3
    <3> QED BY <3>1, <3>2, <3>4
  <2>4. o + Len(all) = Len(f) /\ upto = Len(f)
    <3>1. \A x, y, z \in Nat : x + y <= z =>
             /\ x + (y + IF x + y < z THEN z - (x + y) ELSE 0) = z
             /\ (IF z > x + y THEN z ELSE x + y) = z
        OBVIOUS
    <3>2. Len(all) = n + IF o + n < Len(f) THEN Len(f) - (o + n) ELSE 0
        BY <1>2
    <3>3. o \in Nat /\ n \in Nat /\ Len(f) \in Nat /\ o + n <= Len(f)
        BY <1>1, <2>2
    <3>4. o + (n + IF o + n < Len(f) THEN Len(f) - (o + n) ELSE 0) = Len(f)
        BY <3>1, <3>3, Zenon
    <3>5. upto = Len(f)
        BY <3>1, <3>3, Zenon
    <3> QED BY <3>2, <3>4, <3>5, Zenon
  <2>5. CacheFresh(f, o, all)
    <3>1. \A x \in Nat : x <= x
        OBVIOUS
    <3>2. o + Len(all) <= Len(f)
        BY <1>1, <2>4, <3>1, Zenon
    <3> QED BY <2>3, <3>2 DEF CacheFresh
  <2> HIDE DEF upto
  <2>6. A
      BY <1>2, <2>4, <2>5, OnwardFresh DEF o, A
  <2> QED BY <2>1, <2>6
<1>4. ASSUME NEW b, CacheStale(f, o, cache, b), b.offset <= base.offset
      PROVE  (K => A) /\ B
  <2>1. Boundary(f, b) /\ o <= b.offset /\ b.offset \in Nat
      BY <1>4, BoundaryPlace DEF CacheStale
  <2>2. CASE o < b.offset
      BY <1>4, <2>2, OnwardStale
  <2>3. CASE o = b.offset
    <3>1. a = b
        BY <2>1, <2>3, PlacesOrdered
    <3>2. /\ frame.kind # "Record" /\ frame.kind # "EndOfLog"
          /\ Frame(all, c, s).kind # "EndOfLog"
          /\ Frame(all, c, s).kind = "Record" =>
                     /\ CacheFresh(f, o, all)
                     /\ o + n < Len(f)
                     /\ Len(f) = o + Len(all)
        BY <1>4, <3>1, OnwardStump
    <3>3. B
        BY <3>2 DEF Onward
    <3>4. CASE Frame(all, c, s).kind # "Record"
        BY <3>2, <3>3, <3>4 DEF Onward
    <3>5. CASE Frame(all, c, s).kind = "Record"
      <4>1. upto = o + Len(all)
          BY <3>2, <3>5
      <4> HIDE DEF upto
      <4>2. A
          BY <1>2, <3>2, <3>5, <4>1, OnwardFresh
      <4> QED BY <3>3, <4>2
    <3> QED BY <3>4, <3>5
  <2> QED BY <1>1, <2>1, <2>2, <2>3
<1> HIDE DEF A, B
<1>5. (K => A) /\ B
    BY <1>3, <1>4 DEF Cached
<1> QED BY <1>5 DEF A, B
-----------------------------------------------------------------------------
(* The file and what its writer means it to be.                            *)

\* What a healthy writer's stream amounts to.
Clean(g, c) ==
    Segment(g) /\ g[1].of = c /\ scan(g).error = "None" /\ OneStream(g)

\* What a file may hold behind a place at which it has been cut.
Settled(f, base) ==
    /\ f \in Seq(UnitSet) /\ OneStream(f)
    /\ IF ValidSegment(f)
       THEN Boundary(f, base) /\ TailSafe(f, base.offset, SequenceAt(f, base))
       ELSE base = Start

LEMMA CleanHeader ==
    ASSUME NEW c \in Configs, has_valid_static_fields(c), Padded = {}
    PROVE  /\ Clean(SegmentHeader(c), c)
           /\ scan(SegmentHeader(c)).log = <<>>
           /\ Boundary(SegmentHeader(c), Start)
<1>1. /\ SegmentHeader(c)[1].part = "segment_front"
      /\ SegmentHeader(c)[2].part = "segment_back"
    BY DEF SegmentHeader, Unit
<1>2. Len(SegmentHeader(c)) = 2
    BY HeaderScan
<1> DEFINE f == SegmentHeader(c)
<1> HIDE DEF f
<1>3. OneStream(f)
  <2> SUFFICES ASSUME NEW i \in 1..Len(f)
               PROVE  f[i].part \notin {"header_front", "header_back"}
      BY DEF OneStream
  <2>1. i = 1 \/ i = 2
      BY <1>2 DEF f
  <2> QED BY <1>1, <2>1 DEF f
<1> QED BY <1>3, HeaderScan DEF Clean, f

LEMMA CleanAppend ==
    ASSUME NEW c, NEW g, Clean(g, c), Padded = {}, NEW r \in Record,
           r.config = c, r.sequence = c.first_sequence + Len(scan(g).log)
    PROVE  /\ Clean(g \o RecordUnits(r), c)
           /\ scan(g \o RecordUnits(r)).log = Append(scan(g).log, r)
           /\ Agree(g, g \o RecordUnits(r), Len(g))
<1> DEFINE u == RecordUnits(r)
           h == g \o u
<1>1. /\ Segment(g) /\ g[1].of = c /\ scan(g).error = "None"
    BY DEF Clean
<1>2. /\ Segment(h) /\ h[1] = g[1]
      /\ scan(h).error = "None"
      /\ scan(h).log = Append(scan(g).log, r)
      /\ Agree(g, h, Len(g))
    BY <1>1, AppendScan
<1>3. g \in Seq(UnitSet) /\ Len(g) \in Nat
    BY <1>1, SegmentConfig DEF Segment
<1>4. /\ u \in Seq(UnitSet) /\ Len(u) = Size(r)
      /\ u[1] = Unit("header_front", r) /\ u[2] = Unit("header_back", r)
      /\ r.payload \notin Empty => u[3] = Unit("payload", r.payload)
    BY UnitsOfRecord
<1> HIDE DEF u
<1>5. /\ Len(h) = Len(g) + Len(u)
      /\ \A i \in 1..Len(g) : h[i] = g[i]
      /\ \A i \in 1..Len(u) : h[Len(g) + i] = u[i]
    BY <1>3, <1>4, ConcatAgree
<1> HIDE DEF h
<1>6. ASSUME NEW i \in 1..Len(u), u[i].part \in {"header_front", "header_back"}
      PROVE  u[i].of.config = c
  <2>1. i = 1 \/ i = 2 \/ (i = 3 /\ r.payload \notin Empty)
      BY <1>4 DEF Size
  <2> QED BY <1>4, <1>6, <2>1 DEF Unit
<1>7. OneStream(h)
  <2> SUFFICES ASSUME NEW i \in 1..Len(h), h[i].part \in {"header_front", "header_back"}
               PROVE  h[i].of.config = c
      BY <1>1, <1>2 DEF OneStream
  <2>1. CASE i \in 1..Len(g)
      BY <1>1, <1>5, <2>1 DEF OneStream, Clean
  <2>2. CASE i > Len(g)
    <3> DEFINE j == i - Len(g)
    <3>1. i \in Nat /\ Len(u) \in Nat
        BY <1>4
    <3>2. j \in 1..Len(u) /\ Len(g) + j = i
        BY <1>3, <1>5, <2>2, <3>1
    <3> HIDE DEF j
    <3>3. h[i] = u[j]
        BY <1>5, <3>2
    <3> QED BY <1>6, <3>2, <3>3
  <2>3. i \in 1..Len(g) \/ i > Len(g)
      BY <1>3
  <2> QED BY <2>1, <2>2, <2>3
<1> QED BY <1>1, <1>2, <1>7 DEF Clean, h, u

LEMMA ContinuesPart ==
    ASSUME NEW f, NEW m, NEW u, NEW g, Continues(f, m, u, g), NEW k \in 0..Len(u)
    PROVE  Continues(f, m, SubSeq(u, 1, k), g)
<1>1. /\ f \in Seq(UnitSet) /\ u \in Seq(UnitSet) /\ Agree(f, g, Len(f))
      /\ m \in 0..Len(f) /\ m + Len(u) <= Len(g)
      /\ \A i \in 1..Len(u) : u[i] = g[m + i]
    BY DEF Continues
<1>2. Len(u) \in Nat /\ k \in Nat /\ k <= Len(u) /\ Len(f) \in Nat
    BY <1>1
<1>3. \A i \in 1..k : u[i] \in UnitSet
    BY <1>1, <1>2
<1> DEFINE v == SubSeq(u, 1, k)
<1>4. v \in Seq(UnitSet) /\ Len(v) = k /\ \A i \in 1..k : v[i] = u[i]
    BY <1>1, <1>2, <1>3, SubSeqProperties
<1> HIDE DEF v
<1>5. m + Len(v) <= Len(g)
  <2>1. Len(g) \in Int
      BY <1>1 DEF Agree
  <2> QED BY <1>1, <1>2, <1>4, <2>1
<1>6. \A i \in 1..Len(v) : v[i] = g[m + i]
  <2> SUFFICES ASSUME NEW i \in 1..Len(v) PROVE v[i] = g[m + i]
      OBVIOUS
  <2>1. i \in 1..k /\ i \in 1..Len(u)
      BY <1>2, <1>4
  <2> QED BY <1>1, <1>4, <2>1
<1> QED BY <1>1, <1>4, <1>5, <1>6 DEF Continues, v

\* Every unit of the file after a write is a unit of the stream it stands for.
LEMMA RestartUnits ==
    ASSUME NEW f, NEW m, NEW u, NEW g, Continues(f, m, u, g), g \in Seq(UnitSet)
    PROVE  /\ f \o u \in Seq(UnitSet)
           /\ Len(f \o u) = Len(f) + Len(u)
           /\ \A i \in 1..Len(f \o u) :
                 \E j \in 1..Len(g) : (f \o u)[i] = g[j]
           /\ f \o u # <<>> => (f \o u)[1] = g[1] /\ Len(g) > 0
           /\ Agree(f, f \o u, Len(f))
           /\ Agree(g, f \o u, Len(f))
<1>1. /\ f \in Seq(UnitSet) /\ u \in Seq(UnitSet) /\ Agree(f, g, Len(f))
      /\ m \in 0..Len(f) /\ m + Len(u) <= Len(g)
      /\ \A i \in 1..Len(u) : u[i] = g[m + i]
    BY DEF Continues
<1>2. Len(f) \in Nat /\ Len(u) \in Nat /\ Len(g) \in Nat /\ m \in Nat
      /\ Len(f) <= Len(g)
    BY <1>1 DEF Agree
<1> DEFINE h == f \o u
<1>3. /\ h \in Seq(UnitSet) /\ Len(h) = Len(f) + Len(u)
      /\ \A i \in 1..Len(f) : h[i] = f[i]
      /\ \A i \in 1..Len(u) : h[Len(f) + i] = u[i]
      /\ Agree(f, h, Len(f))
    BY <1>1, ConcatAgree
<1> HIDE DEF h
<1>4. \A i \in 1..Len(f) : h[i] = g[i]
    BY <1>1, <1>3 DEF Agree
<1>5. ASSUME NEW i \in 1..Len(h) PROVE \E j \in 1..Len(g) : h[i] = g[j]
  <2>1. CASE i \in 1..Len(f)
    <3>1. i \in 1..Len(g)
        BY <1>2, <2>1
    <3> QED BY <1>4, <2>1, <3>1
  <2>2. CASE i > Len(f)
    <3>1. i \in Nat
        OBVIOUS
    <3> PICK k \in Nat : k = i - Len(f)
        BY <1>2, <2>2, <3>1
    <3>2. k \in 1..Len(u) /\ Len(f) + k = i
        BY <1>2, <1>3, <2>2, <3>1
    <3>3. h[i] = g[m + k]
        BY <1>1, <1>3, <3>2
    <3>4. m + k \in 1..Len(g)
        BY <1>1, <1>2, <3>2
    <3> QED BY <3>3, <3>4
  <2>3. i \in 1..Len(f) \/ i > Len(f)
      BY <1>2
  <2> QED BY <2>1, <2>2, <2>3
<1>6. ASSUME h # <<>> PROVE h[1] = g[1] /\ Len(g) > 0
  <2>1. Len(h) \in Nat /\ Len(h) > 0
      BY <1>3, <1>6
  <2>2. CASE Len(f) > 0
    <3>1. 1 \in 1..Len(f)
        BY <1>2, <2>2
    <3> QED BY <1>2, <1>4, <2>2, <3>1
  <2>3. CASE Len(f) = 0
    <3>1. m = 0 /\ 1 \in 1..Len(u) /\ m + 1 = 1 /\ Len(f) + 1 = 1
        BY <1>1, <1>2, <1>3, <2>1, <2>3
    <3>2. h[1] = u[1] /\ u[1] = g[1]
        BY <1>1, <1>3, <3>1
    <3>3. Len(g) > 0
        BY <1>1, <1>2, <3>1
    <3> QED BY <3>2, <3>3
  <2> QED BY <1>2, <2>2, <2>3
<1>7. Agree(g, h, Len(f))
  <2>1. Len(f) <= Len(h)
      BY <1>2, <1>3
  <2> QED BY <1>2, <1>4, <2>1 DEF Agree
<1> QED BY <1>3, <1>5, <1>6, <1>7 DEF h

\* Whatever part of its stream a writer manages to write, and however often it
\* begins again, the file stays settled behind the place of the last cut.
LEMMA RestartSettled ==
    ASSUME NEW c, NEW g, Clean(g, c), Padded = {}, NEW base, Boundary(g, base),
           NEW f, NEW u, NEW m, Continues(f, m, u, g),
           m >= base.offset \/ base = Start,
           ValidSegment(f \o u) \/ base = Start
    PROVE  Settled(f \o u, base)
<1> DEFINE h == f \o u
<1>1. Segment(g) /\ scan(g).error = "None" /\ OneStream(g) /\ g \in Seq(UnitSet)
    BY DEF Clean, Segment
<1>2. /\ h \in Seq(UnitSet)
      /\ \A i \in 1..Len(h) : \E j \in 1..Len(g) : h[i] = g[j]
      /\ h # <<>> => h[1] = g[1]
      /\ Agree(g, h, Len(f))
    BY <1>1, RestartUnits
<1>3. TailSafe(h, base.offset, SequenceAt(g, base))
    BY <1>1, RestartTailSafe
<1> HIDE DEF h
<1>4. OneStream(h)
  <2> SUFFICES ASSUME NEW i \in 1..Len(h), h[i].part \in {"header_front", "header_back"}
               PROVE  h[i].of.config = h[1].of
      BY DEF OneStream
  <2>1. h # <<>>
      BY <1>2
  <2> QED BY <1>1, <1>2, <2>1 DEF OneStream
<1>5. ASSUME ValidSegment(h)
      PROVE  Boundary(h, base) /\ TailSafe(h, base.offset, SequenceAt(h, base))
  <2>1. Segment(h) /\ h # <<>>
      BY <1>2, <1>5 DEF Segment, ValidSegment
  <2>2. SequenceAt(h, base) = SequenceAt(g, base)
      BY <1>2, <2>1 DEF SequenceAt
  <2>3. CASE base = Start
      BY <1>3, <2>2, <2>3, StartBoundary
  <2>4. CASE m >= base.offset
    <3>1. m \in Nat /\ m <= Len(f) /\ Len(f) \in Nat /\ base.offset \in Nat
          /\ 2 <= base.offset
        BY <1>1, BoundaryLog DEF Continues, Place
    <3>2. base.offset <= Len(f) /\ Len(f) >= 2
        BY <2>4, <3>1
    <3>3. Boundary(h, base)
        BY <1>1, <1>2, <2>1, <3>2, BoundaryAgree
    <3> QED BY <1>3, <2>2, <3>3
  <2> QED BY <2>3, <2>4
<1> QED BY <1>2, <1>4, <1>5 DEF Settled, h
-----------------------------------------------------------------------------
(* The log of a file and what a reader knows of it.                        *)

LEMMA ScanLog ==
    ASSUME NEW f \in Seq(UnitSet), Padded = {}
    PROVE  scan(f).log \in Seq(Record)
<1>1. CASE ValidSegment(f)
    BY <1>1, ScanEnd DEF Segment
<1>2. CASE ~ValidSegment(f)
  <2>1. scan(f).log = <<>>
      BY <1>2 DEF scan
  <2> QED BY <2>1
<1> QED BY <1>1, <1>2

\* A write adds records behind those of the log.
LEMMA LogGrows ==
    ASSUME NEW f \in Seq(UnitSet), NEW u \in Seq(UnitSet), Padded = {}
    PROVE  /\ f \o u \in Seq(UnitSet)
           /\ Agree(f, f \o u, Len(f))
           /\ IsPrefix(scan(f).log, scan(f \o u).log)
           /\ ValidSegment(f) => ValidSegment(f \o u)
<1> DEFINE h == f \o u
<1>1. h \in Seq(UnitSet) /\ Agree(f, h, Len(f))
    BY ConcatAgree
<1>2. CASE ValidSegment(f)
  <2>1. Segment(f) /\ Segment(h)
      BY <1>2, SegmentConcat DEF Segment
  <2> HIDE DEF h
  <2>2. scan(f).offset \in Nat /\ scan(f).offset <= Len(f)
    <3>1. End(f).offset = scan(f).offset
        BY DEF End
    <3>2. Boundary(f, End(f))
        BY <2>1, ScanEnd
    <3> QED BY <2>1, <3>1, <3>2, BoundaryPlace
  <2>3. Agree(f, h, scan(f).offset)
      BY <1>1, <2>2 DEF Agree
  <2> QED BY <1>1, <2>1, <2>3, ScanGrows DEF Segment, h
<1>3. CASE ~ValidSegment(f)
  <2>1. scan(f).log = <<>> /\ <<>> \in Seq(Record) /\ Len(<<>>) = 0
      BY <1>3 DEF scan
  <2> HIDE DEF h
  <2> DEFINE log == scan(h).log
  <2>2. log \in Seq(Record)
      BY <1>1, ScanLog
  <2> HIDE DEF log
  <2>4. Len(log) \in Nat /\ 0 <= Len(log)
      BY <2>2
  <2>5. <<>> \in Seq(Record) /\ \A i \in 1..Len(<<>>) : <<>>[i] = log[i]
      BY <2>1
  <2>3. IsPrefix(<<>>, log)
      BY <2>1, <2>2, <2>4, <2>5, PrefixPointwise
  <2> QED BY <1>1, <1>3, <2>1, <2>3 DEF log, h
<1> QED BY <1>2, <1>3

ReaderType ==
    [state : {"good", "eof", "failed"}, config : Configs, cache : Seq(UnitSet),
     fetched : Nat, last_position : Nat]

\* An open reader stands behind a record of the log, and the units it keeps are
\* those of the file, or of a file that has been cut no further than limit.
Follows(f, rd, dl, limit) ==
    /\ Segment(f)
    /\ \E a : /\ Boundary(f, a)
              /\ a.log = dl
              /\ rd.config = f[1].of
              /\ rd.last_position = (IF dl = <<>> THEN 0 ELSE SequenceAt(f, a) - 1)
              /\ rd.fetched = a.offset + Len(rd.cache)
              /\ Cached(f, a.offset, rd.cache, limit)

LEMMA FollowsGrowth ==
    ASSUME NEW f \in Seq(UnitSet), NEW u \in Seq(UnitSet), Padded = {},
           NEW rd \in ReaderType, NEW dl, NEW limit, Follows(f, rd, dl, limit)
    PROVE  Follows(f \o u, rd, dl, limit)
<1> DEFINE h == f \o u
<1>1. Segment(f) /\ Segment(h) /\ h[1] = f[1] /\ Agree(f, h, Len(f))
    BY SegmentConcat, ConcatAgree DEF Follows
<1> PICK a : /\ Boundary(f, a)
             /\ a.log = dl
             /\ rd.config = f[1].of
             /\ rd.last_position = (IF dl = <<>> THEN 0 ELSE SequenceAt(f, a) - 1)
             /\ rd.fetched = a.offset + Len(rd.cache)
             /\ Cached(f, a.offset, rd.cache, limit)
    BY DEF Follows
<1> HIDE DEF h
<1>2. a.offset \in Nat /\ a.offset <= Len(f) /\ Len(f) >= 2
    BY <1>1, BoundaryPlace, SegmentConfig
<1>3. Boundary(h, a)
    BY <1>1, <1>2, BoundaryAgree
<1>4. SequenceAt(h, a) = SequenceAt(f, a)
    BY <1>1 DEF SequenceAt
<1>5. rd.cache \in Seq(UnitSet)
    BY DEF ReaderType
<1>6. Cached(h, a.offset, rd.cache, limit)
    BY <1>1, <1>2, <1>5, CachedGrows
<1> QED BY <1>1, <1>3, <1>4, <1>6 DEF Follows, h

LEMMA FollowsCut ==
    ASSUME NEW f \in Seq(UnitSet), OneStream(f), Padded = {},
           scan(f).error = "IncompleteTrailingRecord",
           NEW rd \in ReaderType, NEW dl, NEW limit \in Nat,
           limit <= scan(f).offset, Follows(f, rd, dl, limit)
    PROVE  Follows(SubSeq(f, 1, scan(f).offset), rd, dl, scan(f).offset)
<1> DEFINE g == SubSeq(f, 1, scan(f).offset)
<1>1. /\ Segment(f)
      /\ Segment(g) /\ Agree(f, g, Len(g)) /\ Len(g) = scan(f).offset
    BY CutScan DEF Follows
<1> PICK a : /\ Boundary(f, a)
             /\ a.log = dl
             /\ rd.config = f[1].of
             /\ rd.last_position = (IF dl = <<>> THEN 0 ELSE SequenceAt(f, a) - 1)
             /\ rd.fetched = a.offset + Len(rd.cache)
             /\ Cached(f, a.offset, rd.cache, limit)
    BY DEF Follows
<1>5. rd.cache \in Seq(UnitSet)
    BY DEF ReaderType
<1>6. Cached(g, a.offset, rd.cache, Len(g))
    BY <1>1, <1>5, CachedCut
<1> HIDE DEF g
<1>2. a.offset <= Len(g) /\ Len(g) >= 2 /\ Len(g) \in Nat
    BY <1>1, EndUnique, SegmentConfig
<1>3. Boundary(g, a)
    BY <1>1, <1>2, BoundaryAgree
<1>7. f[1] = g[1]
    BY <1>1, <1>2 DEF Agree
<1>4. SequenceAt(g, a) = SequenceAt(f, a)
    BY <1>7 DEF SequenceAt
<1> QED BY <1>1, <1>3, <1>4, <1>6, <1>7 DEF Follows, g

LEMMA FollowsStart ==
    ASSUME NEW f, Segment(f), Padded = {}, NEW limit, NEW rd,
           rd = [state |-> "good", config |-> f[1].of,
                 cache |-> SubSeq(f, 3, Len(f)), fetched |-> Len(f),
                 last_position |-> 0]
    PROVE  rd \in ReaderType /\ Follows(f, rd, <<>>, limit)
<1>1. /\ f \in Seq(UnitSet) /\ Len(f) \in Nat /\ Len(f) >= 2 /\ f[1].of \in Configs
    BY SegmentConfig DEF Segment
<1> DEFINE cache == SubSeq(f, 3, Len(f))
<1>2. 2 \in Nat /\ 2 + 1 = 3
    OBVIOUS
<1>3. /\ cache \in Seq(UnitSet) /\ Len(cache) = Len(f) - 2
      /\ \A i \in 1..Len(f) - 2 : cache[i] = f[2 + i]
    BY <1>1, <1>2, RestOf
<1> HIDE DEF cache
<1>4. CacheFresh(f, 2, cache)
    BY <1>1, <1>3 DEF CacheFresh
<1>5. Boundary(f, Start) /\ Start.log = <<>> /\ Start.offset = 2
    BY StartBoundary DEF Start
<1>6. rd = [state |-> "good", config |-> f[1].of, cache |-> cache,
            fetched |-> Len(f), last_position |-> 0]
    BY DEF cache
<1>7. rd \in ReaderType
    BY <1>1, <1>3, <1>6 DEF ReaderType
<1>8. Len(f) = 2 + Len(cache)
    BY <1>1, <1>3
<1>9. Cached(f, 2, cache, limit)
    BY <1>4 DEF Cached
<1>10. /\ rd.config = f[1].of /\ rd.last_position = 0
       /\ rd.fetched = 2 + Len(rd.cache) /\ rd.cache = cache
    BY <1>6, <1>8
<1> QED BY <1>5, <1>7, <1>9, <1>10 DEF Follows

\* The sequence that a reader asks for.
LEMMA NextSequence ==
    ASSUME NEW f, Segment(f), Padded = {}, NEW a, Boundary(f, a), NEW lp,
           a.log = <<>> => lp = 0,
           a.log # <<>> => lp = SequenceAt(f, a) - 1
    PROVE  /\ SequenceAt(f, a) \in Nat
           /\ lp # 0 => lp + 1 = SequenceAt(f, a)
           /\ lp = 0 => f[1].of.first_sequence = SequenceAt(f, a)
<1>1. a.log \in Seq(Record) /\ f[1].of.first_sequence \in Nat \ {0}
    BY BoundaryPlace, SegmentConfig DEF Place
<1> DEFINE n == Len(a.log)
<1>2. n \in Nat /\ (a.log = <<>> <=> n = 0)
    BY <1>1
<1> HIDE DEF n
<1>3. SequenceAt(f, a) = f[1].of.first_sequence + n
    BY DEF SequenceAt, n
<1>4. SequenceAt(f, a) \in Nat
    BY <1>1, <1>2, <1>3
<1>5. CASE a.log = <<>>
  <2>1. lp = 0 /\ n = 0
      BY <1>2, <1>5
  <2>2. SequenceAt(f, a) = f[1].of.first_sequence
      BY <1>1, <1>3, <2>1
  <2> QED BY <1>4, <2>1, <2>2
<1>6. CASE a.log # <<>>
  <2>1. lp = SequenceAt(f, a) - 1 /\ n # 0
      BY <1>2, <1>6
  <2>2. \A x \in Nat \ {0} : \A y \in Nat \ {0} :
           (x + y) - 1 # 0 /\ ((x + y) - 1) + 1 = x + y
      OBVIOUS
  <2>3. lp # 0 /\ lp + 1 = SequenceAt(f, a)
      BY <1>1, <1>2, <1>3, <2>1, <2>2
  <2> QED BY <1>4, <2>3
<1> QED BY <1>5, <1>6

LEMMA SequenceBehind ==
    ASSUME NEW f, Segment(f), Padded = {}, NEW a, Boundary(f, a), NEW r \in Record
    PROVE  /\ After(a, r).log # <<>>
           /\ SequenceAt(f, After(a, r)) - 1 = SequenceAt(f, a)
<1>1. a.log \in Seq(Record) /\ f[1].of.first_sequence \in Nat \ {0}
    BY BoundaryPlace, SegmentConfig DEF Place
<1>2. /\ Append(a.log, r) # <<>> /\ Len(Append(a.log, r)) = Len(a.log) + 1
      /\ Len(a.log) \in Nat
    BY <1>1, AppendProperties
<1>3. After(a, r).log = Append(a.log, r)
    BY DEF After
<1> QED BY <1>1, <1>2, <1>3 DEF SequenceAt

\* One read of a reader rd: what it sees, and the reader rd2 that it leaves.
Reading(f, rd, s, kept, refill, units, frame, rd2) ==
    /\ s = (IF rd.last_position # 0 THEN rd.last_position + 1
            ELSE rd.config.first_sequence)
    /\ kept = Frame(rd.cache, rd.config, s)
    /\ refill \in BOOLEAN
    /\ refill = ~(\/ kept.kind = "Bad"
                  \/ /\ kept.kind = "Record"
                     /\ kept.used = Len(RecordUnits(rd.cache[1].of)))
    /\ units = (IF refill THEN rd.cache \o SubSeq(f, rd.fetched + 1, Len(f))
                ELSE rd.cache)
    /\ frame = Frame(units, rd.config, s)
    /\ rd2.config = rd.config
    /\ rd2.cache = SubSeq(units, frame.used + 1, Len(units))
    /\ rd2.fetched = (IF refill /\ Len(f) > rd.fetched THEN Len(f)
                      ELSE rd.fetched)
    /\ rd2.last_position = (IF frame.kind = "Record" THEN s ELSE rd.last_position)

\* What comes of it when the reader does not fail.
Returned(f, dl, limit, s, units, frame, rd2) ==
    /\ frame.kind = "Record" =>
         /\ \E a : Boundary(f, a) /\ a.log = dl /\ Stands(f, a, units[1].of)
         /\ units[1].of \in Record
         /\ rd2.cache \in Seq(UnitSet) /\ s \in Nat
         /\ Follows(f, rd2, Append(dl, units[1].of), limit)
    /\ frame.kind = "EndOfLog" =>
         rd2.cache \in Seq(UnitSet) /\ Follows(f, rd2, dl, limit)

LEMMA FollowsRead ==
    ASSUME NEW f, Segment(f), OneStream(f), Padded = {}, NEW base,
           Boundary(f, base), TailSafe(f, base.offset, SequenceAt(f, base)),
           NEW rd \in ReaderType, NEW dl, Follows(f, rd, dl, base.offset),
           NEW s, NEW kept, NEW refill, NEW units, NEW frame, NEW rd2,
           Reading(f, rd, s, kept, refill, units, frame, rd2)
    PROVE  Returned(f, dl, base.offset, s, units, frame, rd2)
<1>a. s = (IF rd.last_position # 0 THEN rd.last_position + 1
           ELSE rd.config.first_sequence)
    BY Zenon DEF Reading
<1>b. kept = Frame(rd.cache, rd.config, s) /\ frame = Frame(units, rd.config, s)
    BY Zenon DEF Reading
<1>c. /\ refill \in BOOLEAN
      /\ refill = ~(\/ kept.kind = "Bad"
                    \/ /\ kept.kind = "Record"
                       /\ kept.used = Len(RecordUnits(rd.cache[1].of)))
    BY Zenon DEF Reading
<1>d. units = (IF refill THEN rd.cache \o SubSeq(f, rd.fetched + 1, Len(f))
               ELSE rd.cache)
    BY Zenon DEF Reading
<1>e. /\ rd2.config = rd.config
      /\ rd2.cache = SubSeq(units, frame.used + 1, Len(units))
      /\ rd2.fetched = (IF refill /\ Len(f) > rd.fetched THEN Len(f)
                        ELSE rd.fetched)
      /\ rd2.last_position = (IF frame.kind = "Record" THEN s
                              ELSE rd.last_position)
    BY Zenon DEF Reading
<1> PICK a : /\ Boundary(f, a)
             /\ a.log = dl
             /\ rd.config = f[1].of
             /\ rd.last_position = (IF dl = <<>> THEN 0 ELSE SequenceAt(f, a) - 1)
             /\ rd.fetched = a.offset + Len(rd.cache)
             /\ Cached(f, a.offset, rd.cache, base.offset)
    BY DEF Follows
<1>1. /\ a \in Place /\ a.offset \in Nat /\ rd.config = f[1].of
    BY BoundaryPlace
<1>x. rd.cache \in Seq(UnitSet)
    BY DEF ReaderType
<1>2. s = SequenceAt(f, a) /\ s \in Nat
  <2> DEFINE lp == rd.last_position
  <2>1. /\ a.log = <<>> => lp = 0
        /\ a.log # <<>> => lp = SequenceAt(f, a) - 1
      OBVIOUS
  <2>2. s = (IF lp # 0 THEN lp + 1 ELSE f[1].of.first_sequence)
      BY <1>1, <1>a
  <2> HIDE DEF lp
  <2>3. /\ SequenceAt(f, a) \in Nat
        /\ lp # 0 => lp + 1 = SequenceAt(f, a)
        /\ lp = 0 => f[1].of.first_sequence = SequenceAt(f, a)
      BY <2>1, NextSequence
  <2> QED BY <2>2, <2>3
<1> DEFINE o == a.offset
           all == rd.cache \o SubSeq(f, (o + Len(rd.cache)) + 1, Len(f))
           upto == IF refill /\ Len(f) > o + Len(rd.cache) THEN Len(f)
                   ELSE o + Len(rd.cache)
<1>3. kept = Frame(rd.cache, f[1].of, SequenceAt(f, a))
    BY <1>1, <1>2, <1>b
<1>4. /\ (kept.kind = "Record" => kept.used # Len(RecordUnits(rd.cache[1].of)))
           => Onward(f, a, base.offset, all, Frame(all, f[1].of, SequenceAt(f, a)),
                     IF Len(f) > o + Len(rd.cache) THEN Len(f)
                     ELSE o + Len(rd.cache))
      /\ Onward(f, a, base.offset, rd.cache, kept, o + Len(rd.cache))
    BY <1>x, <1>3, OnwardCached
<1>5. /\ refill => units = all /\ upto = (IF Len(f) > o + Len(rd.cache) THEN Len(f)
                                         ELSE o + Len(rd.cache))
      /\ ~refill => units = rd.cache /\ upto = o + Len(rd.cache)
    BY <1>c, <1>d
<1>6. refill => (kept.kind = "Record" => kept.used # Len(RecordUnits(rd.cache[1].of)))
    BY <1>c
<1>7. frame = Frame(units, f[1].of, SequenceAt(f, a)) /\ rd2.fetched = upto
    BY <1>1, <1>2, <1>b, <1>e
<1> HIDE DEF all, upto
<1>8. Onward(f, a, base.offset, units, frame, upto)
  <2>1. CASE refill
    <3>1. frame = Frame(all, f[1].of, SequenceAt(f, a)) /\ units = all
        BY <1>5, <1>7, <2>1
    <3> QED BY <1>4, <1>5, <1>6, <2>1, <3>1
  <2>2. CASE ~refill
    <3>1. frame = kept /\ units = rd.cache
        BY <1>3, <1>5, <1>7, <2>2
    <3> QED BY <1>4, <1>5, <2>2, <3>1
  <2> QED BY <1>c, <2>1, <2>2
<1>9. ASSUME frame.kind = "Record"
      PROVE  /\ \E b : Boundary(f, b) /\ b.log = dl /\ Stands(f, b, units[1].of)
             /\ units[1].of \in Record
             /\ rd2.cache \in Seq(UnitSet) /\ s \in Nat
             /\ Follows(f, rd2, Append(dl, units[1].of), base.offset)
  <2> DEFINE r == units[1].of
             b == After(a, r)
             rest == SubSeq(units, frame.used + 1, Len(units))
  <2>1. /\ Stands(f, a, r)
        /\ rest \in Seq(UnitSet)
        /\ Cached(f, o + Size(r), rest, base.offset)
        /\ upto = (o + Size(r)) + Len(rest)
      BY <1>8, <1>9 DEF Onward
  <2>9. rd2.cache = rest /\ rd2.last_position = s
      BY <1>9, <1>e
  <2> HIDE DEF r, rest
  <2>2. Boundary(f, b)
      BY <2>1, NextBoundary
  <2>3. r \in Record
      BY <1>1, <2>1, RecordOf DEF Stands
  <2>4. b.log = Append(dl, r) /\ b.offset = o + Size(r)
      BY DEF After
  <2>5. Append(dl, r) # <<>> /\ SequenceAt(f, b) - 1 = s
      BY <1>2, <2>3, <2>4, SequenceBehind
  <2> HIDE DEF b
  <2>7. Follows(f, rd2, Append(dl, r), base.offset)
    <3>1. Segment(f) /\ rd2.config = f[1].of
        BY <1>1, <1>e
    <3>2. rd2.last_position = (IF Append(dl, r) = <<>> THEN 0 ELSE SequenceAt(f, b) - 1)
        BY <2>5, <2>9
    <3>3. rd2.fetched = b.offset + Len(rd2.cache)
        BY <1>7, <2>1, <2>4, <2>9
    <3>4. Cached(f, b.offset, rd2.cache, base.offset)
        BY <2>1, <2>4, <2>9
    <3> QED BY <2>2, <2>4, <3>1, <3>2, <3>3, <3>4 DEF Follows
  <2> QED BY <1>2, <2>1, <2>3, <2>7, <2>9 DEF r
<1>10. ASSUME frame.kind = "EndOfLog"
       PROVE  rd2.cache \in Seq(UnitSet) /\ Follows(f, rd2, dl, base.offset)
  <2> DEFINE rest == SubSeq(units, frame.used + 1, Len(units))
  <2>1. /\ rest = <<>>
        /\ Cached(f, o, rest, base.offset)
        /\ upto = o + Len(rest)
      BY <1>8, <1>10 DEF Onward
  <2>9. rd2.cache = rest /\ rd2.last_position = rd.last_position
      BY <1>10, <1>e
  <2> HIDE DEF rest
  <2>2. /\ rd2.config = f[1].of
        /\ rd2.last_position = (IF dl = <<>> THEN 0 ELSE SequenceAt(f, a) - 1)
        /\ rd2.fetched = o + Len(rd2.cache)
        /\ Cached(f, o, rd2.cache, base.offset)
      BY <1>1, <1>7, <1>e, <2>1, <2>9
  <2>3. rd2.cache \in Seq(UnitSet)
    <3>1. <<>> \in Seq(UnitSet)
        BY EmptySeq
    <3> QED BY <2>1, <2>9, <3>1, Zenon
  <2> QED BY <2>2, <2>3 DEF Follows
<1> QED BY <1>9, <1>10 DEF Returned
-----------------------------------------------------------------------------
(* What the writer's steps do to the file.                                 *)

LEMMA UnitsAssociative ==
    ASSUME NEW f \in Seq(UnitSet), NEW v \in Seq(UnitSet), NEW w \in Seq(UnitSet)
    PROVE  (f \o v) \o w = f \o (v \o w)
    BY ConcatAssociative

LEMMA SpilledStream ==
    ASSUME NEW f \in Seq(UnitSet), NEW u \in Seq(UnitSet), NEW k \in 0..Len(u)
    PROVE  /\ SubSeq(u, 1, k) \in Seq(UnitSet) /\ Len(SubSeq(u, 1, k)) = k
           /\ SubSeq(u, k + 1, Len(u)) \in Seq(UnitSet)
           /\ (f \o SubSeq(u, 1, k)) \o SubSeq(u, k + 1, Len(u)) = f \o u
<1> DEFINE v == SubSeq(u, 1, k)
           w == SubSeq(u, k + 1, Len(u))
<1>1. Len(u) \in Nat /\ k \in Nat /\ k <= Len(u)
    OBVIOUS
<1>2. \A i \in 1..k : u[i] \in UnitSet
    BY <1>1
<1>3. v \in Seq(UnitSet) /\ Len(v) = k /\ \A i \in 1..k : v[i] = u[i]
    BY <1>1, <1>2, SubSeqProperties
<1>4. /\ w \in Seq(UnitSet) /\ Len(w) = Len(u) - k
      /\ \A i \in 1..Len(u) - k : w[i] = u[k + i]
    BY <1>1, RestOf
<1> HIDE DEF v, w
<1>5. /\ v \o w \in Seq(UnitSet) /\ Len(v \o w) = Len(v) + Len(w)
      /\ \A i \in 1..Len(v) : (v \o w)[i] = v[i]
      /\ \A i \in 1..Len(w) : (v \o w)[Len(v) + i] = w[i]
    BY <1>3, <1>4, ConcatAgree
<1>6. v \o w = u
  <2> DEFINE x == v \o w
  <2> HIDE DEF x
  <2>1. x \in Seq(UnitSet) /\ Len(x) = Len(u)
      BY <1>1, <1>3, <1>4, <1>5 DEF x
  <2>2. ASSUME NEW i \in 1..Len(u) PROVE x[i] = u[i]
    <3>1. CASE i <= k
      <4>1. i \in 1..k
          BY <1>1, <3>1
      <4> QED BY <1>3, <1>5, <4>1 DEF x
    <3>2. CASE i > k
      <4> PICK j \in Nat : j = i - k
          BY <1>1, <3>2
      <4>1. j \in 1..Len(u) - k /\ k + j = i
          BY <1>1, <3>2
      <4>2. x[i] = w[j]
          BY <1>3, <1>4, <1>5, <4>1 DEF x
      <4>3. w[j] = u[k + j]
          BY <1>4, <4>1
      <4> QED BY <4>1, <4>2, <4>3
    <3> QED BY <1>1, <3>1, <3>2
  <2> QED BY <2>1, <2>2, SeqEqual DEF x
<1>7. (f \o v) \o w = f \o (v \o w)
  <2>1. v \in Seq(UnitSet) /\ w \in Seq(UnitSet)
      BY <1>3, <1>4
  <2> QED BY <2>1, UnitsAssociative
<1> QED BY <1>3, <1>4, <1>6, <1>7 DEF v, w

\* A stream before any of it is written.
LEMMA ContinuesStream ==
    ASSUME NEW f \in Seq(UnitSet), NEW u \in Seq(UnitSet)
    PROVE  Continues(f, Len(f), u, f \o u)
<1> DEFINE h == f \o u
<1>1. /\ h \in Seq(UnitSet) /\ Len(h) = Len(f) + Len(u)
      /\ \A i \in 1..Len(u) : h[Len(f) + i] = u[i]
      /\ Agree(f, h, Len(f))
    BY ConcatAgree
<1> HIDE DEF h
<1>2. Len(f) \in Nat /\ Len(u) \in Nat
    OBVIOUS
<1>3. Len(f) \in 0..Len(f) /\ Len(f) + Len(u) <= Len(h)
    BY <1>1, <1>2
<1> QED BY <1>1, <1>3 DEF Continues, h

\* A stream of which a failing write has handed some units to the file.
LEMMA FailedWrite ==
    ASSUME NEW f \in Seq(UnitSet), NEW u \in Seq(UnitSet), NEW k \in 0..Len(u),
           NEW n \in 0..Len(u)
    PROVE  /\ Continues(f, Len(f), SubSeq(u, 1, k), f \o u)
           /\ Continues(f \o SubSeq(u, 1, k), Len(f), SubSeq(u, 1, n), f \o u)
<1> DEFINE v == SubSeq(u, 1, k)
           w == SubSeq(u, k + 1, Len(u))
           x == SubSeq(u, 1, n)
           g == f \o u
           h == f \o v
<1>1. Continues(f, Len(f), v, g) /\ Continues(f, Len(f), x, g)
    BY ContinuesStream, ContinuesPart
<1>2. v \in Seq(UnitSet) /\ w \in Seq(UnitSet) /\ h \o w = g
    BY SpilledStream
<1> HIDE DEF v, w, x, g
<1>3. /\ h \in Seq(UnitSet) /\ Len(h) = Len(f) + Len(v)
    BY <1>2, ConcatAgree
<1>4. Agree(h, g, Len(h))
  <2> HIDE DEF h
  <2> QED BY <1>2, <1>3, ConcatAgree
<1>5. Len(f) \in 0..Len(h)
    BY <1>2, <1>3
<1> HIDE DEF h
<1>6. Continues(h, Len(f), x, g)
    BY <1>1, <1>3, <1>4, <1>5 DEF Continues
<1> QED BY <1>1, <1>6 DEF v, x, g, h

\* What a reader has returned, and where it stands if it has not failed.
Reads(f, rd, dl, limit) ==
    /\ IsPrefix(dl, scan(f).log)
    /\ rd.state # "failed" => Follows(f, rd, dl, limit)

\* A step that adds units of the writer's stream to the file.
LEMMA WriteKeeps ==
    ASSUME NEW c, NEW g, Clean(g, c), Padded = {}, NEW base, Boundary(g, base),
           NEW f, NEW u, NEW m, Continues(f, m, u, g),
           m >= base.offset \/ base = Start, Settled(f, base),
           NEW rd \in ReaderType, NEW dl \in Seq(Record),
           Reads(f, rd, dl, base.offset)
    PROVE  /\ Settled(f \o u, base)
           /\ Reads(f \o u, rd, dl, base.offset)
           /\ IsPrefix(scan(f).log, scan(f \o u).log)
           /\ Range(scan(f).log) \subseteq Range(scan(f \o u).log)
<1> DEFINE h == f \o u
<1>1. f \in Seq(UnitSet) /\ u \in Seq(UnitSet)
    BY DEF Continues
<1>2. /\ h \in Seq(UnitSet)
      /\ IsPrefix(scan(f).log, scan(h).log)
      /\ ValidSegment(f) => ValidSegment(h)
    BY <1>1, LogGrows
<1>3. ValidSegment(h) \/ base = Start
    BY <1>2 DEF Settled
<1>4. Settled(h, base)
    BY <1>3, RestartSettled
<1>5. rd.state # "failed" => Follows(h, rd, dl, base.offset)
    BY <1>1, FollowsGrowth DEF Reads
<1> HIDE DEF h
<1>6. scan(f).log \in Seq(Record) /\ scan(h).log \in Seq(Record)
    BY <1>1, <1>2, ScanLog
<1>7. IsPrefix(dl, scan(h).log)
    BY <1>2, <1>6, PrefixTrans DEF Reads
<1>8. Range(scan(f).log) \subseteq Range(scan(h).log)
    BY <1>2, <1>6, PrefixRange
<1> QED BY <1>2, <1>4, <1>5, <1>7, <1>8 DEF Reads, h

\* A step that cuts a torn tail.
LEMMA CutKeeps ==
    ASSUME NEW f, NEW base, Settled(f, base), Padded = {},
           NEW rd \in ReaderType, NEW dl \in Seq(Record),
           Reads(f, rd, dl, base.offset)
    PROVE  \E b : /\ Settled(CutTornTail(f), b)
                  /\ Reads(CutTornTail(f), rd, dl, b.offset)
                  /\ scan(CutTornTail(f)).log = scan(f).log
                  /\ ValidSegment(f) /\ Recoverable(scan(f).error) =>
                        /\ Clean(CutTornTail(f), f[1].of)
                        /\ Boundary(CutTornTail(f), b)
                        /\ Len(CutTornTail(f)) >= b.offset
<1>1. CASE scan(f).error # "IncompleteTrailingRecord"
  <2>1. CutTornTail(f) = f
      BY <1>1 DEF CutTornTail
  <2>2. ASSUME ValidSegment(f), Recoverable(scan(f).error)
        PROVE  /\ Clean(f, f[1].of) /\ Boundary(f, base) /\ Len(f) >= base.offset
    <3>1. Segment(f) /\ OneStream(f) /\ Boundary(f, base)
        BY <2>2 DEF Settled, Segment
    <3>2. scan(f).error = "None"
        BY <1>1, <2>2 DEF Recoverable
    <3>3. base.offset \in Nat /\ base.offset <= Len(f) /\ Len(f) \in Nat
        BY <3>1, BoundaryPlace, SegmentConfig
    <3> QED BY <3>1, <3>2, <3>3 DEF Clean
  <2> QED BY <2>1, <2>2
<1>2. CASE scan(f).error = "IncompleteTrailingRecord"
  <2> DEFINE g == SubSeq(f, 1, scan(f).offset)
             b == End(g)
             n == scan(f).offset
  <2>1. ValidSegment(f)
      BY <1>2 DEF scan
  <2>2. Segment(f) /\ OneStream(f) /\ Boundary(f, base) /\ f \in Seq(UnitSet)
      BY <2>1 DEF Settled, Segment
  <2>3. /\ Segment(g) /\ Agree(f, g, Len(g)) /\ Len(g) = n
        /\ scan(g).error = "None"
        /\ scan(g).log = scan(f).log
        /\ scan(g).offset = Len(g)
      BY <2>2, CutScan
  <2>4. base.offset \in Nat /\ base.offset <= n
      BY <2>2, BoundaryPlace, EndUnique
  <2>5. rd.state # "failed" => Follows(g, rd, dl, n)
      BY <1>2, <2>2, <2>4, FollowsCut DEF Reads
  <2>6. CutTornTail(f) = g
      BY <1>2 DEF CutTornTail
  <2> HIDE DEF g, n
  <2>7. /\ Boundary(g, b) /\ b.offset = n /\ Len(g) \in Nat
        /\ Len(g) >= 2 /\ g \in Seq(UnitSet)
    <3>1. b.offset = scan(g).offset
        BY DEF End
    <3> QED BY <2>3, <3>1, ScanEnd, SegmentConfig DEF Segment
  <2> HIDE DEF b
  <2>8. f[1] = g[1]
      BY <2>3, <2>7 DEF Agree
  <2>9. OneStream(g)
    <3> SUFFICES ASSUME NEW i \in 1..Len(g), g[i].part \in {"header_front", "header_back"}
                 PROVE  g[i].of.config = g[1].of
        BY DEF OneStream
    <3>1. f[i] = g[i] /\ i \in 1..Len(f)
        BY <2>2, <2>3, <2>7 DEF Agree
    <3> QED BY <2>2, <2>8, <3>1 DEF OneStream
  <2>10. Settled(g, b)
    <3>1. \A k \in {1, 2, 3} : ~(b.offset + k <= Len(g))
        BY <2>3, <2>7
    <3>2. TailSafe(g, b.offset, SequenceAt(g, b))
        BY <3>1 DEF TailSafe
    <3>3. ValidSegment(g)
        BY <2>3 DEF Segment
    <3> QED BY <2>7, <2>9, <3>2, <3>3 DEF Settled
  <2>11. Reads(g, rd, dl, b.offset)
      BY <2>3, <2>5, <2>7 DEF Reads
  <2>12. Clean(g, f[1].of) /\ Len(g) >= b.offset
      BY <2>3, <2>7, <2>8, <2>9 DEF Clean
  <2> QED BY <2>3, <2>6, <2>7, <2>10, <2>11, <2>12
<1> QED BY <1>1, <1>2

\* The sequence a reopened writer continues with.
LEMMA ReopenSequence ==
    ASSUME NEW f, Segment(f), Padded = {}
    PROVE  LET log == scan(f).log
           IN  /\ SequenceAfter(log, f[1].of) = f[1].of.first_sequence + Len(log)
               /\ log # <<>> =>
                     /\ Last(log).sequence \in Nat
                     /\ Last(log).sequence = SequenceAfter(log, f[1].of) - 1
<1> DEFINE log == scan(f).log
<1>1. /\ End(f).log = log
    BY DEF End
<1>2. /\ log \in Seq(Record)
      /\ \A i \in 1..Len(log) : log[i].sequence = f[1].of.first_sequence + i - 1
    BY <1>1, ScanEnd, BoundaryLog
<1>3. f[1].of.first_sequence \in Nat
    BY SegmentConfig
<1> HIDE DEF log
<1>4. CASE log = <<>>
  <2>1. Len(log) = 0
      BY <1>4
  <2>2. SequenceAfter(log, f[1].of) = f[1].of.first_sequence
      BY <1>4 DEF SequenceAfter
  <2> QED BY <1>3, <1>4, <2>1, <2>2 DEF log
<1>5. CASE log # <<>>
  <2>1. Len(log) \in Nat /\ Len(log) \in 1..Len(log)
      BY <1>2, <1>5
  <2>2. Last(log).sequence = f[1].of.first_sequence + Len(log) - 1
      BY <1>2, <2>1 DEF Last
  <2>3. SequenceAfter(log, f[1].of) = Last(log).sequence + 1
      BY <1>5 DEF SequenceAfter
  <2>4. \A x \in Nat : \A y \in Nat : y >= 1 =>
            (x + y - 1) + 1 = x + y /\ x + y - 1 \in Nat /\ (x + y) - 1 = x + y - 1
      OBVIOUS
  <2>5. Len(log) >= 1
      BY <2>1
  <2>6. /\ SequenceAfter(log, f[1].of) = f[1].of.first_sequence + Len(log)
        /\ Last(log).sequence \in Nat
      BY <1>3, <2>1, <2>2, <2>3, <2>4, <2>5
  <2>7. Last(log).sequence = SequenceAfter(log, f[1].of) - 1
      BY <2>3, <2>6
  <2> QED BY <2>6, <2>7 DEF log
<1> QED BY <1>4, <1>5
-----------------------------------------------------------------------------
(* The inductive invariant.                                                *)

Types ==
    /\ stream_buffer \in Seq(UnitSet)
    /\ writer \in WalError \union {"closed"}
    /\ writer = "closed" => stream_buffer = <<>>
    /\ config \in Configs
    /\ next_sequence \in Nat
    /\ last_position \in Nat
    /\ last_committed_position \in Nat
    /\ pending_positions \in Seq(Record)
    /\ committed_positions \in Seq(Record)
    /\ reader \in ReaderType
    /\ reader.fetched >= Len(reader.cache)
    /\ delivered \in Seq(Record)
    /\ acknowledged \subseteq Record

\* A healthy writer's stream completes the file to a clean log; of a writer that
\* has failed, the stream holds units of such a log that begin no further in
\* front than the place of the last cut.
WriterAt(base) ==
    IF writer = "None"
    THEN LET g == file \o stream_buffer
         IN  /\ Clean(g, config)
             /\ Boundary(g, base)
             /\ Len(file) >= base.offset \/ base = Start
             /\ next_sequence = config.first_sequence + Len(scan(g).log)
             /\ Range(pending_positions) \subseteq Range(scan(g).log)
    ELSE \/ stream_buffer = <<>>
         \/ \E g, m : /\ Clean(g, config)
                      /\ Boundary(g, base)
                      /\ Continues(file, m, stream_buffer, g)
                      /\ m >= base.offset \/ base = Start

SegmentAt(base) ==
    /\ Settled(file, base)
    /\ WriterAt(base)
    /\ Reads(file, reader, delivered, base.offset)

\* What was acknowledged or published is in the file.
Kept ==
    /\ acknowledged \subseteq Range(scan(file).log)
    /\ Range(committed_positions) \subseteq Range(scan(file).log)

Queue == committed_positions \o pending_positions

QueueInv ==
    /\ \A i \in 1..Len(Queue) :
          Queue[i].sequence = last_position - Len(Queue) + i
    /\ last_committed_position # 0 =>
          Len(pending_positions) = last_position - last_committed_position
    /\ Queue # <<>> \/ last_committed_position # 0 =>
          last_position = next_sequence - 1

IInv == Types /\ QueueInv /\ Kept /\ \E base : SegmentAt(base)

\* The records are whole multiples of 8 bytes and a writer is opened with ids,
\* an epoch and a first sequence that the reader of a header accepts.
Application == Padded = {} /\ \A c \in Configs : has_valid_static_fields(c)

LEMMA InitHolds ==
    ASSUME Application, Init
    PROVE  IInv
<1>1. /\ <<>> \in Seq(UnitSet) /\ <<>> \in Seq(Record) /\ Len(<<>>) = 0
      /\ 0 \in Nat
    BY EmptySeq
<1>2. reader \in ReaderType /\ reader.state = "failed" /\ reader.fetched >= Len(reader.cache)
    BY <1>1 DEF Init, ReaderType
<1>3. Types
    BY <1>1, <1>2 DEF Init, Types
<1>4. Range(<<>>) = {}
    BY <1>1, LenProperties DEF Range
<1>5. Kept
    BY <1>4 DEF Init, Kept
<1>6. QueueInv
  <2>1. Queue = <<>>
      BY <1>1, ConcatEmptySeq DEF Init, Queue
  <2> QED BY <1>1, <2>1 DEF Init, QueueInv
<1>7. ~ValidSegment(file) /\ scan(file).log = <<>>
  <2>1. ~ValidSegment(file)
      BY <1>1 DEF Init, ValidSegment
  <2> QED BY <2>1 DEF scan
<1>8. Settled(file, Start)
    BY <1>1, <1>7 DEF Settled, Init, OneStream
<1>9. WriterAt(Start)
    BY DEF Init, WriterAt
<1>10. Reads(file, reader, delivered, Start.offset)
    BY <1>1, <1>2, <1>7, PrefixRefl DEF Reads, Init
<1> QED BY <1>3, <1>5, <1>6, <1>8, <1>9, <1>10 DEF IInv, SegmentAt
-----------------------------------------------------------------------------
(* What each step does to the file and to who is at work on it.            *)

\* The step keeps the segment in order and takes nothing out of its log.
SegmentKept ==
    /\ \E b : SegmentAt(b)'
    /\ IsPrefix(scan(file).log, scan(file').log)

LEMMA SameLog ==
    ASSUME NEW base, Settled(file, base), Padded = {}, UNCHANGED file
    PROVE  IsPrefix(scan(file).log, scan(file').log)
<1>1. scan(file).log \in Seq(Record)
    BY ScanLog DEF Settled
<1> QED BY <1>1, PrefixRefl

LEMMA EmptyRange == Range(<<>>) = {}
<1>1. Len(<<>>) = 0 /\ <<>> \in Seq(Nat)
    BY EmptySeq
<1> QED BY <1>1, LenProperties DEF Range

LEMMA AppendRange ==
    ASSUME NEW T, NEW s \in Seq(T), NEW x \in T
    PROVE  /\ Len(Append(s, x)) = Len(s) + 1
           /\ Range(Append(s, x)) = Range(s) \union {x}
<1> DEFINE t == Append(s, x)
<1>1. /\ t \in Seq(T) /\ Len(t) = Len(s) + 1 /\ Len(s) \in Nat
      /\ \A i \in 1..Len(s) : t[i] = s[i]
      /\ t[Len(s) + 1] = x
    BY AppendProperties
<1> HIDE DEF t
<1>2. DOMAIN s = 1..Len(s) /\ DOMAIN t = 1..Len(t)
    BY <1>1, LenProperties
<1>3. ASSUME NEW i \in 1..Len(t) PROVE t[i] \in Range(s) \union {x}
  <2>1. i \in 1..Len(s) \/ i = Len(s) + 1
      BY <1>1
  <2> QED BY <1>1, <1>2, <2>1 DEF Range
<1>4. ASSUME NEW i \in 1..Len(s) PROVE s[i] \in Range(t)
  <2>1. i \in 1..Len(t) /\ t[i] = s[i]
      BY <1>1
  <2> QED BY <1>2, <2>1 DEF Range
<1>5. x \in Range(t)
  <2>1. Len(s) + 1 \in 1..Len(t)
      BY <1>1
  <2> QED BY <1>1, <1>2, <2>1 DEF Range
<1>6. Range(t) \subseteq Range(s) \union {x}
    BY <1>2, <1>3 DEF Range
<1>7. Range(s) \subseteq Range(t)
    BY <1>2, <1>4 DEF Range
<1> QED BY <1>1, <1>5, <1>6, <1>7 DEF t

LEMMA CreateStep ==
    ASSUME Application, IInv, NEW c \in Configs, CreateSegment(c)
    PROVE  SegmentKept
<1> PICK base : SegmentAt(base)
    BY DEF IInv
<1>1. /\ file = <<>> /\ file' = file /\ reader' = reader /\ delivered' = delivered
      /\ config' = c /\ pending_positions' = <<>> /\ next_sequence' = c.first_sequence
      /\ \/ writer' = "None" /\ stream_buffer' = SegmentHeader(c)
         \/ writer' = "CannotWriteFile" /\ stream_buffer' = <<>>
    BY DEF CreateSegment, FreshWriter, readervars
<1>2. Padded = {} /\ has_valid_static_fields(c) /\ c.first_sequence \in Nat
    BY ConfigAssumption DEF Application
<1>3. base = Start /\ Settled(file, base)
  <2>1. ~ValidSegment(file)
      BY <1>1 DEF ValidSegment
  <2> QED BY <2>1 DEF SegmentAt, Settled
<1>4. Settled(file, base)' /\ Reads(file, reader, delivered, base.offset)'
    BY <1>1 DEF SegmentAt
<1>5. ASSUME writer' = "None", stream_buffer' = SegmentHeader(c)
      PROVE  WriterAt(base)'
  <2>1. /\ Clean(SegmentHeader(c), c)
        /\ scan(SegmentHeader(c)).log = <<>>
        /\ Boundary(SegmentHeader(c), Start)
      BY <1>2, CleanHeader
  <2> DEFINE h == SegmentHeader(c)
  <2> HIDE DEF h
  <2>2. file' \o stream_buffer' = h
    <3>1. h \in Seq(UnitSet)
        BY <2>1 DEF h, Clean, Segment
    <3> QED BY <1>1, <1>5, <3>1, ConcatEmptySeq DEF h
  <2>3. Range(pending_positions') = {}
      BY <1>1, EmptyRange
  <2>4. next_sequence' = c.first_sequence + Len(scan(h).log)
    <3>1. Len(scan(h).log) = 0
        BY <2>1 DEF h
    <3> QED BY <1>1, <1>2, <3>1
  <2>5. /\ Clean(h, c) /\ Boundary(h, base)
      BY <1>3, <2>1 DEF h
  <2> QED BY <1>1, <1>3, <1>5, <2>2, <2>3, <2>4, <2>5 DEF WriterAt
<1>6. ASSUME writer' = "CannotWriteFile", stream_buffer' = <<>>
      PROVE  WriterAt(base)'
    BY <1>6 DEF WriterAt
<1> QED BY <1>1, <1>2, <1>3, <1>4, <1>5, <1>6, SameLog DEF SegmentKept, SegmentAt

LEMMA ReopenStep ==
    ASSUME Application, IInv, NEW c \in Configs, ReopenSegment(c)
    PROVE  SegmentKept
<1> PICK base : SegmentAt(base)
    BY DEF IInv
<1>1. /\ reader' = reader /\ delivered' = delivered
      /\ config' = c /\ pending_positions' = <<>> /\ stream_buffer' = <<>>
    BY DEF ReopenSegment, FreshWriter, readervars
<1>2. Padded = {} /\ Settled(file, base) /\ Reads(file, reader, delivered, base.offset)
      /\ reader \in ReaderType /\ delivered \in Seq(Record)
    BY DEF Application, SegmentAt, IInv, Types
<1>3. CASE writer' # "None" /\ file' = file
  <2>1. WriterAt(base)'
      BY <1>1, <1>3 DEF WriterAt
  <2>2. Settled(file, base)' /\ Reads(file, reader, delivered, base.offset)'
      BY <1>1, <1>2, <1>3
  <2> QED BY <1>2, <1>3, <2>1, <2>2, SameLog DEF SegmentKept, SegmentAt
<1>4. CASE /\ ValidSegment(file) /\ file[1].of = c
           /\ Recoverable(scan(file).error)
           /\ file' = CutTornTail(file)
           /\ writer' = "None"
           /\ next_sequence' = SequenceAfter(scan(file).log, c)
  <2> PICK b : /\ Settled(CutTornTail(file), b)
               /\ Reads(CutTornTail(file), reader, delivered, b.offset)
               /\ scan(CutTornTail(file)).log = scan(file).log
               /\ Clean(CutTornTail(file), file[1].of)
               /\ Boundary(CutTornTail(file), b)
               /\ Len(CutTornTail(file)) >= b.offset
      BY <1>2, <1>4, CutKeeps
  <2>1. Settled(file, b)' /\ Reads(file, reader, delivered, b.offset)'
      BY <1>1, <1>4
  <2>2. file' \in Seq(UnitSet) /\ file' \o <<>> = file'
    <3>1. file' \in Seq(UnitSet)
        BY <1>4 DEF Clean, Segment
    <3> QED BY <3>1, ConcatEmptySeq
  <2>3. next_sequence' = c.first_sequence + Len(scan(file').log)
      BY <1>2, <1>4, ReopenSequence DEF Settled, Segment
  <2>4. Range(pending_positions') = {}
      BY <1>1, EmptyRange
  <2>5. WriterAt(b)'
      BY <1>1, <1>4, <2>2, <2>3, <2>4 DEF WriterAt
  <2>6. IsPrefix(scan(file).log, scan(file').log)
    <3>1. scan(file).log \in Seq(Record)
        BY <1>2, ScanLog DEF Settled
    <3> QED BY <1>4, <3>1, PrefixRefl
  <2> QED BY <2>1, <2>5, <2>6 DEF SegmentKept, SegmentAt
<1>5. \/ writer' # "None" /\ file' = file
      \/ /\ ValidSegment(file) /\ file[1].of = c
         /\ Recoverable(scan(file).error)
         /\ file' = CutTornTail(file)
         /\ writer' = "None"
         /\ next_sequence' = SequenceAfter(scan(file).log, c)
    BY DEF ReopenSegment, Recoverable
<1> QED BY <1>3, <1>4, <1>5

LEMMA RecoverStep ==
    ASSUME Application, IInv, recover_wal_segment
    PROVE  SegmentKept
<1> PICK base : SegmentAt(base)
    BY DEF IInv
<1>1. /\ reader' = reader /\ delivered' = delivered
      /\ writer' = "closed" /\ stream_buffer' = <<>>
      /\ file' = CutTornTail(file)
    BY DEF recover_wal_segment, writervars, readervars, IInv, Types
<1>2. Padded = {} /\ Settled(file, base) /\ Reads(file, reader, delivered, base.offset)
      /\ reader \in ReaderType /\ delivered \in Seq(Record)
    BY DEF Application, SegmentAt, IInv, Types
<1> PICK b : /\ Settled(CutTornTail(file), b)
             /\ Reads(CutTornTail(file), reader, delivered, b.offset)
             /\ scan(CutTornTail(file)).log = scan(file).log
    BY <1>2, CutKeeps
<1>3. WriterAt(b)'
    BY <1>1 DEF WriterAt
<1>4. Settled(file, b)' /\ Reads(file, reader, delivered, b.offset)'
    BY <1>1
<1>5. IsPrefix(scan(file).log, scan(file').log)
  <2>1. scan(file).log \in Seq(Record)
      BY <1>2, ScanLog DEF Settled
  <2> QED BY <1>1, <2>1, PrefixRefl
<1> QED BY <1>3, <1>4, <1>5 DEF SegmentKept, SegmentAt

\* A step of the writer that writes units of its stream.
LEMMA WriteStep ==
    ASSUME Application, IInv, NEW base, SegmentAt(base), NEW c,
           NEW g, Clean(g, c), Boundary(g, base),
           NEW u, NEW m, Continues(file, m, u, g),
           m >= base.offset \/ base = Start,
           file' = file \o u, reader' = reader, delivered' = delivered
    PROVE  /\ Settled(file, base)' /\ Reads(file, reader, delivered, base.offset)'
           /\ IsPrefix(scan(file).log, scan(file').log)
<1>1. Padded = {} /\ Settled(file, base) /\ Reads(file, reader, delivered, base.offset)
      /\ reader \in ReaderType /\ delivered \in Seq(Record)
    BY DEF Application, SegmentAt, IInv, Types
<1>2. /\ Settled(file \o u, base)
      /\ Reads(file \o u, reader, delivered, base.offset)
      /\ IsPrefix(scan(file).log, scan(file \o u).log)
    BY <1>1, WriteKeeps
<1> QED BY <1>2

LEMMA HealthyWriter ==
    ASSUME Application, IInv, NEW base, SegmentAt(base), writer = "None"
    PROVE  LET g == file \o stream_buffer
           IN  /\ file \in Seq(UnitSet) /\ stream_buffer \in Seq(UnitSet)
               /\ Len(file) \in Nat /\ Padded = {} /\ Settled(file, base)
               /\ Clean(g, config) /\ Boundary(g, base)
               /\ Len(file) >= base.offset \/ base = Start
               /\ next_sequence = config.first_sequence + Len(scan(g).log)
               /\ Range(pending_positions) \subseteq Range(scan(g).log)
               /\ Continues(file, Len(file), stream_buffer, g)
<1>1. file \in Seq(UnitSet) /\ stream_buffer \in Seq(UnitSet) /\ Settled(file, base)
    BY DEF SegmentAt, Settled, IInv, Types
<1>2. Len(file) \in Nat /\ Continues(file, Len(file), stream_buffer, file \o stream_buffer)
    BY <1>1, ContinuesStream
<1>3. LET g == file \o stream_buffer
      IN  /\ Clean(g, config) /\ Boundary(g, base)
          /\ Len(file) >= base.offset \/ base = Start
          /\ next_sequence = config.first_sequence + Len(scan(g).log)
          /\ Range(pending_positions) \subseteq Range(scan(g).log)
    BY DEF SegmentAt, WriterAt
<1> QED BY <1>1, <1>2, <1>3 DEF Application

\* A write or a flush that fails.
LEMMA FailStep ==
    ASSUME Application, IInv, NEW base, SegmentAt(base), writer = "None",
           NEW held \in Seq(UnitSet), Clean(file \o held, config),
           Boundary(file \o held, base), NEW error, error # "None",
           StreamFails(held, error),
           config' = config, reader' = reader, delivered' = delivered
    PROVE  SegmentKept
<1> DEFINE g == file \o held
           m == Len(file)
<1>1. /\ file \in Seq(UnitSet) /\ m \in Nat
      /\ m >= base.offset \/ base = Start
    BY HealthyWriter
<1> PICK k \in 0..Len(held) : file' = file \o SubSeq(held, 1, k)
    BY DEF StreamFails
<1> PICK n \in Len(stream_buffer)..Len(held) : stream_buffer' = SubSeq(held, 1, n)
    BY DEF StreamFails
<1>2. n \in 0..Len(held)
  <2>1. Len(stream_buffer) \in Nat /\ Len(held) \in Nat
      BY HealthyWriter
  <2> QED BY <2>1
<1>3. /\ Continues(file, m, SubSeq(held, 1, k), g)
      /\ Continues(file', m, stream_buffer', g)
    BY <1>1, <1>2, FailedWrite
<1>4. writer' = error
    BY DEF StreamFails
<1> HIDE DEF m, g
<1>5. Clean(g, config) /\ Boundary(g, base)
    BY DEF g
<1>6. /\ Settled(file, base)' /\ Reads(file, reader, delivered, base.offset)'
      /\ IsPrefix(scan(file).log, scan(file').log)
    BY <1>1, <1>3, <1>5, WriteStep
<1>7. WriterAt(base)'
    BY <1>1, <1>3, <1>4, <1>5 DEF WriterAt
<1> QED BY <1>6, <1>7 DEF SegmentKept, SegmentAt

LEMMA AppendHeld ==
    ASSUME Application, IInv, NEW base, SegmentAt(base), writer = "None",
           NEW p \in Payload, NEW r,
           r = [config |-> config, sequence |-> next_sequence, payload |-> p]
    PROVE  LET g == file \o stream_buffer
               held == stream_buffer \o RecordUnits(r)
           IN  /\ r \in Record /\ held \in Seq(UnitSet)
               /\ Clean(file \o held, config) /\ Boundary(file \o held, base)
               /\ scan(file \o held).log = Append(scan(g).log, r)
<1> DEFINE g == file \o stream_buffer
           u == RecordUnits(r)
           held == stream_buffer \o u
<1>1. /\ file \in Seq(UnitSet) /\ stream_buffer \in Seq(UnitSet) /\ Padded = {}
      /\ Clean(g, config) /\ Boundary(g, base)
      /\ next_sequence = config.first_sequence + Len(scan(g).log)
    BY HealthyWriter
<1>2. r \in Record
  <2>1. config \in Configs /\ next_sequence \in Nat
      BY DEF IInv, Types
  <2> QED BY <2>1 DEF Record
<1>3. u \in Seq(UnitSet)
    BY <1>1, <1>2, UnitsOfRecord
<1> HIDE DEF u
<1>4. held \in Seq(UnitSet)
    BY <1>1, <1>3, ConcatAgree
<1>5. file \o held = g \o u
    BY <1>1, <1>3, UnitsAssociative
<1> HIDE DEF g, held
<1>6. /\ Clean(g \o u, config)
      /\ scan(g \o u).log = Append(scan(g).log, r)
      /\ Agree(g, g \o u, Len(g))
    BY <1>1, <1>2, CleanAppend DEF u
<1>7. Boundary(g \o u, base)
  <2>1. Segment(g) /\ Segment(g \o u) /\ Len(g) \in Nat /\ Len(g) >= 2
      BY <1>1, <1>6, SegmentConfig DEF Clean
  <2>2. base.offset <= Len(g)
      BY <1>1, <2>1, BoundaryPlace
  <2> QED BY <1>1, <1>6, <2>1, <2>2, BoundaryAgree
<1> QED BY <1>2, <1>4, <1>5, <1>6, <1>7 DEF g, held, u

LEMMA AppendStep ==
    ASSUME Application, IInv, NEW p \in Payload, append(p)
    PROVE  SegmentKept
<1> PICK base : SegmentAt(base)
    BY DEF IInv
<1> DEFINE r == [config |-> config, sequence |-> next_sequence, payload |-> p]
           held == stream_buffer \o RecordUnits(r)
           g == file \o stream_buffer
<1>1. /\ writer = "None" /\ config' = config /\ reader' = reader
      /\ delivered' = delivered
      /\ \/ /\ stream_buffer' = held
            /\ next_sequence' = next_sequence + 1
            /\ pending_positions' = Append(pending_positions, r)
            /\ UNCHANGED <<file, writer>>
         \/ StreamFails(held, "CannotWriteFile")
    BY DEF append, readervars
<1> HIDE DEF r
<1>2. /\ r \in Record /\ held \in Seq(UnitSet)
      /\ Clean(file \o held, config) /\ Boundary(file \o held, base)
      /\ scan(file \o held).log = Append(scan(g).log, r)
    BY <1>1, AppendHeld DEF r
<1> HIDE DEF held
<1>3. CASE StreamFails(held, "CannotWriteFile")
    BY <1>1, <1>2, <1>3, FailStep
<1>4. CASE /\ stream_buffer' = held
           /\ next_sequence' = next_sequence + 1
           /\ pending_positions' = Append(pending_positions, r)
           /\ UNCHANGED <<file, writer>>
  <2>1. /\ Padded = {} /\ Settled(file, base) /\ Clean(g, config)
        /\ Len(file) >= base.offset \/ base = Start
        /\ next_sequence = config.first_sequence + Len(scan(g).log)
        /\ Range(pending_positions) \subseteq Range(scan(g).log)
      BY <1>1, HealthyWriter
  <2> HIDE DEF g
  <2>2. Settled(file, base)' /\ Reads(file, reader, delivered, base.offset)'
      BY <1>1, <1>4 DEF SegmentAt
  <2>3. scan(g).log \in Seq(Record) /\ pending_positions \in Seq(Record)
        /\ config.first_sequence \in Nat
      BY <2>1, ScanLog, ConfigAssumption DEF Clean, Segment, IInv, Types
  <2>4. /\ Len(Append(scan(g).log, r)) = Len(scan(g).log) + 1
        /\ Range(Append(scan(g).log, r)) = Range(scan(g).log) \union {r}
        /\ Range(Append(pending_positions, r)) = Range(pending_positions) \union {r}
      BY <1>2, <2>3, AppendRange
  <2>5. next_sequence' = config.first_sequence + Len(scan(file \o held).log)
    <3>1. Len(scan(g).log) \in Nat
        BY <2>3
    <3> QED BY <1>2, <1>4, <2>1, <2>3, <2>4, <3>1
  <2>6. Range(pending_positions') \subseteq Range(scan(file \o held).log)
      BY <1>2, <1>4, <2>1, <2>4
  <2>7. WriterAt(base)'
      BY <1>1, <1>2, <1>4, <2>1, <2>5, <2>6 DEF WriterAt
  <2> QED BY <1>4, <2>1, <2>2, <2>7, SameLog DEF SegmentKept, SegmentAt
<1> QED BY <1>1, <1>3, <1>4

LEMMA SpillStep ==
    ASSUME Application, IInv, Spill
    PROVE  SegmentKept
<1> PICK base : SegmentAt(base)
    BY DEF IInv
<1> DEFINE g == file \o stream_buffer
           m == Len(file)
<1>1. /\ writer = "None" /\ writer' = writer /\ config' = config
      /\ reader' = reader /\ delivered' = delivered
      /\ next_sequence' = next_sequence /\ pending_positions' = pending_positions
    BY DEF Spill, readervars
<1> PICK k \in 1..Len(stream_buffer) :
       /\ file' = file \o SubSeq(stream_buffer, 1, k)
       /\ stream_buffer' = SubSeq(stream_buffer, k + 1, Len(stream_buffer))
    BY DEF Spill
<1>2. /\ file \in Seq(UnitSet) /\ stream_buffer \in Seq(UnitSet) /\ m \in Nat
      /\ Clean(g, config) /\ Boundary(g, base)
      /\ m >= base.offset \/ base = Start
      /\ next_sequence = config.first_sequence + Len(scan(g).log)
      /\ Range(pending_positions) \subseteq Range(scan(g).log)
      /\ Continues(file, m, stream_buffer, g)
      /\ Padded = {}
    BY <1>1, HealthyWriter
<1>3. k \in 0..Len(stream_buffer)
    OBVIOUS
<1>4. /\ SubSeq(stream_buffer, 1, k) \in Seq(UnitSet)
      /\ Len(SubSeq(stream_buffer, 1, k)) = k
      /\ file' \o stream_buffer' = g
    BY <1>2, <1>3, SpilledStream
<1>5. Continues(file, m, SubSeq(stream_buffer, 1, k), g)
    BY <1>2, <1>3, ContinuesPart
<1>6. Len(file') >= base.offset \/ base = Start
  <2>1. Len(file') = m + k
      BY <1>2, <1>4, ConcatAgree
  <2>2. k \in Nat /\ base.offset \in Nat
      BY <1>2, BoundaryPlace DEF Clean
  <2> HIDE DEF m
  <2> QED BY <1>2, <2>1, <2>2
<1> HIDE DEF g, m
<1>7. /\ Settled(file, base)' /\ Reads(file, reader, delivered, base.offset)'
      /\ IsPrefix(scan(file).log, scan(file').log)
    BY <1>1, <1>2, <1>5, WriteStep
<1>8. WriterAt(base)'
    BY <1>1, <1>2, <1>4, <1>6 DEF WriterAt
<1> QED BY <1>7, <1>8 DEF SegmentKept, SegmentAt

LEMMA CommitStep ==
    ASSUME Application, IInv, commit
    PROVE  /\ SegmentKept
           /\ Range(pending_positions) \subseteq Range(scan(file').log)
<1> PICK base : SegmentAt(base)
    BY DEF IInv
<1> DEFINE g == file \o stream_buffer
           m == Len(file)
<1>1. /\ writer = "None" /\ writer' = writer /\ config' = config
      /\ reader' = reader /\ delivered' = delivered
      /\ next_sequence' = next_sequence /\ pending_positions' = <<>>
      /\ file' = file \o stream_buffer /\ stream_buffer' = <<>>
    BY DEF commit, Publish, readervars
<1>2. /\ file \in Seq(UnitSet) /\ stream_buffer \in Seq(UnitSet) /\ m \in Nat
      /\ Clean(g, config) /\ Boundary(g, base)
      /\ m >= base.offset \/ base = Start
      /\ next_sequence = config.first_sequence + Len(scan(g).log)
      /\ Range(pending_positions) \subseteq Range(scan(g).log)
      /\ Continues(file, m, stream_buffer, g)
      /\ Padded = {}
    BY <1>1, HealthyWriter
<1>3. Len(file') >= base.offset /\ file' \o stream_buffer' = g
  <2>1. Segment(g) /\ g \in Seq(UnitSet)
      BY <1>2 DEF Clean, Segment
  <2>2. g \o <<>> = g
      BY <2>1, ConcatEmptySeq
  <2>3. base.offset \in Nat /\ base.offset <= Len(g)
      BY <1>2, <2>1, BoundaryPlace
  <2>4. Len(g) \in Nat
      BY <2>1
  <2> QED BY <1>1, <2>2, <2>3, <2>4
<1>4. file' = g
    BY <1>1
<1> HIDE DEF g, m
<1>5. /\ Settled(file, base)' /\ Reads(file, reader, delivered, base.offset)'
      /\ IsPrefix(scan(file).log, scan(file').log)
    BY <1>1, <1>2, WriteStep
<1>6. Range(pending_positions') = {}
    BY <1>1, EmptyRange
<1>7. WriterAt(base)'
    BY <1>1, <1>2, <1>3, <1>6 DEF WriterAt
<1>8. Range(pending_positions) \subseteq Range(scan(file').log)
    BY <1>2, <1>4
<1> QED BY <1>5, <1>7, <1>8 DEF SegmentKept, SegmentAt

LEMMA CommitFailsStep ==
    ASSUME Application, IInv, commit_fails
    PROVE  SegmentKept
<1> PICK base : SegmentAt(base)
    BY DEF IInv
<1>1. /\ writer = "None" /\ config' = config
      /\ reader' = reader /\ delivered' = delivered
      /\ StreamFails(stream_buffer, "CannotFlushFile")
    BY DEF commit_fails, readervars
<1>2. /\ stream_buffer \in Seq(UnitSet)
      /\ Clean(file \o stream_buffer, config)
      /\ Boundary(file \o stream_buffer, base)
    BY <1>1, HealthyWriter
<1> QED BY <1>1, <1>2, FailStep

\* The writer goes, and its stream writes some of what it holds, or nothing.
LEMMA GoneStep ==
    ASSUME Application, IInv, WriterGone, NEW k \in 0..Len(stream_buffer),
           file' = file \o SubSeq(stream_buffer, 1, k)
    PROVE  SegmentKept
<1> PICK base : SegmentAt(base)
    BY DEF IInv
<1> DEFINE u == SubSeq(stream_buffer, 1, k)
<1>1. /\ writer' = "closed" /\ stream_buffer' = <<>>
      /\ reader' = reader /\ delivered' = delivered
    BY DEF WriterGone, readervars
<1>2. WriterAt(base)'
    BY <1>1 DEF WriterAt
<1>3. /\ Padded = {} /\ Settled(file, base)
      /\ file \in Seq(UnitSet) /\ stream_buffer \in Seq(UnitSet)
    BY DEF Application, SegmentAt, Settled, IInv, Types
<1>4. ASSUME NEW g, NEW m, Clean(g, config), Boundary(g, base),
             Continues(file, m, stream_buffer, g),
             m >= base.offset \/ base = Start
      PROVE  SegmentKept
  <2>1. Continues(file, m, u, g)
      BY <1>4, ContinuesPart
  <2> HIDE DEF u
  <2>2. /\ Settled(file, base)' /\ Reads(file, reader, delivered, base.offset)'
        /\ IsPrefix(scan(file).log, scan(file').log)
      BY <1>1, <1>4, <2>1, WriteStep DEF u
  <2> QED BY <1>2, <2>2 DEF SegmentKept, SegmentAt
<1>5. CASE writer = "None"
  <2> DEFINE g == file \o stream_buffer
  <2>1. /\ Clean(g, config) /\ Boundary(g, base)
        /\ Len(file) >= base.offset \/ base = Start
        /\ Continues(file, Len(file), stream_buffer, g)
      BY <1>5, HealthyWriter
  <2> HIDE DEF g
  <2> QED BY <1>4, <2>1
<1>6. CASE writer # "None" /\ stream_buffer # <<>>
  <2> PICK g, m : /\ Clean(g, config)
                  /\ Boundary(g, base)
                  /\ Continues(file, m, stream_buffer, g)
                  /\ m >= base.offset \/ base = Start
      BY <1>6 DEF SegmentAt, WriterAt
  <2> QED BY <1>4
<1>7. CASE stream_buffer = <<>>
  <2>1. k = 0
      BY <1>7
  <2>2. u = <<>>
      BY <2>1, <1>7
  <2>3. file' = file
      BY <1>3, <2>2, ConcatEmptySeq
  <2>4. Settled(file, base)' /\ Reads(file, reader, delivered, base.offset)'
      BY <1>1, <2>3 DEF SegmentAt
  <2> QED BY <1>2, <1>3, <2>3, <2>4, SameLog DEF SegmentKept, SegmentAt
<1> QED BY <1>5, <1>6, <1>7

LEMMA CloseStep ==
    ASSUME Application, IInv, CloseWriter
    PROVE  SegmentKept
    BY GoneStep DEF CloseWriter

LEMMA CrashStep ==
    ASSUME Application, IInv, Crash
    PROVE  SegmentKept
<1>1. stream_buffer \in Seq(UnitSet) /\ WriterGone /\ file' = file
    BY DEF Crash, IInv, Types
<1> PICK base : SegmentAt(base)
    BY DEF IInv
<1>2. file \in Seq(UnitSet)
    BY DEF SegmentAt, Settled
<1>3. SubSeq(stream_buffer, 1, 0) = <<>> /\ 0 \in 0..Len(stream_buffer)
    BY <1>1, SubSeqEmpty
<1>4. file' = file \o SubSeq(stream_buffer, 1, 0)
    BY <1>1, <1>2, <1>3, ConcatEmptySeq
<1> QED BY <1>1, <1>3, <1>4, GoneStep

LEMMA PopStep ==
    ASSUME Application, IInv, pop_committed_position
    PROVE  SegmentKept
<1> PICK base : SegmentAt(base)
    BY DEF IInv
<1>1. UNCHANGED <<file, stream_buffer, writer, config, next_sequence,
                  pending_positions, reader, delivered>>
    BY DEF pop_committed_position, readervars
<1>2. SegmentAt(base)'
    BY <1>1 DEF SegmentAt, WriterAt
<1>3. Padded = {} /\ Settled(file, base)
    BY DEF Application, SegmentAt
<1> QED BY <1>1, <1>2, <1>3, SameLog DEF SegmentKept

LEMMA StutterStep ==
    ASSUME Application, IInv, UNCHANGED vars
    PROVE  SegmentKept
<1> PICK base : SegmentAt(base)
    BY DEF IInv
<1>1. UNCHANGED <<file, stream_buffer, writer, config, next_sequence,
                  pending_positions, reader, delivered>>
    BY DEF vars, writervars, readervars
<1>2. SegmentAt(base)'
    BY <1>1 DEF SegmentAt, WriterAt
<1>3. Padded = {} /\ Settled(file, base)
    BY DEF Application, SegmentAt
<1> QED BY <1>1, <1>2, <1>3, SameLog DEF SegmentKept

LEMMA PrefixEmpty ==
    ASSUME NEW T, NEW s \in Seq(T)
    PROVE  IsPrefix(<<>>, s)
<1>1. <<>> \in Seq(T) /\ Len(<<>>) = 0 /\ Len(s) \in Nat /\ 0 <= Len(s)
    BY EmptySeq
<1>2. \A i \in 1..Len(<<>>) : <<>>[i] = s[i]
    BY <1>1
<1> QED BY <1>1, <1>2, PrefixPointwise

LEMMA OpenStep ==
    ASSUME Application, IInv, OpenReader
    PROVE  /\ SegmentKept
           /\ reader' \in ReaderType /\ reader'.fetched >= Len(reader'.cache)
<1> PICK base : SegmentAt(base)
    BY DEF IInv
<1>1. /\ UNCHANGED <<file, stream_buffer, writer, config, next_sequence,
                     pending_positions>>
      /\ delivered' = <<>>
    BY DEF OpenReader, writervars
<1>2. /\ Padded = {} /\ Settled(file, base) /\ file \in Seq(UnitSet)
      /\ reader \in ReaderType /\ reader.fetched >= Len(reader.cache)
    BY DEF Application, SegmentAt, Settled, IInv, Types
<1>3. Settled(file, base)' /\ WriterAt(base)'
    BY <1>1 DEF SegmentAt, WriterAt
<1>4. IsPrefix(delivered', scan(file').log)
    BY <1>1, <1>2, ScanLog, PrefixEmpty
<1>5. CASE ValidSegment(file)
  <2>1. reader' = [state |-> "good", config |-> file[1].of,
                   cache |-> SubSeq(file, 3, Len(file)), fetched |-> Len(file),
                   last_position |-> 0]
      BY <1>5 DEF OpenReader
  <2>2. Segment(file)
      BY <1>2, <1>5 DEF Segment
  <2> DEFINE rd == reader'
  <2>3. rd \in ReaderType /\ Follows(file, rd, <<>>, base.offset)
      BY <1>2, <2>1, <2>2, FollowsStart
  <2>4. reader'.fetched >= Len(reader'.cache)
    <3>1. reader'.fetched = Len(file) /\ reader'.cache = SubSeq(file, 3, Len(file))
        BY <2>1
    <3>2. /\ 2 \in Nat /\ 2 + 1 = 3 /\ Len(file) \in Nat /\ 2 <= Len(file)
        BY <2>2, SegmentConfig
    <3>3. Len(SubSeq(file, 3, Len(file))) = Len(file) - 2
      <4>1. Len(SubSeq(file, 2 + 1, Len(file))) = Len(file) - 2
          BY <1>2, <3>2, RestOf
      <4> QED BY <3>2, <4>1
    <3> QED BY <3>1, <3>2, <3>3
  <2>5. Reads(file, reader, delivered, base.offset)'
      BY <1>1, <1>4, <2>3 DEF Reads
  <2> QED BY <1>1, <1>2, <1>3, <2>3, <2>4, <2>5, SameLog DEF SegmentKept, SegmentAt
<1>6. CASE ~ValidSegment(file)
  <2>1. reader' = [reader EXCEPT !.state = "failed"]
      BY <1>6 DEF OpenReader
  <2>2. /\ reader' \in ReaderType /\ reader'.state = "failed"
        /\ reader'.fetched = reader.fetched /\ reader'.cache = reader.cache
      BY <1>2, <2>1 DEF ReaderType
  <2>3. Reads(file, reader, delivered, base.offset)'
      BY <1>4, <2>2 DEF Reads
  <2> QED BY <1>1, <1>2, <1>3, <2>2, <2>3, SameLog DEF SegmentKept, SegmentAt
<1> QED BY <1>5, <1>6

LEMMA FrameUsed ==
    ASSUME NEW units \in Seq(UnitSet), NEW c, NEW s, Padded = {}
    PROVE  Frame(units, c, s).used \in Nat
<1>1. Len(units) \in Nat
    OBVIOUS
<1>2. Len(RecordUnits(units[1].of)) \in Nat
    BY DEF RecordUnits, Unit
<1> QED BY <1>1, <1>2 DEF Frame

\* What a read leaves in the reader, whatever it meets.
LEMMA ReadTypes ==
    ASSUME NEW f \in Seq(UnitSet), NEW rd \in ReaderType, Padded = {},
           rd.fetched >= Len(rd.cache),
           NEW s, NEW kept, NEW refill, NEW units, NEW frame, NEW rd2,
           Reading(f, rd, s, kept, refill, units, frame, rd2)
    PROVE  /\ units \in Seq(UnitSet)
           /\ rd2.cache \in Seq(UnitSet)
           /\ rd2.fetched \in Nat
           /\ rd2.fetched >= Len(rd2.cache)
<1> DEFINE cache == rd.cache
           fetched == rd.fetched
           upto == rd2.fetched
           used == frame.used
           rest == SubSeq(units, used + 1, Len(units))
<1>0. /\ cache \in Seq(UnitSet) /\ fetched \in Nat /\ fetched >= Len(cache)
      /\ refill \in BOOLEAN /\ rd2.cache = rest
    BY Zenon DEF Reading, ReaderType
<1>a. units = (IF refill THEN cache \o SubSeq(f, fetched + 1, Len(f)) ELSE cache)
    BY Zenon DEF Reading
<1>b. upto = (IF refill /\ Len(f) > fetched THEN Len(f) ELSE fetched)
    BY Zenon DEF Reading
<1>c. frame = Frame(units, rd.config, s)
    BY Zenon DEF Reading
<1> HIDE DEF cache, fetched, upto, used, rest
<1>1. Len(f) \in Nat /\ Len(cache) \in Nat
    BY <1>0
<1> DEFINE all == cache \o SubSeq(f, fetched + 1, Len(f))
<1>2. /\ all \in Seq(UnitSet)
      /\ Len(all) = Len(cache) + IF fetched < Len(f) THEN Len(f) - fetched ELSE 0
    BY <1>0, FetchedUnits
<1>3. (refill => units = all) /\ (~refill => units = cache)
    BY <1>a
<1> HIDE DEF all
<1>4. upto \in Nat
    BY <1>0, <1>1, <1>b
<1>5. units \in Seq(UnitSet) /\ Len(units) <= upto
  <2>1. CASE refill /\ fetched < Len(f)
    <3>1. units = all /\ upto = Len(f) /\ Len(all) = Len(cache) + (Len(f) - fetched)
        BY <1>0, <1>1, <1>2, <1>3, <1>b, <2>1
    <3>2. Len(units) <= upto
        BY <1>0, <1>1, <3>1
    <3> QED BY <1>2, <3>1, <3>2
  <2>2. CASE refill /\ ~(fetched < Len(f))
    <3>1. units = all /\ upto = fetched /\ Len(all) = Len(cache) + 0
        BY <1>0, <1>1, <1>2, <1>3, <1>b, <2>2
    <3>2. Len(units) <= upto
        BY <1>0, <1>1, <3>1
    <3> QED BY <1>2, <3>1, <3>2
  <2>3. CASE ~refill
    <3>1. units = cache /\ upto = fetched
        BY <1>3, <1>b, <2>3
    <3> QED BY <1>0, <1>1, <3>1
  <2> QED BY <1>0, <2>1, <2>2, <2>3
<1>6. Len(units) \in Nat /\ used \in Nat
  <2>1. Frame(units, rd.config, s).used \in Nat
      BY <1>5, FrameUsed
  <2> QED BY <1>5, <1>c, <2>1 DEF used
<1>7. /\ rest \in Seq(UnitSet)
      /\ Len(rest) = IF used + 1 <= Len(units) THEN Len(units) - (used + 1) + 1 ELSE 0
  <2>1. \A i \in used + 1..Len(units) : units[i] \in UnitSet
      BY <1>5, <1>6
  <2> QED BY <1>6, <2>1, SubSeqProperties DEF rest
<1>8. Len(rest) <= Len(units)
    BY <1>6, <1>7
<1>9. upto >= Len(rest)
  <2>1. Len(rest) \in Int
      BY <1>7
  <2> QED BY <1>4, <1>5, <1>6, <1>8, <2>1
<1> QED BY <1>0, <1>4, <1>5, <1>7, <1>9 DEF upto

\* The record a reader returns is the one that follows in the log.
LEMMA NextOfLog ==
    ASSUME NEW f, Segment(f), Padded = {}, NEW a, Boundary(f, a), NEW r,
           Stands(f, a, r)
    PROVE  LET log == scan(f).log
           IN  /\ a.log \in Seq(Record) /\ r \in Record
               /\ Append(a.log, r) \in Seq(Record)
               /\ IsPrefix(Append(a.log, r), log)
               /\ Len(a.log) < Len(log)
               /\ r = log[Len(a.log) + 1]
<1> DEFINE log == scan(f).log
           dl == Append(a.log, r)
<1>1. Boundary(f, After(a, r)) /\ After(a, r).log = dl
    BY NextBoundary DEF After
<1>2. IsPrefix(dl, log) /\ log \in Seq(Record)
    BY <1>1, EndUnique, ScanEnd
<1>3. a.log \in Seq(Record) /\ r \in Record
    BY BoundaryPlace, RecordOf DEF Place, Stands
<1>4. /\ dl \in Seq(Record) /\ Len(dl) = Len(a.log) + 1
      /\ dl[Len(a.log) + 1] = r /\ Len(a.log) \in Nat
    BY <1>3, AppendProperties
<1> HIDE DEF log, dl
<1>5. Len(dl) <= Len(log) /\ \A i \in 1..Len(dl) : dl[i] = log[i]
    BY <1>2, <1>4, PrefixPointwise
<1>6. Len(log) \in Nat
    BY <1>2
<1>7. Len(a.log) < Len(log) /\ r = log[Len(a.log) + 1]
  <2>1. Len(a.log) + 1 \in 1..Len(dl)
      BY <1>4
  <2> QED BY <1>4, <1>5, <1>6, <2>1
<1> QED BY <1>2, <1>3, <1>4, <1>7 DEF log, dl

LEMMA ReadStep ==
    ASSUME Application, IInv, read_next
    PROVE  /\ SegmentKept
           /\ reader' \in ReaderType /\ reader'.fetched >= Len(reader'.cache)
           /\ delivered' \in Seq(Record)
           /\ \/ delivered' = delivered
              \/ /\ Len(delivered) < Len(scan(file).log)
                 /\ delivered' = Append(delivered, scan(file).log[Len(delivered) + 1])
<1> PICK base : SegmentAt(base)
    BY DEF IInv
<1>1. UNCHANGED <<file, stream_buffer, writer, config, next_sequence,
                  pending_positions>>
    BY DEF read_next, writervars
<1>2. /\ Padded = {} /\ Settled(file, base) /\ file \in Seq(UnitSet)
      /\ reader \in ReaderType /\ reader.fetched >= Len(reader.cache)
      /\ delivered \in Seq(Record)
      /\ Reads(file, reader, delivered, base.offset)
    BY DEF Application, SegmentAt, Settled, IInv, Types
<1>3. Settled(file, base)' /\ WriterAt(base)'
    BY <1>1 DEF SegmentAt, WriterAt
<1>4. IsPrefix(scan(file).log, scan(file').log)
    BY <1>1, <1>2, SameLog
<1>5. Reads(file, reader, delivered, base.offset)' => SegmentKept
    BY <1>3, <1>4 DEF SegmentKept, SegmentAt
<1>6. CASE reader.state = "eof" /\ reader' = [reader EXCEPT !.state = "good"]
           /\ UNCHANGED delivered
  <2>1. /\ reader' \in ReaderType
        /\ reader'.fetched = reader.fetched /\ reader'.cache = reader.cache
        /\ reader'.config = reader.config
        /\ reader'.last_position = reader.last_position
      BY <1>2, <1>6 DEF ReaderType
  <2>2. Follows(file, reader, delivered, base.offset)
      BY <1>2, <1>6 DEF Reads
  <2>3. Reads(file, reader, delivered, base.offset)'
      BY <1>1, <1>2, <1>6, <2>1, <2>2 DEF Reads, Follows
  <2> QED BY <1>2, <1>5, <1>6, <2>1, <2>3
<1>7. CASE reader.state = "good" /\ ReadRecord
  <2> DEFINE s == IF reader.last_position # 0 THEN reader.last_position + 1
                  ELSE reader.config.first_sequence
             kept == Frame(reader.cache, reader.config, s)
             refill == ~(\/ kept.kind = "Bad"
                         \/ /\ kept.kind = "Record"
                            /\ kept.used = Len(RecordUnits(reader.cache[1].of)))
             units == IF refill
                      THEN reader.cache \o SubSeq(file, reader.fetched + 1, Len(file))
                      ELSE reader.cache
             frame == Frame(units, reader.config, s)
             cut == frame.kind = "Record" /\ frame.used < Len(RecordUnits(units[1].of))
             upto == IF refill /\ Len(file) > reader.fetched THEN Len(file)
                     ELSE reader.fetched
             rest == SubSeq(units, frame.used + 1, Len(units))
             state == IF frame.kind \in {"Torn", "Bad"} THEN "failed"
                      ELSE IF cut THEN "eof" ELSE "good"
  <2>1. /\ reader' = [reader EXCEPT
               !.state = state, !.cache = rest, !.fetched = upto,
               !.last_position = IF frame.kind = "Record" THEN s ELSE @]
        /\ delivered' = IF frame.kind = "Record"
                        THEN Append(delivered, units[1].of) ELSE delivered
      BY <1>7, Zenon DEF ReadRecord, Enough
  <2>7. reader' = [state |-> state, config |-> reader.config, cache |-> rest,
                   fetched |-> upto,
                   last_position |-> IF frame.kind = "Record" THEN s
                                     ELSE reader.last_position]
    <3> HIDE DEF state, rest, upto, frame, s
    <3> QED BY <1>2, <2>1 DEF ReaderType
  <2> DEFINE rd2 == reader'
  <2>10. /\ rd2.state = state /\ rd2.config = reader.config /\ rd2.cache = rest
         /\ rd2.fetched = upto
         /\ rd2.last_position = (IF frame.kind = "Record" THEN s
                                 ELSE reader.last_position)
    <3> HIDE DEF frame, s
    <3> QED BY <2>7, Zenon
  <2> HIDE DEF rd2
  <2>2. Reading(file, reader, s, kept, refill, units, frame, rd2)
    <3>1. refill \in BOOLEAN
        OBVIOUS
    <3> QED BY <2>10, <3>1, Zenon DEF Reading
  <2>5. /\ units \in Seq(UnitSet)
        /\ rd2.cache \in Seq(UnitSet)
        /\ rd2.fetched \in Nat
        /\ rd2.fetched >= Len(rd2.cache)
    <3> HIDE DEF s, kept, refill, units, frame, cut, rest, upto, state
    <3> QED BY <1>2, <2>2, ReadTypes
  <2>6. frame.kind \in {"EndOfLog", "Torn", "Bad", "Record"}
    <3> HIDE DEF units, s
    <3> QED BY <1>2, <2>5, FrameIs
  <2>8. state \in {"good", "eof", "failed"}
        /\ (state # "failed" <=> frame.kind \in {"EndOfLog", "Record"})
    <3> HIDE DEF frame, cut
    <3> QED BY <2>6
  <2>9. /\ Follows(file, reader, delivered, base.offset)
        /\ Segment(file) /\ OneStream(file) /\ Boundary(file, base)
        /\ TailSafe(file, base.offset, SequenceAt(file, base))
    <3>1. Follows(file, reader, delivered, base.offset)
        BY <1>2, <1>7 DEF Reads
    <3>2. Segment(file)
        BY <3>1 DEF Follows
    <3> QED BY <1>2, <3>1, <3>2 DEF Settled, Segment
  <2>11. /\ frame.kind = "Record" =>
              /\ \E a : /\ Boundary(file, a) /\ a.log = delivered
                        /\ Stands(file, a, units[1].of)
              /\ units[1].of \in Record
              /\ rd2.cache \in Seq(UnitSet) /\ s \in Nat
              /\ Follows(file, rd2, Append(delivered, units[1].of), base.offset)
         /\ frame.kind = "EndOfLog" =>
              rd2.cache \in Seq(UnitSet) /\ Follows(file, rd2, delivered, base.offset)
    <3> HIDE DEF s, kept, refill, units, frame, cut, rest, upto, state
    <3>1. Returned(file, delivered, base.offset, s, units, frame, rd2)
        BY <1>2, <2>2, <2>9, FollowsRead
    <3> QED BY <3>1 DEF Returned
  <2> DEFINE r == units[1].of
  <2> HIDE DEF r, s, kept, refill, units, frame, cut, rest, upto, state
  <2>12. delivered' = IF frame.kind = "Record" THEN Append(delivered, r) ELSE delivered
      BY <2>1 DEF r
  <2>13. ASSUME rd2.last_position \in Nat
         PROVE  reader' \in ReaderType /\ reader'.fetched >= Len(reader'.cache)
    <3>1. reader' = [state |-> state, config |-> reader.config, cache |-> rd2.cache,
                     fetched |-> rd2.fetched, last_position |-> rd2.last_position]
        BY <2>7, <2>10
    <3>2. reader.config \in Configs
        BY <1>2 DEF ReaderType
    <3>3. reader'.fetched = rd2.fetched /\ reader'.cache = rd2.cache
        BY <3>1
    <3>4. reader' \in ReaderType
        BY <2>5, <2>8, <2>13, <3>1, <3>2 DEF ReaderType
    <3> QED BY <2>5, <3>3, <3>4
  <2>14. reader.last_position \in Nat
      BY <1>2 DEF ReaderType
  <2>15. CASE frame.kind = "Record"
    <3>1. /\ r \in Record /\ s \in Nat
          /\ Follows(file, rd2, Append(delivered, r), base.offset)
          /\ delivered' = Append(delivered, r)
        BY <2>11, <2>12, <2>15 DEF r
    <3> PICK a : /\ Boundary(file, a) /\ a.log = delivered /\ Stands(file, a, r)
        BY <2>11, <2>15 DEF r
    <3>2. /\ Append(delivered, r) \in Seq(Record)
          /\ IsPrefix(Append(delivered, r), scan(file).log)
          /\ Len(delivered) < Len(scan(file).log)
          /\ r = scan(file).log[Len(delivered) + 1]
        BY <1>2, <2>9, NextOfLog
    <3>3. Reads(file, reader, delivered, base.offset)'
        BY <1>1, <3>1, <3>2 DEF Reads, rd2
    <3>4. rd2.last_position \in Nat
        BY <2>10, <2>15, <3>1
    <3> QED BY <1>5, <2>13, <3>1, <3>2, <3>3, <3>4
  <2>16. CASE frame.kind # "Record"
    <3>1. delivered' = delivered /\ rd2.last_position \in Nat
        BY <2>10, <2>12, <2>14, <2>16
    <3>2. state # "failed" => Follows(file, rd2, delivered, base.offset)
        BY <2>8, <2>11, <2>16
    <3>3. Reads(file, reader, delivered, base.offset)'
      <4>1. reader'.state = state
          BY <2>10 DEF rd2
      <4> QED BY <1>1, <1>2, <3>1, <3>2, <4>1 DEF Reads, rd2
    <3> QED BY <1>2, <1>5, <2>13, <3>1, <3>3
  <2> QED BY <2>15, <2>16, Zenon
<1> QED BY <1>6, <1>7 DEF read_next

LEMMA NextKeepsSegment ==
    ASSUME Application, IInv, [Next]_vars
    PROVE  SegmentKept
    BY CreateStep, ReopenStep, AppendStep, SpillStep, CommitStep, CommitFailsStep,
       PopStep, CloseStep, CrashStep, RecoverStep, OpenStep, ReadStep, StutterStep
    DEF Next

-----------------------------------------------------------------------------
(* Types.                                                                  *)

\* The members that a failing write leaves alone, and what it leaves behind.
LEMMA StreamTypes ==
    ASSUME Types, NEW held \in Seq(UnitSet), NEW error, StreamFails(held, error)
    PROVE  stream_buffer' \in Seq(UnitSet) /\ writer' = error
<1> PICK n \in Len(stream_buffer)..Len(held) : stream_buffer' = SubSeq(held, 1, n)
    BY DEF StreamFails
<1>1. stream_buffer \in Seq(UnitSet) /\ Len(stream_buffer) \in Nat /\ Len(held) \in Nat
    BY DEF Types
<1>2. n \in 0..Len(held)
    BY <1>1
<1>3. SubSeq(held, 1, n) \in Seq(UnitSet)
    BY <1>2, SpilledStream
<1> QED BY <1>3 DEF StreamFails

\* The steps that leave the reader alone.
LEMMA WriterTypes ==
    ASSUME Application, IInv,
           \/ \E c \in Configs : CreateSegment(c) \/ ReopenSegment(c)
           \/ \E p \in Payload : append(p)
           \/ Spill \/ commit \/ commit_fails \/ pop_committed_position
           \/ CloseWriter \/ Crash \/ recover_wal_segment \/ UNCHANGED vars
    PROVE  Types'
<1> DEFINE SameReader == UNCHANGED <<reader, delivered>>
<1>1. Types /\ Padded = {}
    BY DEF IInv, Application
<1>2. /\ <<>> \in Seq(UnitSet) /\ <<>> \in Seq(Record) /\ 0 \in Nat
      /\ \A x \in Nat : x + 1 \in Nat
    BY EmptySeq
<1>3. \A c \in Configs : c.first_sequence \in Nat /\ c \in Configs
    BY ConfigAssumption
<1>4. ASSUME NEW c \in Configs, CreateSegment(c) PROVE Types'
  <2>1. SegmentHeader(c) \in Seq(UnitSet)
      BY <1>1, CleanHeader DEF Application, Clean, Segment
  <2>2. {"None", "CannotWriteFile"} \subseteq WalError
      BY DEF WalError
  <2> QED BY <1>1, <1>2, <1>3, <1>4, <2>1, <2>2
          DEF Types, CreateSegment, FreshWriter, readervars
<1>5. ASSUME NEW c \in Configs, ReopenSegment(c) PROVE Types'
  <2>1. UNCHANGED <<reader, delivered, acknowledged>>
        /\ config' = c /\ pending_positions' = <<>> /\ committed_positions' = <<>>
        /\ stream_buffer' = <<>>
      BY <1>5 DEF ReopenSegment, FreshWriter, readervars
  <2>2. /\ writer' \in WalError
        /\ next_sequence' \in Nat /\ last_position' \in Nat
        /\ last_committed_position' \in Nat
    <3>1. CASE writer' = "InvalidSegmentHeader" /\ next_sequence' = c.first_sequence
               /\ last_position' = 0 /\ last_committed_position' = 0
        BY <1>2, <1>3, <3>1 DEF WalError
    <3> PICK base : Settled(file, base)
        BY DEF IInv, SegmentAt
    <3>2. ValidSegment(file) => Segment(file)
        BY DEF Settled, Segment
    <3>3. CASE /\ ValidSegment(file) /\ ~Recoverable(scan(file).error)
               /\ writer' = scan(file).error
               /\ next_sequence' = c.first_sequence
               /\ last_position' = 0 /\ last_committed_position' = 0
      <4>1. writer' = "CorruptedMiddleRecord"
          BY <1>1, <3>2, <3>3, ScanEnd DEF Recoverable
      <4> QED BY <1>2, <1>3, <3>3, <4>1 DEF WalError
    <3>4. CASE /\ ValidSegment(file) /\ file[1].of = c
               /\ writer' = "None"
               /\ next_sequence' = SequenceAfter(scan(file).log, c)
               /\ last_position' = (IF scan(file).log = <<>> THEN 0
                                    ELSE Last(scan(file).log).sequence)
               /\ last_committed_position' = last_position'
      <4>1. scan(file).log \in Seq(Record)
          BY <1>1, <3>2, <3>4, ScanEnd
      <4>2. Len(scan(file).log) \in Nat
          BY <4>1
      <4>3. next_sequence' \in Nat
          BY <1>1, <1>3, <3>2, <3>4, <4>2, ReopenSequence
      <4>4. scan(file).log # <<>> => Last(scan(file).log).sequence \in Nat
          BY <1>1, <3>2, <3>4, ReopenSequence
      <4>5. last_position' \in Nat
          BY <1>2, <3>4, <4>4
      <4> QED BY <3>4, <4>3, <4>5 DEF WalError
    <3> QED BY <1>5, <3>1, <3>3, <3>4 DEF ReopenSegment
  <2>3. writer' # "closed" \/ stream_buffer' = <<>>
      BY <2>1
  <2> QED BY <1>1, <1>2, <2>1, <2>2, <2>3 DEF Types
<1>6. ASSUME NEW p \in Payload, append(p) PROVE Types'
  <2> DEFINE r == [config |-> config, sequence |-> next_sequence, payload |-> p]
             held == stream_buffer \o RecordUnits(r)
  <2>1. /\ writer = "None"
        /\ UNCHANGED <<config, last_committed_position, committed_positions,
                       reader, delivered, acknowledged>>
        /\ \/ /\ stream_buffer' = held
              /\ last_position' = next_sequence
              /\ next_sequence' = next_sequence + 1
              /\ pending_positions' = Append(pending_positions, r)
              /\ UNCHANGED writer
           \/ /\ StreamFails(held, "CannotWriteFile")
              /\ UNCHANGED <<last_position, next_sequence, pending_positions>>
      BY <1>6 DEF append, readervars
  <2>2. r \in Record
    <3>1. config \in Configs /\ next_sequence \in Nat
        BY <1>1 DEF Types
    <3> QED BY <3>1 DEF Record
  <2> HIDE DEF r
  <2>3. RecordUnits(r) \in Seq(UnitSet) /\ stream_buffer \in Seq(UnitSet)
      BY <1>1, <2>2, UnitsOfRecord DEF Types
  <2>4. held \in Seq(UnitSet)
      BY <2>3, ConcatAgree
  <2> HIDE DEF held
  <2>5. CASE /\ stream_buffer' = held
             /\ last_position' = next_sequence
             /\ next_sequence' = next_sequence + 1
             /\ pending_positions' = Append(pending_positions, r)
             /\ UNCHANGED writer
    <3>1. pending_positions' \in Seq(Record)
        BY <1>1, <2>2, <2>5, AppendProperties DEF Types
    <3> QED BY <1>1, <1>2, <2>1, <2>4, <2>5, <3>1 DEF Types
  <2>6. CASE /\ StreamFails(held, "CannotWriteFile")
             /\ UNCHANGED <<last_position, next_sequence, pending_positions>>
    <3>1. stream_buffer' \in Seq(UnitSet) /\ writer' = "CannotWriteFile"
        BY <1>1, <2>4, <2>6, StreamTypes
    <3> QED BY <1>1, <2>1, <2>6, <3>1 DEF Types, WalError
  <2> QED BY <2>1, <2>5, <2>6
<1>7. ASSUME Spill PROVE Types'
  <2> PICK k \in 1..Len(stream_buffer) :
         stream_buffer' = SubSeq(stream_buffer, k + 1, Len(stream_buffer))
      BY <1>7 DEF Spill
  <2>1. stream_buffer \in Seq(UnitSet) /\ k \in 0..Len(stream_buffer)
      BY <1>1 DEF Types
  <2>2. stream_buffer' \in Seq(UnitSet)
      BY <2>1, SpilledStream
  <2> QED BY <1>1, <1>7, <2>2 DEF Spill, readervars, Types
<1>8. ASSUME commit PROVE Types'
  <2>1. /\ pending_positions \in Seq(Record) /\ committed_positions \in Seq(Record)
        /\ last_committed_position \in Nat
      BY <1>1 DEF Types
  <2>2. committed_positions' \in Seq(Record)
      BY <1>8, <2>1, ConcatProperties DEF commit, Publish
  <2>3. last_committed_position' \in Nat
    <3>1. CASE pending_positions = <<>>
        BY <1>8, <2>1, <3>1 DEF commit, Publish
    <3>2. CASE pending_positions # <<>>
      <4>1. Len(pending_positions) \in 1..Len(pending_positions)
          BY <2>1, <3>2
      <4>2. Last(pending_positions) \in Record
          BY <2>1, <4>1, ElementOfSeq DEF Last
      <4> QED BY <1>8, <3>2, <4>2 DEF commit, Publish, Record
    <3> QED BY <3>1, <3>2
  <2>4. acknowledged' \subseteq Record
    <3>1. Range(pending_positions) \subseteq Record
        BY <2>1, RangeOfSeq
    <3> QED BY <1>1, <1>8, <3>1 DEF commit, Types
  <2> QED BY <1>1, <1>2, <1>8, <2>2, <2>3, <2>4 DEF commit, Publish, readervars, Types
<1>9. ASSUME commit_fails PROVE Types'
  <2>1. stream_buffer \in Seq(UnitSet) /\ StreamFails(stream_buffer, "CannotFlushFile")
      BY <1>1, <1>9 DEF commit_fails, Types
  <2>2. stream_buffer' \in Seq(UnitSet) /\ writer' = "CannotFlushFile"
      BY <1>1, <2>1, StreamTypes
  <2> QED BY <1>1, <1>9, <2>2 DEF commit_fails, readervars, Types, WalError
<1>10. ASSUME pop_committed_position PROVE Types'
  <2>1. committed_positions' \in Seq(Record)
      BY <1>1, <1>10, HeadTailProperties DEF pop_committed_position, Types
  <2> QED BY <1>1, <1>10, <2>1 DEF pop_committed_position, readervars, Types
<1>11. ASSUME WriterGone PROVE Types'
    BY <1>1, <1>2, <1>11 DEF WriterGone, readervars, Types
<1>12. ASSUME recover_wal_segment PROVE Types'
    BY <1>1, <1>12 DEF recover_wal_segment, writervars, readervars, Types
<1>13. ASSUME UNCHANGED vars PROVE Types'
    BY <1>1, <1>13 DEF vars, writervars, readervars, Types
<1> QED BY <1>4, <1>5, <1>6, <1>7, <1>8, <1>9, <1>10, <1>11, <1>12, <1>13
        DEF CloseWriter, Crash

LEMMA NextKeepsTypes ==
    ASSUME Application, IInv, [Next]_vars
    PROVE  Types'
<1>1. Types
    BY DEF IInv
<1>2. CASE OpenReader
  <2>1. /\ UNCHANGED <<writervars, acknowledged>> /\ delivered' = <<>>
        /\ reader' \in ReaderType /\ reader'.fetched >= Len(reader'.cache)
      BY <1>2, OpenStep DEF OpenReader
  <2>2. <<>> \in Seq(Record)
      BY EmptySeq
  <2> QED BY <1>1, <2>1, <2>2 DEF Types, writervars
<1>3. CASE read_next
  <2>1. /\ UNCHANGED <<writervars, acknowledged>> /\ delivered' \in Seq(Record)
        /\ reader' \in ReaderType /\ reader'.fetched >= Len(reader'.cache)
      BY <1>3, ReadStep DEF read_next
  <2> QED BY <1>1, <2>1 DEF Types, writervars
<1>4. CASE ~OpenReader /\ ~read_next
    BY <1>4, WriterTypes DEF Next
<1> QED BY <1>2, <1>3, <1>4
-----------------------------------------------------------------------------
(* What was acknowledged stays in the log.                                 *)

LEMMA LogsOfStep ==
    ASSUME Application, IInv, SegmentKept
    PROVE  /\ scan(file).log \in Seq(Record) /\ scan(file').log \in Seq(Record)
           /\ Range(scan(file).log) \subseteq Range(scan(file').log)
<1>1. Padded = {} /\ file \in Seq(UnitSet) /\ file' \in Seq(UnitSet)
    BY DEF Application, IInv, SegmentKept, SegmentAt, Settled
<1>2. scan(file).log \in Seq(Record) /\ scan(file').log \in Seq(Record)
    BY <1>1, ScanLog
<1> QED BY <1>2, PrefixRange DEF SegmentKept

LEMMA NextKeepsKept ==
    ASSUME Application, IInv, [Next]_vars
    PROVE  Kept'
<1> DEFINE Before == Range(scan(file).log)
           After2 == Range(scan(file').log)
<1>1. Before \subseteq After2
    BY NextKeepsSegment, LogsOfStep
<1>2. /\ acknowledged \subseteq Before /\ Range(committed_positions) \subseteq Before
      /\ pending_positions \in Seq(Record) /\ committed_positions \in Seq(Record)
    BY DEF IInv, Kept, Types
<1>3. Range(<<>>) = {}
    BY EmptyRange
<1>4. SUFFICES acknowledged' \subseteq After2 /\ Range(committed_positions') \subseteq After2
    BY DEF Kept
<1> HIDE DEF Before, After2
<1>5. CASE commit
  <2>1. /\ acknowledged' = acknowledged \union Range(pending_positions)
        /\ committed_positions' = committed_positions \o pending_positions
      BY <1>5 DEF commit, Publish
  <2>2. Range(pending_positions) \subseteq After2
      BY <1>5, CommitStep DEF After2
  <2>3. Range(committed_positions') = Range(committed_positions) \union Range(pending_positions)
      BY <1>2, <2>1, RangeConcatenation
  <2> QED BY <1>1, <1>2, <2>1, <2>2, <2>3
<1>6. CASE pop_committed_position
  <2>1. /\ committed_positions # <<>> /\ committed_positions' = Tail(committed_positions)
        /\ acknowledged' = acknowledged
      BY <1>6 DEF pop_committed_position
  <2>2. Range(committed_positions') \subseteq Range(committed_positions)
    <3> DEFINE s == committed_positions
               t == Tail(committed_positions)
    <3>1. /\ t \in Seq(Record) /\ Len(t) = Len(s) - 1 /\ Len(s) \in Nat
          /\ \A i \in 1..Len(t) : t[i] = s[i + 1]
        BY <1>2, <2>1, HeadTailProperties
    <3>2. DOMAIN s = 1..Len(s) /\ DOMAIN t = 1..Len(t)
        BY <1>2, <3>1, LenProperties
    <3> HIDE DEF s, t
    <3>3. \A i \in 1..Len(t) : i + 1 \in 1..Len(s)
        BY <3>1
    <3>4. Range(t) \subseteq Range(s)
        BY <3>1, <3>2, <3>3 DEF Range
    <3> QED BY <2>1, <3>4 DEF s, t
  <2> QED BY <1>1, <1>2, <2>1, <2>2
<1>7. CASE committed_positions' = <<>> /\ acknowledged' = acknowledged
    BY <1>1, <1>2, <1>3, <1>7
<1>8. CASE committed_positions' = committed_positions /\ acknowledged' = acknowledged
    BY <1>1, <1>2, <1>8
<1>9. ASSUME NEW c \in Configs, CreateSegment(c) \/ ReopenSegment(c)
      PROVE committed_positions' = <<>> /\ acknowledged' = acknowledged
    BY <1>9 DEF CreateSegment, ReopenSegment, FreshWriter
<1>10. ASSUME CloseWriter \/ Crash
       PROVE committed_positions' = <<>> /\ acknowledged' = acknowledged
    BY <1>10 DEF CloseWriter, Crash, WriterGone
<1>11. ASSUME \/ \E p \in Payload : append(p)
              \/ Spill \/ commit_fails \/ recover_wal_segment \/ OpenReader \/ read_next
              \/ UNCHANGED vars
       PROVE committed_positions' = committed_positions /\ acknowledged' = acknowledged
    BY <1>11 DEF append, Spill, commit_fails, recover_wal_segment, OpenReader, read_next,
                 vars, writervars
<1> QED BY <1>5, <1>6, <1>7, <1>8, <1>9, <1>10, <1>11 DEF Next
-----------------------------------------------------------------------------
(* The positions of the commit queue.                                      *)

\* Consecutive records, the last of them at a position.
Counted(queue, last) ==
    \A i \in 1..Len(queue) : queue[i].sequence = last - Len(queue) + i

LEMMA CountedAppend ==
    ASSUME NEW queue \in Seq(Record), NEW r \in Record, NEW last \in Nat,
           NEW next \in Nat, r.sequence = next, Counted(queue, last),
           queue # <<>> => last = next - 1
    PROVE  Append(queue, r) \in Seq(Record) /\ Counted(Append(queue, r), next)
<1> DEFINE more == Append(queue, r)
<1>1. /\ more \in Seq(Record) /\ Len(more) = Len(queue) + 1 /\ Len(queue) \in Nat
      /\ \A i \in 1..Len(queue) : more[i] = queue[i]
      /\ more[Len(queue) + 1] = r
    BY AppendProperties
<1>2. queue = <<>> => Len(queue) = 0
    BY EmptySeq
<1> HIDE DEF more
<1>3. ASSUME NEW i \in 1..Len(more) PROVE more[i].sequence = next - Len(more) + i
  <2>1. CASE i = Len(queue) + 1
      BY <1>1, <2>1
  <2>2. CASE i \in 1..Len(queue)
    <3>1. last = next - 1
        BY <1>2, <2>2
    <3>2. more[i].sequence = last - Len(queue) + i
        BY <1>1, <2>2 DEF Counted
    <3>3. \A n \in Nat, k \in Int, j \in Int : (n - 1) - k + j = n - (k + 1) + j
        OBVIOUS
    <3> QED BY <1>1, <3>1, <3>2, <3>3
  <2>3. i = Len(queue) + 1 \/ i \in 1..Len(queue)
      BY <1>1
  <2> QED BY <2>1, <2>2, <2>3
<1> QED BY <1>1, <1>3 DEF Counted, more

LEMMA CountedTail ==
    ASSUME NEW queue \in Seq(Record), queue # <<>>, NEW last \in Nat, Counted(queue, last)
    PROVE  Counted(Tail(queue), last)
<1> DEFINE rest == Tail(queue)
<1>1. /\ rest \in Seq(Record) /\ Len(rest) = Len(queue) - 1 /\ Len(queue) \in Nat
      /\ \A i \in 1..Len(rest) : rest[i] = queue[i + 1]
    BY HeadTailProperties
<1> HIDE DEF rest
<1>2. ASSUME NEW i \in 1..Len(rest) PROVE rest[i].sequence = last - Len(rest) + i
  <2>1. i \in Int /\ i + 1 \in 1..Len(queue)
      BY <1>1
  <2>2. rest[i].sequence = last - Len(queue) + (i + 1)
      BY <1>1, <2>1 DEF Counted
  <2>3. \A n \in Nat, k \in Int, j \in Int : n - k + (j + 1) = n - (k - 1) + j
      OBVIOUS
  <2> QED BY <1>1, <2>1, <2>2, <2>3
<1> QED BY <1>2 DEF Counted, rest

LEMMA TailConcat ==
    ASSUME NEW s \in Seq(Record), NEW t \in Seq(Record), s # <<>>
    PROVE  Tail(s) \o t = Tail(s \o t) /\ s \o t # <<>>
<1> DEFINE q == s \o t
           l == Tail(s)
<1>1. /\ q \in Seq(Record) /\ Len(q) = Len(s) + Len(t)
      /\ Len(s) \in Nat \ {0} /\ Len(t) \in Nat
      /\ \A i \in 1..Len(q) : q[i] = IF i <= Len(s) THEN s[i] ELSE t[i - Len(s)]
    BY ConcatProperties, EmptySeq
<1>2. /\ l \in Seq(Record) /\ Len(l) = Len(s) - 1
      /\ \A i \in 1..Len(l) : l[i] = s[i + 1]
    BY HeadTailProperties
<1>3. q # <<>>
    BY <1>1, EmptySeq
<1> DEFINE u == l \o t
           v == Tail(q)
<1>4. /\ u \in Seq(Record) /\ Len(u) = Len(l) + Len(t)
      /\ \A i \in 1..Len(u) : u[i] = IF i <= Len(l) THEN l[i] ELSE t[i - Len(l)]
    BY <1>2, ConcatProperties
<1> HIDE DEF q, l
<1>5. /\ v \in Seq(Record) /\ Len(v) = Len(q) - 1
      /\ \A i \in 1..Len(v) : v[i] = q[i + 1]
    BY <1>1, <1>3, HeadTailProperties
<1> HIDE DEF u, v
<1>6. Len(u) = Len(v)
    BY <1>1, <1>2, <1>4, <1>5
<1>7. ASSUME NEW i \in 1..Len(u) PROVE u[i] = v[i]
  <2>1. CASE i <= Len(l)
      BY <1>1, <1>2, <1>4, <1>5, <1>6, <2>1
  <2>2. CASE ~(i <= Len(l))
    <3>1. i \in Int /\ i + 1 \in 1..Len(q) /\ ~(i + 1 <= Len(s))
        BY <1>1, <1>2, <1>4, <2>2
    <3>2. u[i] = t[i - Len(l)] /\ v[i] = t[(i + 1) - Len(s)]
        BY <1>1, <1>4, <1>5, <1>6, <2>2, <3>1
    <3>3. i - Len(l) = (i + 1) - Len(s)
        BY <1>1, <1>2, <3>1
    <3> QED BY <3>2, <3>3
  <2> QED BY <2>1, <2>2
<1>8. u = v
    BY <1>4, <1>5, <1>6, <1>7, SeqEqual
<1> QED BY <1>3, <1>8 DEF q, l, u, v
\* The parts of the queue's invariant, over the values they are about.
QueueParts(committed, pending, last, lastCommitted, next) ==
    /\ Counted(committed \o pending, last)
    /\ lastCommitted # 0 => Len(pending) = last - lastCommitted
    /\ committed \o pending # <<>> \/ lastCommitted # 0 => last = next - 1

LEMMA QueueInvParts ==
    QueueInv <=> QueueParts(committed_positions, pending_positions, last_position,
                            last_committed_position, next_sequence)
    BY DEF QueueInv, QueueParts, Counted, Queue

\* A writer that has just been opened, or is gone.
LEMMA QueueEmpty ==
    ASSUME NEW last \in Nat, NEW next \in Nat, last # 0 => last = next - 1
    PROVE  QueueParts(<<>>, <<>>, last, last, next)
<1>1. <<>> \in Seq(Record) /\ Len(<<>>) = 0
    BY EmptySeq
<1>2. <<>> \o <<>> = <<>>
    BY <1>1, ConcatEmptySeq
<1>3. 0 = last - last
    OBVIOUS
<1> QED BY <1>1, <1>2, <1>3 DEF QueueParts, Counted

LEMMA AppendKeepsQueue ==
    ASSUME IInv, NEW p \in Payload, append(p)
    PROVE  QueueInv'
<1> DEFINE r == [config |-> config, sequence |-> next_sequence, payload |-> p]
           queue == committed_positions \o pending_positions
<1>1. /\ committed_positions \in Seq(Record) /\ pending_positions \in Seq(Record)
      /\ last_position \in Nat /\ last_committed_position \in Nat
      /\ next_sequence \in Nat /\ r \in Record /\ r.sequence = next_sequence
    BY DEF IInv, Types, Record
<1>2. queue \in Seq(Record)
    BY <1>1, ConcatProperties
<1>3. QueueParts(committed_positions, pending_positions, last_position,
                 last_committed_position, next_sequence)
    BY QueueInvParts DEF IInv
<1>4. CASE /\ last_position' = next_sequence
           /\ next_sequence' = next_sequence + 1
           /\ pending_positions' = Append(pending_positions, r)
           /\ UNCHANGED <<committed_positions, last_committed_position>>
  <2> HIDE DEF r
  <2>1. committed_positions \o Append(pending_positions, r) = Append(queue, r)
    <3>1. <<r>> \in Seq(Record)
        BY <1>1
    <3>2. Append(pending_positions, r) = pending_positions \o <<r>>
        BY <1>1, AppendIsConcat
    <3>3. Append(queue, r) = queue \o <<r>>
        BY <1>1, <1>2, AppendIsConcat
    <3>4. committed_positions \o (pending_positions \o <<r>>) = queue \o <<r>>
        BY <1>1, <3>1, ConcatAssociative
    <3> QED BY <3>2, <3>3, <3>4
  <2>2. Counted(queue, last_position)
        /\ (queue # <<>> => last_position = next_sequence - 1)
      BY <1>3 DEF QueueParts
  <2> HIDE DEF queue
  <2>3. Counted(Append(queue, r), next_sequence)
      BY <1>1, <1>2, <2>2, CountedAppend
  <2>4. Len(pending_positions') = Len(pending_positions) + 1 /\ Len(pending_positions) \in Nat
      BY <1>1, <1>4, AppendProperties
  <2>5. last_committed_position # 0 =>
            Len(pending_positions') = next_sequence - last_committed_position
    <3> SUFFICES ASSUME last_committed_position # 0
                 PROVE  Len(pending_positions') = next_sequence - last_committed_position
        OBVIOUS
    <3>1. Len(pending_positions) = last_position - last_committed_position
          /\ last_position = next_sequence - 1
        BY <1>3 DEF QueueParts
    <3> QED BY <1>1, <2>4, <3>1
  <2>6. next_sequence = (next_sequence + 1) - 1
      BY <1>1
  <2>7. QueueParts(committed_positions, pending_positions', next_sequence,
                   last_committed_position, next_sequence + 1)
      BY <1>4, <2>1, <2>3, <2>5, <2>6 DEF QueueParts
  <2> QED BY <1>4, <2>7 DEF QueueParts, QueueInv, Queue, Counted
<1>5. CASE UNCHANGED <<last_position, next_sequence, pending_positions,
                       committed_positions, last_committed_position>>
    BY <1>5 DEF IInv, QueueInv, Queue
<1> QED BY <1>4, <1>5 DEF append

LEMMA CommitKeepsQueue ==
    ASSUME IInv, commit
    PROVE  QueueInv'
<1> DEFINE queue == committed_positions \o pending_positions
<1>1. /\ committed_positions \in Seq(Record) /\ pending_positions \in Seq(Record)
      /\ last_position \in Nat /\ last_committed_position \in Nat
      /\ next_sequence \in Nat
    BY DEF IInv, Types
<1>2. /\ committed_positions' = queue /\ pending_positions' = <<>>
      /\ last_position' = last_position /\ next_sequence' = next_sequence
      /\ pending_positions = <<>> => last_committed_position' = last_committed_position
      /\ pending_positions # <<>> =>
            last_committed_position' = Last(pending_positions).sequence
    BY DEF commit, Publish
<1>3. QueueParts(committed_positions, pending_positions, last_position,
                 last_committed_position, next_sequence)
    BY QueueInvParts DEF IInv
<1>4. Counted(queue, last_position)
      /\ (queue # <<>> \/ last_committed_position # 0 => last_position = next_sequence - 1)
    BY <1>3 DEF QueueParts
<1>5. /\ queue \in Seq(Record)
      /\ Len(queue) = Len(committed_positions) + Len(pending_positions)
      /\ Len(committed_positions) \in Nat /\ Len(pending_positions) \in Nat
      /\ Len(pending_positions) # 0 =>
            queue[Len(queue)] = pending_positions[Len(pending_positions)]
  <2>1. /\ queue \in Seq(Record)
        /\ Len(queue) = Len(committed_positions) + Len(pending_positions)
        /\ \A i \in 1..Len(committed_positions) + Len(pending_positions) :
              queue[i] = IF i <= Len(committed_positions) THEN committed_positions[i]
                         ELSE pending_positions[i - Len(committed_positions)]
        /\ Len(committed_positions) \in Nat /\ Len(pending_positions) \in Nat
      BY <1>1, ConcatProperties
  <2> HIDE DEF queue
  <2>2. \A m, n \in Nat : n # 0 => /\ m + n \in 1..m + n /\ ~(m + n <= m)
                                   /\ (m + n) - m = n
      OBVIOUS
  <2>3. Len(pending_positions) # 0 =>
            queue[Len(queue)] = pending_positions[Len(pending_positions)]
      BY <2>1, <2>2
  <2> QED BY <2>1, <2>3
<1> HIDE DEF queue
<1>6. queue \o <<>> = queue /\ Len(<<>>) = 0
    BY <1>5, ConcatEmptySeq, EmptySeq
<1>7. CASE pending_positions = <<>>
  <2>1. Len(pending_positions) = 0
      BY <1>7
  <2>2. last_committed_position # 0 => 0 = last_position - last_committed_position
      BY <1>3, <2>1 DEF QueueParts
  <2>3. QueueParts(queue, <<>>, last_position, last_committed_position, next_sequence)
      BY <1>4, <1>6, <2>2 DEF QueueParts
  <2> QED BY <1>2, <1>7, <2>3 DEF QueueParts, QueueInv, Queue, Counted
<1>8. CASE pending_positions # <<>>
  <2>1. Len(pending_positions) # 0
      BY <1>1, <1>8, EmptySeq
  <2>2. Len(queue) \in 1..Len(queue) /\ queue # <<>>
      BY <1>5, <2>1
  <2>3. last_committed_position' = queue[Len(queue)].sequence
      BY <1>2, <1>5, <1>8, <2>1 DEF Last
  <2>4. queue[Len(queue)].sequence = last_position - Len(queue) + Len(queue)
      BY <1>4, <2>2 DEF Counted
  <2>5. last_committed_position' = last_position
      BY <1>1, <1>5, <2>3, <2>4
  <2>6. 0 = last_position - last_position
      BY <1>1
  <2>7. QueueParts(queue, <<>>, last_position, last_position, next_sequence)
      BY <1>4, <1>6, <2>2, <2>6 DEF QueueParts
  <2> QED BY <1>2, <2>5, <2>7 DEF QueueParts, QueueInv, Queue, Counted
<1> QED BY <1>7, <1>8

LEMMA PopKeepsQueue ==
    ASSUME IInv, pop_committed_position
    PROVE  QueueInv'
<1>1. /\ committed_positions \in Seq(Record) /\ pending_positions \in Seq(Record)
      /\ last_position \in Nat
    BY DEF IInv, Types
<1>2. /\ committed_positions # <<>>
      /\ committed_positions' = Tail(committed_positions)
      /\ UNCHANGED <<pending_positions, last_position, last_committed_position,
                     next_sequence>>
    BY DEF pop_committed_position
<1>3. QueueParts(committed_positions, pending_positions, last_position,
                 last_committed_position, next_sequence)
    BY QueueInvParts DEF IInv
<1>4. /\ Tail(committed_positions) \o pending_positions =
            Tail(committed_positions \o pending_positions)
      /\ committed_positions \o pending_positions # <<>>
      /\ committed_positions \o pending_positions \in Seq(Record)
    BY <1>1, <1>2, TailConcat, ConcatProperties
<1>5. Counted(Tail(committed_positions \o pending_positions), last_position)
    BY <1>1, <1>3, <1>4, CountedTail DEF QueueParts
<1>6. QueueParts(Tail(committed_positions), pending_positions, last_position,
                 last_committed_position, next_sequence)
    BY <1>3, <1>4, <1>5 DEF QueueParts
<1> QED BY <1>2, <1>6 DEF QueueParts, QueueInv, Queue, Counted

LEMMA NextKeepsQueue ==
    ASSUME Application, IInv, [Next]_vars
    PROVE  QueueInv'
<1>1. CASE /\ committed_positions' = <<>> /\ pending_positions' = <<>>
           /\ last_committed_position' = last_position'
           /\ last_position' \in Nat /\ next_sequence' \in Nat
           /\ last_position' # 0 => last_position' = next_sequence' - 1
  <2>1. QueueParts(<<>>, <<>>, last_position', last_position', next_sequence')
      BY <1>1, QueueEmpty
  <2> QED BY <1>1, <2>1 DEF QueueParts, QueueInv, Queue, Counted
<1>2. 0 \in Nat /\ \A c \in Configs : c.first_sequence \in Nat
    BY ConfigAssumption
<1>3. ASSUME NEW c \in Configs, CreateSegment(c) PROVE QueueInv'
    BY <1>1, <1>2, <1>3 DEF CreateSegment, FreshWriter
<1>4. ASSUME CloseWriter \/ Crash PROVE QueueInv'
    BY <1>1, <1>2, <1>4 DEF CloseWriter, Crash, WriterGone
<1>5. ASSUME NEW c \in Configs, ReopenSegment(c) PROVE QueueInv'
  <2>1. committed_positions' = <<>> /\ pending_positions' = <<>>
      BY <1>5 DEF ReopenSegment, FreshWriter
  <2>2. CASE last_position' = 0 /\ last_committed_position' = 0
             /\ next_sequence' = c.first_sequence
      BY <1>1, <1>2, <2>1, <2>2
  <2>3. CASE /\ ValidSegment(file) /\ file[1].of = c
             /\ next_sequence' = SequenceAfter(scan(file).log, c)
             /\ last_position' = (IF scan(file).log = <<>> THEN 0
                                  ELSE Last(scan(file).log).sequence)
             /\ last_committed_position' = last_position'
    <3>1. Segment(file) /\ Padded = {}
        BY <2>3 DEF IInv, SegmentAt, Settled, Segment, Application
    <3>2. next_sequence' \in Nat /\ last_position' \in Nat
        BY NextKeepsTypes DEF Types
    <3>3. scan(file).log # <<>> => last_position' = next_sequence' - 1
        BY <2>3, <3>1, ReopenSequence
    <3>4. last_position' # 0 => last_position' = next_sequence' - 1
        BY <2>3, <3>3
    <3> QED BY <1>1, <2>1, <2>3, <3>2, <3>4
  <2> QED BY <1>5, <2>2, <2>3 DEF ReopenSegment
<1>6. CASE UNCHANGED <<committed_positions, pending_positions, last_position,
                       last_committed_position, next_sequence>>
    BY <1>6 DEF IInv, QueueInv, Queue
<1>7. ASSUME \/ Spill \/ commit_fails \/ recover_wal_segment \/ OpenReader \/ read_next
             \/ UNCHANGED vars
      PROVE QueueInv'
    BY <1>6, <1>7 DEF Spill, commit_fails, recover_wal_segment, OpenReader, read_next,
                      vars, writervars
<1> QED BY <1>3, <1>4, <1>5, <1>7, AppendKeepsQueue, CommitKeepsQueue, PopKeepsQueue
        DEF Next

-----------------------------------------------------------------------------
\* The inductive invariant holds of every step.
LEMMA NextKeepsIInv ==
    ASSUME Application, IInv, [Next]_vars
    PROVE  IInv'
<1>1. SegmentKept
    BY NextKeepsSegment
<1>2. Types'
    BY NextKeepsTypes
<1>3. QueueInv'
    BY NextKeepsQueue
<1>4. Kept'
    BY NextKeepsKept
<1>5. (\E b : SegmentAt(b))'
    BY <1>1 DEF SegmentKept
<1> QED BY <1>2, <1>3, <1>4, <1>5 DEF IInv

LEMMA Inductive ==
    ASSUME Application
    PROVE  Spec => []IInv
<1>1. Init => IInv
    BY InitHolds
<1>2. IInv /\ [Next]_vars => IInv'
    BY NextKeepsIInv
<1> QED BY <1>1, <1>2, PTL DEF Spec
-----------------------------------------------------------------------------
(* The theorems about one segment.                                         *)

LEMMA Consequences ==
    ASSUME Application, IInv
    PROVE  /\ TypeOK
           /\ CommittedReadBack
           /\ WriterContinuesLog
           /\ CommitQueueExact
           /\ DeliveredIsLogged
<1> PICK base : SegmentAt(base)
    BY DEF IInv
<1>1. TypeOK
    BY DEF IInv, Types, TypeOK, ReaderType
<1>2. CommittedReadBack
    BY DEF IInv, Kept, CommittedReadBack
<1>3. WriterContinuesLog
  <2> DEFINE g == file \o stream_buffer
  <2>1. SUFFICES ASSUME writer = "None"
                 PROVE  /\ scan(g).error = "None"
                        /\ next_sequence = config.first_sequence + Len(scan(g).log)
                        /\ file # <<>> => file[1].of = config
      BY DEF WriterContinuesLog
  <2>2. /\ file \in Seq(UnitSet) /\ stream_buffer \in Seq(UnitSet)
        /\ Clean(g, config)
        /\ next_sequence = config.first_sequence + Len(scan(g).log)
      BY <2>1 DEF SegmentAt, Settled, WriterAt, IInv, Types
  <2>3. file # <<>> => g[1] = file[1]
    <3>1. file # <<>> => Len(file) \in Nat \ {0}
        BY <2>2, EmptySeq
    <3> QED BY <2>2, <3>1, ConcatAgree DEF Agree
  <2> QED BY <2>2, <2>3 DEF Clean
<1>4. CommitQueueExact
  <2>1. DOMAIN Queue = 1..Len(Queue)
    <3>1. Queue \in Seq(Record)
        BY ConcatProperties DEF IInv, Types, Queue
    <3> QED BY <3>1, LenProperties
  <2> QED BY <2>1 DEF IInv, QueueInv, Queue, Kept, CommitQueueExact
<1>5. DeliveredIsLogged
    BY DEF SegmentAt, Reads, DeliveredIsLogged
<1> QED BY <1>1, <1>2, <1>3, <1>4, <1>5

\* The writer's error, its counters, the records it tracks and the reader's
\* position keep their types; a torn tail is never the error a writer is left
\* with.
THEOREM SegmentTypes ==
    ASSUME Application
    PROVE  Spec => []TypeOK
<1>1. IInv => TypeOK
    BY Consequences
<1> QED BY <1>1, Inductive, PTL

\* Whatever crashes, failed writes, reopenings and recoveries follow, a record
\* that a successful commit() covered is one that a scan of the file returns.
THEOREM CommittedIsDurable ==
    ASSUME Application
    PROVE  Spec => []CommittedReadBack
<1>1. IInv => CommittedReadBack
    BY Consequences
<1> QED BY <1>1, Inductive, PTL

\* A writer that has not failed appends to a clean log of its own stream and
\* gives the next record the sequence behind the last one of it.
THEOREM WriterAlwaysContinues ==
    ASSUME Application
    PROVE  Spec => []WriterContinuesLog
<1>1. IInv => WriterContinuesLog
    BY Consequences
<1> QED BY <1>1, Inductive, PTL

\* The positions that commit() publishes and those that still wait for it are
\* consecutive and end at last_position; the published ones are in the file.
THEOREM CommitQueueAlwaysExact ==
    ASSUME Application
    PROVE  Spec => []CommitQueueExact
<1>1. IInv => CommitQueueExact
    BY Consequences
<1> QED BY <1>1, Inductive, PTL

\* A reader that tails the file while it is written, cut and written anew has
\* returned a prefix of the log that recovery keeps.
THEOREM TailingReaderIsSafe ==
    ASSUME Application
    PROVE  Spec => []DeliveredIsLogged
<1>1. IInv => DeliveredIsLogged
    BY Consequences
<1> QED BY <1>1, Inductive, PTL

\* No append, spill, flush, failure, cut or reopening takes a record out of the
\* log or changes one that is in it.
THEOREM LogAlwaysGrows ==
    ASSUME Application
    PROVE  Spec => LogOnlyGrows
<1>1. IInv /\ [Next]_vars => [IsPrefix(scan(file).log, scan(file').log)]_vars
    BY NextKeepsSegment DEF SegmentKept
<1> QED BY <1>1, Inductive, PTL DEF Spec, LogOnlyGrows
-----------------------------------------------------------------------------
(* The segment implements the durable log.                                 *)

LEMMA LogStarts ==
    ASSUME Init
    PROVE  Log!LogInit
<1>1. ~ValidSegment(file)
  <2>1. Len(file) = 0
      BY EmptySeq DEF Init
  <2> QED BY <2>1 DEF ValidSegment
<1>2. scan(file).log = <<>>
    BY <1>1 DEF scan
<1> QED BY <1>2 DEF Init, Log!LogInit

\* The log of a file in order: its records count up from the first.
LEMMA LogCounts ==
    ASSUME NEW f \in Seq(UnitSet), Padded = {}
    PROVE  LET log == scan(f).log
           IN  /\ log \in Seq(Record)
               /\ Range(log) \subseteq Record
               /\ \A i \in DOMAIN log : log[i].sequence = log[1].sequence + i - 1
<1> DEFINE log == scan(f).log
<1>1. log \in Seq(Record)
    BY ScanLog
<1>2. Range(log) \subseteq Record /\ DOMAIN log = 1..Len(log) /\ Len(log) \in Nat
    BY <1>1, RangeOfSeq, LenProperties
<1>3. CASE ValidSegment(f)
  <2>1. Segment(f)
      BY <1>3 DEF Segment
  <2>2. /\ f[1].of.first_sequence \in Nat
        /\ \A i \in 1..Len(log) : log[i].sequence = f[1].of.first_sequence + i - 1
    <3>1. End(f).log = log
        BY DEF End
    <3> QED BY <2>1, <3>1, ScanEnd, BoundaryLog, SegmentConfig
  <2> HIDE DEF log
  <2>3. ASSUME NEW i \in 1..Len(log) PROVE log[i].sequence = log[1].sequence + i - 1
    <3>1. 1 \in 1..Len(log)
        BY <1>2
    <3>2. log[1].sequence = f[1].of.first_sequence
        BY <2>2, <3>1
    <3> QED BY <2>2, <3>2
  <2> QED BY <1>1, <1>2, <2>3 DEF log
<1>4. CASE ~ValidSegment(f)
  <2>1. log = <<>> /\ Len(<<>>) = 0
      BY <1>4 DEF scan
  <2>2. DOMAIN log = {}
      BY <1>2, <2>1
  <2> HIDE DEF log
  <2> QED BY <1>1, <1>2, <2>2 DEF log
<1> QED BY <1>3, <1>4

\* The library's operators are the same seen through the instance.
LEMMA SameOperators ==
    /\ \A s : Log!Range(s) = Range(s)
    /\ \A s, t : Log!IsPrefix(s, t) <=> IsPrefix(s, t)
<1>1. \A s : Log!Range(s) = Range(s)
    BY DEF Range, Log!Range
<1>2. \A s, t : Log!IsPrefix(s, t) <=> IsPrefix(s, t)
    BY DEF IsPrefix, Log!IsPrefix
<1> QED BY <1>1, <1>2

LEMMA StepGrows ==
    ASSUME Application, IInv, [Next]_vars
    PROVE  Log!Grows
<1>1. SegmentKept
    BY NextKeepsSegment
<1>2. Padded = {} /\ file' \in Seq(UnitSet)
    BY <1>1 DEF Application, SegmentKept, SegmentAt, Settled
<1>3. LET log == scan(file').log
      IN  /\ Range(log) \subseteq Record
          /\ \A i \in DOMAIN log : log[i].sequence = log[1].sequence + i - 1
    BY <1>2, LogCounts
<1> QED BY <1>1, <1>3, SameOperators DEF SegmentKept, Log!Grows

\* Every step of the segment is one of the log's, or none.
LEMMA StepIsLogged ==
    ASSUME Application, IInv, [Next]_vars
    PROVE  [Log!LogNext]_(Log!logvars)
<1>1. Log!Grows
    BY StepGrows
<1>2. CASE acknowledged' = acknowledged /\ delivered' = delivered
    BY <1>1, <1>2 DEF Log!LogNext, Log!Extend
<1>3. CASE commit
  <2>1. acknowledged' = acknowledged \union Range(pending_positions)
        /\ delivered' = delivered
      BY <1>3 DEF commit, readervars
  <2>2. acknowledged' \subseteq Range(scan(file').log)
      BY NextKeepsKept DEF Kept
  <2>3. acknowledged' \subseteq Log!Range(scan(file').log)
      BY <2>2, SameOperators
  <2> QED BY <1>1, <2>1, <2>3 DEF Log!LogNext, Log!Acknowledge
<1>4. CASE OpenReader
    BY <1>4 DEF OpenReader, Log!LogNext, Log!StartReader
<1>5. CASE read_next
  <2>1. file' = file /\ acknowledged' = acknowledged
      BY <1>5 DEF read_next
  <2>2. \/ delivered' = delivered
        \/ /\ Len(delivered) < Len(scan(file).log)
           /\ delivered' = Append(delivered, scan(file).log[Len(delivered) + 1])
      BY <1>5, ReadStep
  <2> QED BY <1>2, <2>1, <2>2 DEF Log!LogNext, Log!Deliver
<1>6. ASSUME \/ \E c \in Configs : CreateSegment(c) \/ ReopenSegment(c)
             \/ \E p \in Payload : append(p)
             \/ Spill \/ commit_fails \/ pop_committed_position
             \/ CloseWriter \/ Crash \/ recover_wal_segment \/ UNCHANGED vars
      PROVE acknowledged' = acknowledged /\ delivered' = delivered
    BY <1>6 DEF CreateSegment, ReopenSegment, FreshWriter, append, Spill, commit_fails,
                pop_committed_position, CloseWriter, Crash, WriterGone,
                recover_wal_segment, vars, readervars
<1> QED BY <1>2, <1>3, <1>4, <1>5, <1>6 DEF Next

\* The file, its writers and its reader implement the log that DurableLog
\* describes: it only grows and counts up without a gap, what is acknowledged
\* is in it, and a reader is handed its records in order, none skipped.
THEOREM SegmentIsDurableLog ==
    ASSUME Application
    PROVE  Spec => ImplementsDurableLog
<1>1. Init => Log!LogInit
    BY LogStarts
<1>2. IInv /\ [Next]_vars => [Log!LogNext]_(Log!logvars)
    BY StepIsLogged
<1> QED BY <1>1, <1>2, Inductive, PTL DEF Spec, ImplementsDurableLog, Log!LogSpec
=============================================================================
