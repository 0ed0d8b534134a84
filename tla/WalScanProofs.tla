--------------------------- MODULE WalScanProofs ---------------------------
(***************************************************************************)
(* What a scan of a segment returns, for files of any length. The walk of  *)
(* the scan is a function defined by recursion, so induction over the      *)
(* number of passes is first derived from the cardinality of finite sets   *)
(* (SetInduction). From it follow the existence of the walk, the form of   *)
(* the places it reaches (Boundary), that a scan ends at the last of them, *)
(* and how the places of two files are related that agree up to an offset, *)
(* that extend each other, or of which one is cut where a scan says so.    *)
(***************************************************************************)
EXTENDS WalSegment, SequenceTheorems, FiniteSetTheorems, TLAPS

\* A set with 0 and the successors of its members has every natural number.
LEMMA SetInduction ==
    ASSUME NEW T, 0 \in T, \A n \in Nat : n \in T => n + 1 \in T
    PROVE  Nat \subseteq T
<1> SUFFICES ASSUME NEW n \in Nat, n \notin T PROVE FALSE
    OBVIOUS
<1> DEFINE A == {x \in 0..n : x \in T}
           B == A \ {0}
           f == [x \in A |-> x + 1]
<1>1. IsFiniteSet(A) /\ 0 \in A
  <2>1. IsFiniteSet(0..n)
      BY FS_Interval
  <2> QED BY <2>1, FS_Subset
<1>2. f \in [A -> B]
  <2> SUFFICES ASSUME NEW x \in A PROVE x + 1 \in B
      OBVIOUS
  <2>1. x # n
      OBVIOUS
  <2>2. x + 1 \in 0..n /\ x + 1 \in T /\ x + 1 # 0
      BY <2>1
  <2> QED BY <2>2
<1>3. IsInjective(f)
    BY DEF IsInjective
<1>4. IsFiniteSet(B) /\ Cardinality(B) = Cardinality(A) - 1
    BY <1>1, FS_RemoveElement
<1>5. Cardinality(A) \in Nat
    BY <1>1, FS_CardinalityType
<1> HIDE DEF A, B, f
<1>6. f \in Injection(A, B)
    BY <1>2, <1>3 DEF Injection
<1>7. Cardinality(A) <= Cardinality(B)
    BY <1>1, <1>4, <1>6, FS_Injection
<1> QED BY <1>4, <1>5, <1>7

LEMMA Iteration ==
    ASSUME NEW p, NEW s
    PROVE  \E V, w : /\ w \in [Nat -> V]
                     /\ w[0] = s
                     /\ \A n \in Nat \ {0} : w[n] = p[w[n - 1]]
<1> DEFINE Upto(n, w) == /\ w[0] = s
                         /\ \A k \in 1..n : w[k] = p[w[k - 1]]
           T == {n \in Nat : \E w : Upto(n, w)}
<1>1. 0 \in T
  <2>1. Upto(0, [k \in 0..0 |-> s])
      OBVIOUS
  <2> QED BY <2>1
<1>2. ASSUME NEW n \in Nat, n \in T PROVE n + 1 \in T
  <2> PICK w : Upto(n, w)
      BY <1>2
  <2> DEFINE v == [k \in 0..n + 1 |-> IF k = n + 1 THEN p[w[n]] ELSE w[k]]
  <2>1. v[0] = s
      OBVIOUS
  <2>2. ASSUME NEW k \in 1..n + 1 PROVE v[k] = p[v[k - 1]]
    <3>1. CASE k = n + 1
        BY <3>1
    <3>2. CASE k \in 1..n
      <4>1. v[k] = w[k] /\ v[k - 1] = w[k - 1]
          BY <3>2
      <4>2. w[k] = p[w[k - 1]]
          BY <3>2
      <4> QED BY <4>1, <4>2
    <3> QED BY <3>1, <3>2
  <2>3. Upto(n + 1, v)
      BY <2>1, <2>2
  <2> QED BY <2>3
<1>3. \A n \in Nat : \E w : Upto(n, w)
  <2> HIDE DEF Upto
  <2> QED BY <1>1, <1>2, SetInduction
<1> DEFINE of[n \in Nat] == CHOOSE w : Upto(n, w)
<1>4. \A n \in Nat : Upto(n, of[n])
    BY <1>3
<1>5. \A n \in Nat : \A m \in Nat : n <= m => of[n][n] = of[m][n]
  <2> DEFINE S == {n \in Nat : \A m \in Nat : n <= m => of[n][n] = of[m][n]}
  <2> HIDE DEF of
  <2>1. 0 \in S
      BY <1>4
  <2>2. ASSUME NEW n \in Nat, n \in S PROVE n + 1 \in S
    <3> SUFFICES ASSUME NEW m \in Nat, n + 1 <= m
                 PROVE  of[n + 1][n + 1] = of[m][n + 1]
        OBVIOUS
    <3>1. of[n + 1][n] = of[m][n]
        BY <2>2
    <3>2. of[n + 1][n + 1] = p[of[n + 1][n]] /\ of[m][n + 1] = p[of[m][n]]
      <4>1. n + 1 \in 1..n + 1 /\ n + 1 \in 1..m /\ (n + 1) - 1 = n
          OBVIOUS
      <4> QED BY <1>4, <4>1
    <3> QED BY <3>1, <3>2
  <2> HIDE DEF S
  <2>3. Nat \subseteq S
      BY <2>1, <2>2, SetInduction
  <2> QED BY <2>3 DEF S
<1> DEFINE w == [n \in Nat |-> of[n][n]]
<1>6. w[0] = s
    BY <1>4
<1>7. ASSUME NEW n \in Nat \ {0} PROVE w[n] = p[w[n - 1]]
  <2> HIDE DEF of
  <2>1. n - 1 \in Nat /\ n - 1 <= n /\ n \in 1..n
      OBVIOUS
  <2>2. of[n][n] = p[of[n][n - 1]]
      BY <2>1, <1>4
  <2>3. of[n - 1][n - 1] = of[n][n - 1]
      BY <2>1, <1>5
  <2> QED BY <2>1, <2>2, <2>3
<1>8. w \in [Nat -> {w[n] : n \in Nat}]
    OBVIOUS
<1> HIDE DEF w
<1> QED BY <1>6, <1>7, <1>8

LEMMA WalkFcn ==
    ASSUME NEW f
    PROVE  /\ Walk(f)[0] = Start
           /\ \A n \in Nat : Walk(f)[n + 1] = Pass(f)[Walk(f)[n]]
<1> PICK V, w : /\ w \in [Nat -> V]
                /\ w[0] = Start
                /\ \A n \in Nat \ {0} : w[n] = Pass(f)[w[n - 1]]
  <2> DEFINE Iterates(p, s, V, w) == /\ w \in [Nat -> V]
                                     /\ w[0] = s
                                     /\ \A n \in Nat \ {0} : w[n] = p[w[n - 1]]
  <2>1. \A p, s : \E V, w : Iterates(p, s, V, w)
      BY Iteration
  <2>2. \E V, w : Iterates(Pass(f), Start, V, w)
    <3> HIDE DEF Iterates
    <3> QED BY <2>1
  <2> QED BY <2>2
<1>1. \E u : u = [n \in Nat |-> IF n = 0 THEN Start ELSE Pass(f)[u[n - 1]]]
  <2>1. w = [n \in Nat |-> IF n = 0 THEN Start ELSE Pass(f)[w[n - 1]]]
      OBVIOUS
  <2> QED BY <2>1
<1>2. Walk(f) = [n \in Nat |-> IF n = 0 THEN Start ELSE Pass(f)[Walk(f)[n - 1]]]
    BY <1>1 DEF Walk
<1> HIDE DEF Walk
<1>3. Walk(f)[0] = Start
    BY <1>2
<1>4. ASSUME NEW n \in Nat PROVE Walk(f)[n + 1] = Pass(f)[Walk(f)[n]]
  <2>1. n + 1 \in Nat /\ n + 1 # 0 /\ (n + 1) - 1 = n
      OBVIOUS
  <2> QED BY <1>2, <2>1
<1> QED BY <1>3, <1>4
------------------------------------------------------------------------------
(* The units of a segment.                                                 *)

UnitSet ==
    [part : {"segment_front", "segment_back"}, of : Configs]
        \cup [part : {"header_front", "header_back"}, of : Record]
        \cup [part : {"payload"}, of : Payload]
        \cup [part : {"padding"}, of : {"zeros"}]

Segment(f) == f \in Seq(UnitSet) /\ ValidSegment(f)

\* The units of a record without padding.
Size(r) == IF r.payload \in Empty THEN 2 ELSE 3

\* The record r is whole at offset o.
HoldsAt(f, o, r) ==
    /\ o + 2 <= Len(f)
    /\ f[o + 1] = Unit("header_front", r)
    /\ f[o + 2] = Unit("header_back", r)
    /\ r.payload \notin Empty =>
          o + 3 <= Len(f) /\ f[o + 3] = Unit("payload", r.payload)

\* The record r is the one that a walk at this place accepts.
Stands(f, at, r) ==
    /\ HoldsAt(f, at.offset, r)
    /\ r.config.stream_id = f[1].of.stream_id
    /\ r.config.epoch = f[1].of.epoch
    /\ r.sequence = f[1].of.first_sequence + Len(at.log)

After(at, r) ==
    [log |-> Append(at.log, r), offset |-> at.offset + Size(r)]

LEMMA SegmentConfig ==
    ASSUME NEW f, Segment(f)
    PROVE  /\ f[1].of \in Configs
           /\ f[1].of.first_sequence \in Nat \ {0}
           /\ Len(f) \in Nat /\ Len(f) >= 2
<1>1. f \in Seq(UnitSet) /\ Len(f) \in Nat /\ Len(f) >= 2
    BY DEF Segment, ValidSegment
<1>2. f[1] \in UnitSet /\ f[1].part = "segment_front"
    BY <1>1 DEF Segment, ValidSegment
<1>3. f[1].of \in Configs
    BY <1>2 DEF UnitSet
<1>4. f[1].of.first_sequence # 0
    BY DEF Segment, ValidSegment, has_valid_static_fields
<1> QED BY <1>1, <1>3, <1>4, ConfigAssumption

LEMMA RestOf ==
    ASSUME NEW f \in Seq(UnitSet), NEW o \in Nat, o <= Len(f)
    PROVE  /\ SubSeq(f, o + 1, Len(f)) \in Seq(UnitSet)
           /\ Len(SubSeq(f, o + 1, Len(f))) = Len(f) - o
           /\ \A i \in 1..Len(f) - o : SubSeq(f, o + 1, Len(f))[i] = f[o + i]
<1>1. Len(f) \in Nat /\ f \in Seq(UnitSet)
    OBVIOUS
<1>2. \A i \in o + 1..Len(f) : f[i] \in UnitSet
    BY <1>1
<1> QED BY <1>1, <1>2, SubSeqProperties

LEMMA UnitRecord ==
    ASSUME NEW u \in UnitSet, u.part = "header_front"
    PROVE  u.of \in Record
    BY DEF UnitSet

\* The units begin with the record r of this stream and sequence.
Begins(units, c, s, r) ==
    /\ HoldsAt(units, 0, r)
    /\ r.config.stream_id = c.stream_id
    /\ r.config.epoch = c.epoch
    /\ r.sequence = s

LEMMA FrameIs ==
    ASSUME NEW units \in Seq(UnitSet), NEW c, NEW s, Padded = {}
    PROVE  LET frame == Frame(units, c, s)
           IN  /\ frame.kind \in {"EndOfLog", "Torn", "Bad", "Record"}
               /\ frame.kind = "EndOfLog" <=> units = <<>>
               /\ frame.kind = "Torn" =>
                     \/ Len(units) = 1
                     \/ /\ Len(units) = 2
                        /\ units[1] = Unit("header_front", units[1].of)
                        /\ units[2] = Unit("header_back", units[1].of)
                        /\ units[1].of.sequence = s
                        /\ units[1].of.payload \notin Empty
               /\ frame.kind = "Record" => Begins(units, c, s, units[1].of)
               /\ \A r : Begins(units, c, s, r) =>
                     /\ frame = [kind |-> "Record", used |-> Size(r)]
                     /\ units[1].of = r
<1> DEFINE r1 == units[1].of
<1>1. Len(units) \in Nat /\ \A i \in 1..Len(units) : units[i] \in UnitSet
    BY ElementOfSeq
<1>2. \A r : Len(RecordUnits(r)) = Size(r)
    BY DEF RecordUnits, Size, Unit
<1>3. Frame(units, c, s).kind \in {"EndOfLog", "Torn", "Bad", "Record"}
    BY DEF Frame
<1>4. Frame(units, c, s).kind = "EndOfLog" <=> units = <<>>
    BY DEF Frame
<1>5. units # <<>> <=> Len(units) >= 1
    BY <1>1, EmptySeq
<1>6. ASSUME Len(units) >= 2, ExpectedHeader(units, c, s)
      PROVE  /\ units[1] = Unit("header_front", r1)
             /\ units[2] = Unit("header_back", r1)
             /\ r1.sequence = s
  <2>1. units[1] \in UnitSet
      BY <1>1, <1>6
  <2> QED BY <1>6, <2>1 DEF ExpectedHeader, Unit, UnitSet
<1>7. ASSUME NEW r, Begins(units, c, s, r)
      PROVE  Frame(units, c, s) = [kind |-> "Record", used |-> Size(r)] /\ r1 = r
  <2>1. /\ Len(units) >= 2 /\ units # <<>>
        /\ units[1] = Unit("header_front", r) /\ units[2] = Unit("header_back", r)
      BY <1>7, <1>1, <1>5 DEF Begins, HoldsAt
  <2>2. r.payload \notin Empty =>
           Len(units) >= 3 /\ units[3] = Unit("payload", r.payload)
      BY <1>7, <1>1 DEF Begins, HoldsAt
  <2>3. ExpectedHeader(units, c, s)
      BY <2>1, <1>7 DEF ExpectedHeader, Begins, Unit
  <2>4. r1 = r
      BY <2>1 DEF Unit
  <2>5. ~(Len(units) < Size(r))
      BY <2>1, <2>2, <1>1 DEF Size
  <2> QED BY <2>1, <2>2, <2>3, <2>4, <2>5, <1>1, <1>2 DEF Frame, PayloadIntact
<1>8. ASSUME Frame(units, c, s).kind = "Record"
      PROVE  Begins(units, c, s, r1)
  <2>1. /\ Len(units) >= 2
        /\ ExpectedHeader(units, c, s)
        /\ r1.payload \notin Empty =>
              Len(units) >= 3 /\ units[3] = Unit("payload", r1.payload)
      BY <1>8, <1>1 DEF Frame, PayloadIntact
  <2> QED BY <2>1, <1>1, <1>6 DEF Begins, HoldsAt, ExpectedHeader
<1>9. ASSUME Frame(units, c, s).kind = "Torn", Len(units) # 1
      PROVE  Len(units) = 2 /\ ExpectedHeader(units, c, s) /\ r1.payload \notin Empty
  <2>0. units # <<>>
      BY <1>4, <1>9, Zenon
  <2>1. Len(units) >= 2 /\ units # <<>>
      BY <2>0, <1>1, <1>5, <1>9
  <2>2. ExpectedHeader(units, c, s)
      BY <2>1, <1>1, <1>9 DEF Frame
  <2>3. r1.payload \notin Empty /\ Len(units) < 3
      BY <2>1, <2>2, <1>1, <1>9 DEF Frame
  <2>4. Len(units) = 2
    <3>1. \A n \in Nat : n >= 2 /\ n < 3 => n = 2
        OBVIOUS
    <3> QED BY <3>1, <2>1, <2>3, <1>1
  <2> QED BY <2>2, <2>3, <2>4
<1> QED BY <1>3, <1>4, <1>6, <1>7, <1>8, <1>9

\* What a walk meets is the record that stands there, or none.
LEMMA FrameRecord ==
    ASSUME NEW f, Segment(f), NEW at \in Place, at.offset <= Len(f),
           Padded = {}
    PROVE  /\ FrameAt(f, at).kind \in {"EndOfLog", "Torn", "Bad", "Record"}
           /\ FrameAt(f, at).kind = "EndOfLog" <=> at.offset = Len(f)
           /\ \A r : Stands(f, at, r) =>
                 FrameAt(f, at) = [kind |-> "Record", used |-> Size(r)]
           /\ FrameAt(f, at).kind = "Record" =>
                 Stands(f, at, f[at.offset + 1].of)
           /\ FrameAt(f, at).kind = "Torn" =>
                 \/ Len(f) = at.offset + 1
                 \/ /\ Len(f) = at.offset + 2
                    /\ \E r : /\ f[at.offset + 1] = Unit("header_front", r)
                              /\ f[at.offset + 2] = Unit("header_back", r)
                              /\ r.sequence = f[1].of.first_sequence + Len(at.log)
                              /\ r.payload \notin Empty
<1> DEFINE o == at.offset
           rest == SubSeq(f, o + 1, Len(f))
           c == f[1].of
           s == c.first_sequence + Len(at.log)
<1>1. o \in Nat /\ Len(f) \in Nat /\ f \in Seq(UnitSet) /\ s \in Nat
    BY SegmentConfig DEF Place, Segment
<1>2. /\ rest \in Seq(UnitSet) /\ Len(rest) = Len(f) - o
      /\ \A i \in 1..Len(f) - o : rest[i] = f[o + i]
    BY <1>1, RestOf
<1>3. FrameAt(f, at) = Frame(rest, c, s)
    BY DEF FrameAt
<1> HIDE DEF rest
<1>10. Len(rest) = Len(f) - o
    BY <1>2
<1>4. rest = <<>> <=> o = Len(f)
    BY <1>1, <1>2, EmptySeq
<1>5. \A r : Stands(f, at, r) <=> Begins(rest, c, s, r)
  <2>1. \A i \in 1..3 : o + i <= Len(f) <=> 0 + i <= Len(rest)
      BY <1>1, <1>2
  <2>2. \A i \in 1..3 : o + i <= Len(f) => f[o + i] = rest[0 + i]
      BY <1>1, <1>2
  <2>4. /\ o + 2 <= Len(f) <=> 0 + 2 <= Len(rest)
        /\ o + 3 <= Len(f) <=> 0 + 3 <= Len(rest)
        /\ o + 3 <= Len(f) => f[o + 3] = rest[0 + 3]
      BY <2>1, <2>2
  <2>5. o + 2 <= Len(f) => f[o + 1] = rest[0 + 1] /\ f[o + 2] = rest[0 + 2]
    <3>1. o + 2 <= Len(f) => o + 1 <= Len(f)
        BY <1>1
    <3> QED BY <2>2, <3>1
  <2>3. \A r : HoldsAt(f, o, r) <=> HoldsAt(rest, 0, r)
      BY <2>4, <2>5 DEF HoldsAt
  <2> QED BY <2>3 DEF Stands, Begins
<1>6. Len(rest) >= 1 => rest[1] = f[o + 1]
    BY <1>1, <1>2
<1>7. Len(rest) >= 2 => rest[2] = f[o + 2]
    BY <1>1, <1>2
<1> HIDE DEF o, s, c
<1>8. FrameAt(f, at).kind = "Record" => Stands(f, at, f[o + 1].of)
    BY <1>1, <1>2, <1>3, <1>5, <1>6, FrameIs DEF Begins, HoldsAt
<1>9. FrameAt(f, at).kind = "Torn" =>
         \/ Len(f) = o + 1
         \/ /\ Len(f) = o + 2
            /\ \E r : /\ f[o + 1] = Unit("header_front", r)
                      /\ f[o + 2] = Unit("header_back", r)
                      /\ r.sequence = s /\ r.payload \notin Empty
  <2> SUFFICES ASSUME Frame(rest, c, s).kind = "Torn", Len(f) # o + 1
               PROVE  /\ Len(f) = o + 2
                      /\ \E r : /\ f[o + 1] = Unit("header_front", r)
                                /\ f[o + 2] = Unit("header_back", r)
                                /\ r.sequence = s /\ r.payload \notin Empty
      BY <1>3
  <2>1. Len(rest) # 1
      BY <1>1, <1>2
  <2>2. /\ Len(rest) = 2
        /\ rest[1] = Unit("header_front", rest[1].of)
        /\ rest[2] = Unit("header_back", rest[1].of)
        /\ rest[1].of.sequence = s
        /\ rest[1].of.payload \notin Empty
      BY <1>2, <2>1, FrameIs
  <2>3. Len(rest) = 2
      BY <2>2
  <2>4. Len(f) = o + 2
    <3>1. Len(f) - o = 2 /\ Len(f) \in Nat /\ o \in Nat
        BY <1>1, <1>10, <2>3
    <3> QED BY <3>1
  <2> QED BY <2>2, <2>4, <1>6, <1>7
<1> QED BY <1>2, <1>3, <1>4, <1>5, <1>8, <1>9, FrameIs DEF o, s, c

LEMMA RecordOf ==
    ASSUME NEW f, Segment(f), NEW o \in Nat, NEW r, HoldsAt(f, o, r)
    PROVE  r \in Record /\ o + Size(r) \in Nat /\ o + Size(r) <= Len(f)
<1>1. f \in Seq(UnitSet) /\ Len(f) \in Nat
    BY DEF Segment
<1>2. f[o + 1] \in UnitSet /\ f[o + 1].part = "header_front" /\ f[o + 1].of = r
    BY <1>1 DEF HoldsAt, Unit
<1> QED BY <1>1, <1>2, UnitRecord DEF Size, HoldsAt

LEMMA PassAccepts ==
    ASSUME NEW f, Segment(f), NEW at \in Place, at.offset <= Len(f),
           Padded = {}, NEW r, Stands(f, at, r)
    PROVE  /\ Pass(f)[at] = After(at, r)
           /\ After(at, r) \in Place
           /\ After(at, r).offset <= Len(f)
<1>1. FrameAt(f, at) = [kind |-> "Record", used |-> Size(r)]
    BY FrameRecord
<1>2. f[at.offset + 1].of = r
    BY DEF Stands, HoldsAt, Unit
<1>3. r \in Record /\ at.offset + Size(r) \in Nat /\ at.offset + Size(r) <= Len(f)
    BY RecordOf DEF Stands, Place
<1> QED BY <1>1, <1>2, <1>3 DEF Pass, After, Place

LEMMA PassStays ==
    ASSUME NEW f, Segment(f), NEW at \in Place, at.offset <= Len(f),
           Padded = {}, \A r : ~Stands(f, at, r)
    PROVE  Pass(f)[at] = at
<1>1. FrameAt(f, at).kind # "Record"
    BY FrameRecord
<1> QED BY <1>1 DEF Pass

LEMMA StandsUnique ==
    ASSUME NEW f, NEW at, NEW r1, NEW r2, Stands(f, at, r1), Stands(f, at, r2)
    PROVE  r1 = r2
    BY DEF Stands, HoldsAt, Unit

------------------------------------------------------------------------------
(* The places that a scan of a segment passes.                             *)

Boundary(f, at) == \E n \in Nat : Walk(f)[n] = at

LEMMA WalkPlaces ==
    ASSUME NEW f, Segment(f), Padded = {}
    PROVE  \A n \in Nat : Walk(f)[n] \in Place /\ Walk(f)[n].offset <= Len(f)
<1> DEFINE T == {n \in Nat : Walk(f)[n] \in Place /\ Walk(f)[n].offset <= Len(f)}
<1>1. 0 \in T
  <2>1. Walk(f)[0] = Start
      BY WalkFcn
  <2>2. Start \in Place /\ Start.offset = 2
      BY DEF Start, Place
  <2> QED BY <2>1, <2>2, SegmentConfig
<1>2. ASSUME NEW n \in Nat, n \in T PROVE n + 1 \in T
  <2>1. Walk(f)[n + 1] = Pass(f)[Walk(f)[n]]
      BY WalkFcn
  <2>2. CASE \E r : Stands(f, Walk(f)[n], r)
      BY <1>2, <2>1, <2>2, PassAccepts
  <2>3. CASE \A r : ~Stands(f, Walk(f)[n], r)
      BY <1>2, <2>1, <2>3, PassStays
  <2> QED BY <2>2, <2>3
<1> HIDE DEF T
<1>3. Nat \subseteq T
    BY <1>1, <1>2, SetInduction
<1> QED BY <1>3 DEF T

LEMMA StartBoundary ==
    ASSUME NEW f PROVE Boundary(f, Start)
    BY WalkFcn DEF Boundary

LEMMA BoundaryPlace ==
    ASSUME NEW f, Segment(f), Padded = {}, NEW at, Boundary(f, at)
    PROVE  at \in Place /\ at.offset <= Len(f) /\ at.offset \in Nat
    BY WalkPlaces DEF Boundary, Place

LEMMA NextBoundary ==
    ASSUME NEW f, Segment(f), Padded = {}, NEW at, Boundary(f, at),
           NEW r, Stands(f, at, r)
    PROVE  Boundary(f, After(at, r))
<1> PICK n \in Nat : Walk(f)[n] = at
    BY DEF Boundary
<1>1. Walk(f)[n + 1] = Pass(f)[at]
    BY WalkFcn
<1>2. Pass(f)[at] = After(at, r)
    BY BoundaryPlace, PassAccepts
<1> QED BY <1>1, <1>2 DEF Boundary

\* What holds at the start and behind every record accepted holds at every
\* place that the walk passes.
LEMMA BoundaryInduction ==
    ASSUME NEW f, Segment(f), Padded = {}, NEW S, Start \in S,
           \A at \in S : \A r :
              Boundary(f, at) /\ Stands(f, at, r) => After(at, r) \in S
    PROVE  \A at : Boundary(f, at) => at \in S
<1> DEFINE T == {n \in Nat : Walk(f)[n] \in S}
<1>1. 0 \in T
    BY WalkFcn
<1>2. ASSUME NEW n \in Nat, n \in T PROVE n + 1 \in T
  <2>1. Walk(f)[n + 1] = Pass(f)[Walk(f)[n]] /\ Boundary(f, Walk(f)[n])
      BY WalkFcn DEF Boundary
  <2>2. CASE \E r : Stands(f, Walk(f)[n], r)
      BY <1>2, <2>1, <2>2, PassAccepts, BoundaryPlace
  <2>3. CASE \A r : ~Stands(f, Walk(f)[n], r)
      BY <1>2, <2>1, <2>3, PassStays, BoundaryPlace
  <2> QED BY <2>2, <2>3
<1> HIDE DEF T
<1>3. Nat \subseteq T
    BY <1>1, <1>2, SetInduction
<1> QED BY <1>3 DEF T, Boundary


\* The records on the way to a place, counted from the header's sequence.
LEMMA BoundaryLog ==
    ASSUME NEW f, Segment(f), Padded = {}, NEW at, Boundary(f, at)
    PROVE  /\ at \in Place /\ 2 <= at.offset /\ at.offset <= Len(f)
           /\ 2 + 2 * Len(at.log) <= at.offset
           /\ at.offset > 2 => Len(at.log) > 0
           /\ \A i \in 1..Len(at.log) :
                 /\ at.log[i].sequence = f[1].of.first_sequence + i - 1
                 /\ at.log[i].config.stream_id = f[1].of.stream_id
                 /\ at.log[i].config.epoch = f[1].of.epoch
<1> DEFINE Good(a) == /\ a \in Place
                      /\ 2 + 2 * Len(a.log) <= a.offset
                      /\ a.offset > 2 => Len(a.log) > 0
                      /\ \A i \in 1..Len(a.log) :
                           /\ a.log[i].sequence = f[1].of.first_sequence + i - 1
                           /\ a.log[i].config.stream_id = f[1].of.stream_id
                           /\ a.log[i].config.epoch = f[1].of.epoch
           S == {a \in Place : Good(a)}
<1>1. Start \in S
  <2>1. Start.log = <<>> /\ Start.offset = 2 /\ Start \in Place
      BY DEF Start, Place
  <2>2. Len(Start.log) = 0
      BY <2>1
  <2> QED BY <2>1, <2>2
<1>2. ASSUME NEW a \in S, NEW r, Boundary(f, a), Stands(f, a, r)
      PROVE  After(a, r) \in S
  <2>1. After(a, r) \in Place /\ r \in Record
      BY <1>2, BoundaryPlace, PassAccepts, RecordOf DEF Stands, Place
  <2>2. a.log \in Seq(Record) /\ a.offset \in Nat /\ Len(a.log) \in Nat
      BY DEF Place
  <2>3. /\ Len(Append(a.log, r)) = Len(a.log) + 1
        /\ \A i \in 1..Len(a.log) : Append(a.log, r)[i] = a.log[i]
        /\ Append(a.log, r)[Len(a.log) + 1] = r
      BY <2>1, <2>2, AppendProperties
  <2>4. f[1].of.first_sequence \in Nat
      BY SegmentConfig
  <2>5. /\ r.sequence = f[1].of.first_sequence + (Len(a.log) + 1) - 1
        /\ r.config.stream_id = f[1].of.stream_id
        /\ r.config.epoch = f[1].of.epoch
      BY <1>2, <2>2, <2>4 DEF Stands
  <2>6. Size(r) \in {2, 3}
      BY DEF Size
  <2>7. \A i \in 1..Len(a.log) + 1 : i \in 1..Len(a.log) \/ i = Len(a.log) + 1
      BY <2>2
  <2> DEFINE b == After(a, r)
  <2>8. b.offset = a.offset + Size(r) /\ b.log = Append(a.log, r)
      BY DEF After
  <2> HIDE DEF b
  <2>9. Len(b.log) = Len(a.log) + 1
      BY <2>3, <2>8
  <2>10. 2 + 2 * Len(b.log) <= b.offset /\ Len(b.log) > 0
      BY <2>2, <2>6, <2>8, <2>9
  <2>11. \A i \in 1..Len(b.log) :
            /\ b.log[i].sequence = f[1].of.first_sequence + i - 1
            /\ b.log[i].config.stream_id = f[1].of.stream_id
            /\ b.log[i].config.epoch = f[1].of.epoch
      BY <2>3, <2>5, <2>7, <2>8, <2>9
  <2> QED BY <2>1, <2>10, <2>11 DEF b
<1> HIDE DEF S
<1>3. at \in S
    BY <1>1, <1>2, BoundaryInduction
<1> QED BY <1>3, BoundaryPlace DEF S, Place


------------------------------------------------------------------------------
(* Prefixes.                                                               *)

LEMMA PrefixPointwise ==
    ASSUME NEW T, NEW s \in Seq(T), NEW t \in Seq(T)
    PROVE  IsPrefix(s, t) <=> /\ Len(s) <= Len(t)
                              /\ \A i \in 1..Len(s) : s[i] = t[i]
<1>1. Len(s) \in Nat /\ Len(t) \in Nat
    OBVIOUS
<1>2. SubSeq(s, 1, Len(s)) \in Seq(T) /\ Len(SubSeq(s, 1, Len(s))) = Len(s)
      /\ \A i \in 1..Len(s) : SubSeq(s, 1, Len(s))[i] = s[i]
    BY <1>1
<1>3. ASSUME Len(s) <= Len(t)
      PROVE  /\ SubSeq(t, 1, Len(s)) \in Seq(T)
             /\ Len(SubSeq(t, 1, Len(s))) = Len(s)
             /\ \A i \in 1..Len(s) : SubSeq(t, 1, Len(s))[i] = t[i]
    BY <1>1, <1>3
<1> DEFINE u == SubSeq(s, 1, Len(s))
           v == SubSeq(t, 1, Len(s))
<1> HIDE DEF u, v
<1>4. Len(s) <= Len(t) => (u = v <=> \A i \in 1..Len(s) : s[i] = t[i])
    BY <1>1, <1>2, <1>3, SeqEqual DEF u, v
<1> QED BY <1>4 DEF IsPrefix, u, v

LEMMA PrefixRefl ==
    ASSUME NEW T, NEW s \in Seq(T)
    PROVE  IsPrefix(s, s)
    BY PrefixPointwise

LEMMA PrefixTrans ==
    ASSUME NEW T, NEW s \in Seq(T), NEW t \in Seq(T), NEW u \in Seq(T),
           IsPrefix(s, t), IsPrefix(t, u)
    PROVE  IsPrefix(s, u)
<1>1. Len(s) \in Nat /\ Len(t) \in Nat /\ Len(u) \in Nat
    OBVIOUS
<1>2. Len(s) <= Len(t) /\ \A i \in 1..Len(s) : s[i] = t[i]
    BY PrefixPointwise
<1>3. Len(t) <= Len(u) /\ \A i \in 1..Len(t) : t[i] = u[i]
    BY PrefixPointwise
<1>4. Len(s) <= Len(u) /\ \A i \in 1..Len(s) : s[i] = u[i]
    BY <1>1, <1>2, <1>3
<1> QED BY <1>4, PrefixPointwise

LEMMA PrefixAppend ==
    ASSUME NEW T, NEW s \in Seq(T), NEW x \in T
    PROVE  Append(s, x) \in Seq(T) /\ IsPrefix(s, Append(s, x))
<1>1. /\ Len(s) \in Nat /\ Append(s, x) \in Seq(T)
      /\ Len(Append(s, x)) = Len(s) + 1
      /\ \A i \in 1..Len(s) : Append(s, x)[i] = s[i]
    BY AppendProperties
<1> DEFINE t == Append(s, x)
<1> HIDE DEF t
<1>2. Len(s) <= Len(t)
    BY <1>1 DEF t
<1>3. IsPrefix(s, t)
    BY <1>1, <1>2, PrefixPointwise DEF t
<1> QED BY <1>1, <1>3 DEF t

LEMMA PrefixConcat ==
    ASSUME NEW T, NEW s \in Seq(T), NEW t \in Seq(T)
    PROVE  s \o t \in Seq(T) /\ IsPrefix(s, s \o t)
<1>1. /\ Len(s) \in Nat /\ Len(t) \in Nat /\ s \o t \in Seq(T)
      /\ Len(s \o t) = Len(s) + Len(t)
      /\ \A i \in 1..Len(s) : (s \o t)[i] = s[i]
    BY ConcatProperties
<1> DEFINE u == s \o t
<1> HIDE DEF u
<1>2. Len(s) <= Len(u)
    BY <1>1 DEF u
<1>3. IsPrefix(s, u)
    BY <1>1, <1>2, PrefixPointwise DEF u
<1> QED BY <1>1, <1>3 DEF u

LEMMA PrefixRange ==
    ASSUME NEW T, NEW s \in Seq(T), NEW t \in Seq(T), IsPrefix(s, t)
    PROVE  Range(s) \subseteq Range(t)
<1>1. /\ Len(s) \in Nat /\ Len(t) \in Nat /\ Len(s) <= Len(t)
      /\ \A i \in 1..Len(s) : s[i] = t[i]
      /\ DOMAIN s = 1..Len(s) /\ DOMAIN t = 1..Len(t)
    BY PrefixPointwise, LenProperties
<1> QED BY <1>1 DEF Range

------------------------------------------------------------------------------
(* The order of the places.                                                *)

\* From each place that a walk passes it goes on over the record that stands
\* there, to the end.
LEMMA WalkFrom ==
    ASSUME NEW f, Segment(f), Padded = {}, NEW m \in Nat
    PROVE  \A k \in Nat :
              \/ Walk(f)[m + k] = Walk(f)[m]
              \/ \E r : /\ Stands(f, Walk(f)[m], r)
                        /\ After(Walk(f)[m], r).offset <= Walk(f)[m + k].offset
                        /\ IsPrefix(After(Walk(f)[m], r).log, Walk(f)[m + k].log)
<1> DEFINE a == Walk(f)[m]
           Onward(k) == \E r : /\ Stands(f, a, r)
                               /\ After(a, r).offset <= Walk(f)[m + k].offset
                               /\ IsPrefix(After(a, r).log, Walk(f)[m + k].log)
           T == {k \in Nat : Walk(f)[m + k] = a \/ Onward(k)}
<1>1. 0 \in T
    OBVIOUS
<1>2. ASSUME NEW k \in Nat, k \in T PROVE k + 1 \in T
  <2> DEFINE b == Walk(f)[m + k]
  <2>0. m + k \in Nat /\ (m + k) + 1 = m + (k + 1)
      OBVIOUS
  <2>1. Walk(f)[m + (k + 1)] = Pass(f)[b] /\ Boundary(f, b) /\ Boundary(f, a)
      BY <2>0, WalkFcn DEF Boundary
  <2>2. b \in Place /\ b.offset <= Len(f) /\ a \in Place /\ a.offset <= Len(f)
      BY <2>1, BoundaryPlace
  <2> HIDE DEF a, b
  <2>3. CASE \A r : ~Stands(f, b, r)
    <3>1. Walk(f)[m + (k + 1)] = b
        BY <2>1, <2>2, <2>3, PassStays
    <3> QED BY <1>2, <3>1 DEF b
  <2>4. ASSUME NEW r, Stands(f, b, r) PROVE k + 1 \in T
    <3>1. Walk(f)[m + (k + 1)] = After(b, r) /\ After(b, r) \in Place
        BY <2>1, <2>2, <2>4, PassAccepts
    <3>2. r \in Record
        BY <2>2, <2>4, RecordOf DEF Stands, Place
    <3>3. /\ After(b, r).offset > b.offset
          /\ IsPrefix(b.log, After(b, r).log)
        BY <2>2, <3>2, PrefixAppend DEF After, Place, Size
    <3>4. CASE b = a
      <4>1. IsPrefix(After(b, r).log, After(b, r).log)
          BY <3>1, PrefixRefl DEF Place
      <4>2. After(b, r).offset <= After(b, r).offset
          BY <3>1 DEF Place
      <4>3. Onward(k + 1)
          BY <3>1, <3>4, <4>1, <4>2, <2>4
      <4> QED BY <4>3
    <3>5. CASE Onward(k)
      <4> PICK q : /\ Stands(f, a, q)
                   /\ After(a, q).offset <= b.offset
                   /\ IsPrefix(After(a, q).log, b.log)
          BY <3>5 DEF b
      <4>1. After(a, q) \in Place
          BY <2>2, PassAccepts
      <4>2. After(a, q).offset <= After(b, r).offset
          BY <3>1, <3>3, <4>1, <2>2 DEF Place
      <4>3. IsPrefix(After(a, q).log, After(b, r).log)
          BY <3>1, <3>3, <4>1, <2>2, PrefixTrans DEF Place
      <4>4. Onward(k + 1)
          BY <3>1, <4>2, <4>3
      <4> QED BY <4>4
    <3> QED BY <1>2, <3>4, <3>5 DEF b
  <2> QED BY <2>3, <2>4
<1> HIDE DEF T
<1>3. Nat \subseteq T
    BY <1>1, <1>2, SetInduction
<1> QED BY <1>3 DEF T, a

\* Of two places one comes first, and the record that stands there lies before
\* the other.
LEMMA PlacesOrdered ==
    ASSUME NEW f, Segment(f), Padded = {}, NEW a, Boundary(f, a),
           NEW b, Boundary(f, b)
    PROVE  /\ a.offset = b.offset => a = b
           /\ a.offset < b.offset =>
                 \E r : /\ Stands(f, a, r)
                        /\ After(a, r).offset <= b.offset
                        /\ IsPrefix(After(a, r).log, b.log)
<1> DEFINE Onward(x, y) == \E r : /\ Stands(f, x, r)
                                  /\ After(x, r).offset <= y.offset
                                  /\ IsPrefix(After(x, r).log, y.log)
<1>1. a \in Place /\ b \in Place /\ a.offset \in Nat /\ b.offset \in Nat
    BY BoundaryPlace
<1>2. ASSUME NEW x, x \in Place, NEW y, Onward(x, y)
      PROVE  x.offset < y.offset \/ y.offset \notin Int
    BY <1>2 DEF After, Size, Place
<1>3. PICK m \in Nat, n \in Nat : Walk(f)[m] = a /\ Walk(f)[n] = b
    BY DEF Boundary
<1>4. CASE m <= n
  <2>1. n - m \in Nat /\ m + (n - m) = n
      BY <1>4
  <2>2. a = b \/ Onward(a, b)
      BY <1>3, <2>1, WalkFrom
  <2> QED BY <1>1, <1>2, <2>2
<1>5. CASE n <= m
  <2>1. m - n \in Nat /\ n + (m - n) = m
      BY <1>5
  <2>2. a = b \/ Onward(b, a)
      BY <1>3, <2>1, WalkFrom
  <2> QED BY <1>1, <1>2, <2>2
<1> QED BY <1>4, <1>5


------------------------------------------------------------------------------
(* What a scan returns.                                                    *)

\* f and g begin with the same k units.
Agree(f, g, k) ==
    /\ k \in Nat /\ k <= Len(f) /\ k <= Len(g)
    /\ \A i \in 1..k : f[i] = g[i]

LEMMA SegmentAgree ==
    ASSUME NEW f, Segment(f), NEW g \in Seq(UnitSet), NEW k, k >= 2,
           Agree(f, g, k)
    PROVE  Segment(g) /\ g[1] = f[1]
<1>1. f[1] = g[1] /\ f[2] = g[2] /\ Len(g) \in Nat /\ Len(g) >= 2
    BY DEF Agree
<1> QED BY <1>1 DEF Segment, ValidSegment

LEMMA StandsAgree ==
    ASSUME NEW f, Segment(f), NEW g, Segment(g), NEW k, k >= 2,
           Agree(f, g, k), NEW at \in Place, NEW r, Stands(f, at, r),
           at.offset + Size(r) <= k
    PROVE  Stands(g, at, r)
<1>1. f[1] = g[1]
    BY DEF Agree
<1>2. at.offset \in Nat /\ k \in Nat /\ Len(f) \in Nat /\ Len(g) \in Nat
    BY DEF Place, Agree, Segment
<1>3. f[at.offset + 1] = g[at.offset + 1] /\ f[at.offset + 2] = g[at.offset + 2]
      /\ at.offset + 2 <= Len(g)
    BY <1>2 DEF Agree, Size
<1>4. r.payload \notin Empty =>
         f[at.offset + 3] = g[at.offset + 3] /\ at.offset + 3 <= Len(g)
    BY <1>2 DEF Agree, Size
<1> QED BY <1>1, <1>3, <1>4 DEF Stands, HoldsAt

LEMMA BoundaryAgree ==
    ASSUME NEW f, Segment(f), NEW g, Segment(g), NEW k, k >= 2,
           Agree(f, g, k), Padded = {},
           NEW a, Boundary(f, a), a.offset <= k
    PROVE  Boundary(g, a)
<1> DEFINE S == {b \in Place : b.offset <= k => Boundary(g, b)}
<1>1. Start \in S
    BY StartBoundary DEF Start, Place
<1>2. ASSUME NEW b \in S, NEW r, Boundary(f, b), Stands(f, b, r)
      PROVE  After(b, r) \in S
  <2>1. b \in Place /\ b.offset \in Nat /\ b.offset <= Len(f)
      BY <1>2, BoundaryPlace
  <2>2. After(b, r) \in Place
      BY <1>2, <2>1, PassAccepts
  <2>3. ASSUME After(b, r).offset <= k PROVE Boundary(g, After(b, r))
    <3>1. b.offset + Size(r) <= k
        BY <2>3 DEF After
    <3>2. b.offset <= k
        BY <3>1, <2>1 DEF Size, Agree
    <3>3. Boundary(g, b)
        BY <3>2
    <3>4. Stands(g, b, r)
        BY <3>1, <2>1, <1>2, StandsAgree
    <3> QED BY <3>3, <3>4, NextBoundary
  <2> QED BY <2>2, <2>3
<1> HIDE DEF S
<1>3. a \in S
    BY <1>1, <1>2, BoundaryInduction
<1> QED BY <1>3 DEF S

LEMMA WalkReachesEnd ==
    ASSUME NEW f, Segment(f), Padded = {}
    PROVE  \A n \in Nat : \/ Walk(f)[n].offset >= 2 + 2 * n
                          \/ \A r : ~Stands(f, Walk(f)[n], r)
<1> DEFINE T == {n \in Nat : \/ Walk(f)[n].offset >= 2 + 2 * n
                             \/ \A r : ~Stands(f, Walk(f)[n], r)}
<1>1. 0 \in T
    BY WalkFcn DEF Start
<1>2. ASSUME NEW n \in Nat, n \in T PROVE n + 1 \in T
  <2>1. Walk(f)[n + 1] = Pass(f)[Walk(f)[n]] /\ Boundary(f, Walk(f)[n])
      BY WalkFcn DEF Boundary
  <2> DEFINE a == Walk(f)[n]
  <2>2. a \in Place /\ a.offset <= Len(f) /\ a.offset \in Nat
      BY <2>1, BoundaryPlace
  <2> HIDE DEF a
  <2>3. CASE \A r : ~Stands(f, a, r)
    <3>1. Pass(f)[a] = a
        BY <2>2, <2>3, PassStays
    <3> QED BY <3>1, <2>1, <2>3 DEF a
  <2>4. ASSUME NEW r, Stands(f, a, r) PROVE n + 1 \in T
    <3>1. Walk(f)[n + 1] = After(a, r)
        BY <2>1, <2>2, <2>4, PassAccepts DEF a
    <3>2. a.offset >= 2 + 2 * n
        BY <1>2, <2>4 DEF a
    <3>3. After(a, r).offset >= 2 + 2 * (n + 1)
        BY <2>2, <3>2 DEF After, Size
    <3> QED BY <3>1, <3>3
  <2> QED BY <2>3, <2>4
<1> HIDE DEF T
<1>3. Nat \subseteq T
    BY <1>1, <1>2, SetInduction
<1> QED BY <1>3 DEF T

End(f) == [log |-> scan(f).log, offset |-> scan(f).offset]

LEMMA ScanEnd ==
    ASSUME NEW f, Segment(f), Padded = {}
    PROVE  /\ Boundary(f, End(f))
           /\ \A r : ~Stands(f, End(f), r)
           /\ scan(f).log \in Seq(Record)
           /\ scan(f).offset \in Nat
           /\ scan(f).error \in {"None", "IncompleteTrailingRecord",
                                 "CorruptedMiddleRecord"}
           /\ scan(f).error = "None" <=> scan(f).offset = Len(f)
           /\ scan(f).error = "IncompleteTrailingRecord" <=>
                 FrameAt(f, End(f)).kind = "Torn"
<1> DEFINE n == (Len(f) - 2) \div 2
           w == Walk(f)[n]
<1>1. Len(f) \in Nat /\ Len(f) >= 2
    BY SegmentConfig
<1>2. n \in Nat /\ 2 + 2 * n >= Len(f) - 1
    BY <1>1
<1>3. Boundary(f, w) /\ w \in Place /\ w.offset <= Len(f)
    BY <1>2, WalkPlaces DEF Boundary
<1>4. scan(f) = [error |-> ErrorOf[FrameAt(f, w).kind],
                 log |-> w.log, offset |-> w.offset]
    BY <1>3 DEF scan, ResultAt, Segment
<1>5. \A r : ~Stands(f, w, r)
  <2>1. SUFFICES ASSUME NEW r, Stands(f, w, r) PROVE FALSE
      OBVIOUS
  <2>2. w.offset >= 2 + 2 * n
      BY <1>2, <2>1, WalkReachesEnd
  <2>3. w.offset + 2 <= Len(f)
      BY <2>1 DEF Stands, HoldsAt
  <2> HIDE DEF w, n
  <2> QED BY <1>1, <1>2, <1>3, <2>2, <2>3 DEF Place
<1> HIDE DEF w, n
<1>6. End(f) = w
    BY <1>3, <1>4 DEF End, Place
<1>7. /\ FrameAt(f, w).kind \in {"EndOfLog", "Torn", "Bad"}
      /\ FrameAt(f, w).kind = "EndOfLog" <=> w.offset = Len(f)
    BY <1>3, <1>5, FrameRecord
<1>8. /\ ErrorOf["EndOfLog"] = "None"
      /\ ErrorOf["Torn"] = "IncompleteTrailingRecord"
      /\ ErrorOf["Bad"] = "CorruptedMiddleRecord"
    BY DEF ErrorOf
<1> QED BY <1>3, <1>4, <1>5, <1>6, <1>7, <1>8 DEF Place

\* A place at which no record stands is where the scan ends.
LEMMA EndUnique ==
    ASSUME NEW f, Segment(f), Padded = {}, NEW a, Boundary(f, a)
    PROVE  /\ a.offset <= scan(f).offset
           /\ IsPrefix(a.log, scan(f).log)
           /\ (\A r : ~Stands(f, a, r)) => a = End(f)
           /\ a.offset = scan(f).offset => a = End(f)
<1>1. Boundary(f, End(f)) /\ \A r : ~Stands(f, End(f), r)
    BY ScanEnd
<1>2. /\ a \in Place /\ End(f) \in Place
      /\ a.offset \in Nat /\ End(f).offset \in Nat
    BY <1>1, BoundaryPlace
<1>3. ~(End(f).offset < a.offset)
    BY <1>1, PlacesOrdered
<1>4. CASE a = End(f)
    BY <1>2, <1>4, PrefixRefl DEF End, Place
<1>5. CASE a # End(f)
  <2>1. a.offset < End(f).offset
      BY <1>1, <1>2, <1>3, <1>5, PlacesOrdered
  <2> PICK r : Stands(f, a, r) /\ IsPrefix(After(a, r).log, End(f).log)
      BY <1>1, <2>1, PlacesOrdered
  <2>2. After(a, r) \in Place /\ r \in Record
      BY <1>2, PassAccepts, RecordOf, BoundaryPlace DEF Stands
  <2>3. IsPrefix(a.log, After(a, r).log)
      BY <1>2, <2>2, PrefixAppend DEF After, Place
  <2>4. IsPrefix(a.log, End(f).log)
      BY <1>2, <2>2, <2>3, PrefixTrans DEF Place
  <2> QED BY <2>1, <2>4, <1>2 DEF End
<1> QED BY <1>4, <1>5

LEMMA CleanScan ==
    ASSUME NEW f, Segment(f), Padded = {}, NEW a, Boundary(f, a),
           a.offset = Len(f)
    PROVE  scan(f).error = "None" /\ scan(f).log = a.log /\ scan(f).offset = Len(f)
<1>1. \A r : ~Stands(f, a, r)
    BY SegmentConfig DEF Stands, HoldsAt
<1>2. a = End(f)
    BY <1>1, EndUnique
<1> QED BY <1>2, ScanEnd DEF End

\* Whatever comes behind the records of a scan, they remain.
LEMMA ScanGrows ==
    ASSUME NEW f, Segment(f), NEW g, Segment(g), Padded = {},
           Agree(f, g, scan(f).offset)
    PROVE  /\ IsPrefix(scan(f).log, scan(g).log)
           /\ Boundary(g, End(f))
           /\ scan(f).offset <= scan(g).offset
<1>1. Boundary(f, End(f)) /\ End(f).offset = scan(f).offset
      /\ scan(f).log = End(f).log
    BY ScanEnd DEF End
<1>2. 2 <= scan(f).offset
    BY <1>1, BoundaryLog
<1>3. Boundary(g, End(f))
    BY <1>1, <1>2, BoundaryAgree, ScanEnd
<1> QED BY <1>1, <1>3, EndUnique

LEMMA CutScan ==
    ASSUME NEW f, Segment(f), Padded = {}
    PROVE  LET g == SubSeq(f, 1, scan(f).offset)
           IN  /\ Segment(g) /\ Agree(f, g, Len(g)) /\ Len(g) = scan(f).offset
               /\ scan(g).error = "None"
               /\ scan(g).log = scan(f).log
               /\ scan(g).offset = Len(g)
<1> DEFINE g == SubSeq(f, 1, scan(f).offset)
<1>1. /\ Boundary(f, End(f)) /\ End(f).offset = scan(f).offset
      /\ scan(f).log = End(f).log
    BY ScanEnd DEF End
<1>2. scan(f).offset \in Nat /\ 2 <= scan(f).offset /\ scan(f).offset <= Len(f)
    BY <1>1, BoundaryLog, ScanEnd
<1>3. f \in Seq(UnitSet) /\ Len(f) \in Nat
    BY DEF Segment
<1>4. /\ g \in Seq(UnitSet) /\ Len(g) = scan(f).offset
      /\ \A i \in 1..Len(g) : g[i] = f[i]
    BY <1>2, <1>3
<1> HIDE DEF g
<1>5. Agree(f, g, Len(g))
    BY <1>2, <1>4 DEF Agree
<1>6. Segment(g)
    BY <1>2, <1>4, <1>5, SegmentAgree
<1>7. Boundary(g, End(f))
    BY <1>1, <1>2, <1>4, <1>5, <1>6, BoundaryAgree
<1>8. scan(g).error = "None" /\ scan(g).log = scan(f).log /\ scan(g).offset = Len(g)
    BY <1>1, <1>4, <1>6, <1>7, CleanScan
<1> QED BY <1>4, <1>5, <1>6, <1>8 DEF g


------------------------------------------------------------------------------
(* What the writer lays out.                                               *)

LEMMA ConcatAgree ==
    ASSUME NEW f \in Seq(UnitSet), NEW u \in Seq(UnitSet)
    PROVE  /\ f \o u \in Seq(UnitSet)
           /\ Len(f \o u) = Len(f) + Len(u)
           /\ Agree(f, f \o u, Len(f))
           /\ \A i \in 1..Len(f) : (f \o u)[i] = f[i]
           /\ \A i \in 1..Len(u) : (f \o u)[Len(f) + i] = u[i]
<1>1. Len(f) \in Nat /\ Len(u) \in Nat
    OBVIOUS
<1>2. /\ f \o u \in Seq(UnitSet) /\ Len(f \o u) = Len(f) + Len(u)
      /\ \A i \in 1..Len(f) : (f \o u)[i] = f[i]
      /\ \A i \in 1..Len(u) : (f \o u)[Len(f) + i] = u[i]
    BY <1>1
<1> HIDE DEF Agree
<1>3. Agree(f, f \o u, Len(f))
  <2> DEFINE g == f \o u
  <2> HIDE DEF g
  <2> QED BY <1>1, <1>2 DEF Agree, g
<1> QED BY <1>2, <1>3

LEMMA UnitsOfRecord ==
    ASSUME NEW r \in Record, Padded = {}
    PROVE  /\ RecordUnits(r) \in Seq(UnitSet)
           /\ Len(RecordUnits(r)) = Size(r)
           /\ RecordUnits(r)[1] = Unit("header_front", r)
           /\ RecordUnits(r)[2] = Unit("header_back", r)
           /\ r.payload \notin Empty =>
                 RecordUnits(r)[3] = Unit("payload", r.payload)
<1>1. /\ Unit("header_front", r) \in UnitSet
      /\ Unit("header_back", r) \in UnitSet
      /\ Unit("payload", r.payload) \in UnitSet
    BY DEF Unit, UnitSet, Record
<1>2. CASE r.payload \in Empty
  <2>1. RecordUnits(r) = <<Unit("header_front", r), Unit("header_back", r)>>
      BY <1>2 DEF RecordUnits
  <2> QED BY <1>1, <1>2, <2>1 DEF Size
<1>3. CASE r.payload \notin Empty
  <2> DEFINE v == <<Unit("header_front", r), Unit("header_back", r)>>
             w == <<Unit("payload", r.payload)>>
  <2>1. RecordUnits(r) = (v \o w) \o << >>
      BY <1>3 DEF RecordUnits
  <2>2. /\ v \in Seq(UnitSet) /\ Len(v) = 2 /\ w \in Seq(UnitSet) /\ Len(w) = 1
        /\ v[1] = Unit("header_front", r) /\ v[2] = Unit("header_back", r)
        /\ w[1] = Unit("payload", r.payload)
      BY <1>1
  <2> HIDE DEF v, w
  <2>3. v \in Seq(UnitSet) /\ w \in Seq(UnitSet)
      BY <2>2
  <2>4. v \o w \in Seq(UnitSet) /\ v \o w = (v \o w) \o << >>
      BY <2>3, ConcatEmptySeq, ConcatProperties
  <2>5. /\ Len(v \o w) = Len(v) + Len(w)
        /\ \A i \in 1..Len(v) : (v \o w)[i] = v[i]
        /\ \A i \in 1..Len(w) : (v \o w)[Len(v) + i] = w[i]
      BY <2>3, ConcatAgree, Zenon
  <2>6. 1 \in 1..Len(v) /\ 2 \in 1..Len(v) /\ 1 \in 1..Len(w) /\ Len(v) + 1 = 3
      BY <2>2
  <2>7. /\ (v \o w)[1] = v[1] /\ (v \o w)[2] = v[2] /\ (v \o w)[3] = w[1]
        /\ Len(v \o w) = 3
      BY <2>2, <2>5, <2>6
  <2> QED BY <1>3, <2>1, <2>2, <2>4, <2>7 DEF Size
<1> QED BY <1>2, <1>3

LEMMA HeaderScan ==
    ASSUME NEW c \in Configs, has_valid_static_fields(c), Padded = {}
    PROVE  LET f == SegmentHeader(c)
           IN  /\ Segment(f) /\ f[1].of = c /\ Len(f) = 2
               /\ scan(f).error = "None" /\ scan(f).log = <<>>
               /\ Boundary(f, Start)
<1> DEFINE f == SegmentHeader(c)
<1>1. f = <<Unit("segment_front", c), Unit("segment_back", c)>>
    BY DEF SegmentHeader
<1>2. Unit("segment_front", c) \in UnitSet /\ Unit("segment_back", c) \in UnitSet
    BY DEF Unit, UnitSet
<1>3. /\ f \in Seq(UnitSet) /\ Len(f) = 2
      /\ f[1] = Unit("segment_front", c) /\ f[2] = Unit("segment_back", c)
    BY <1>1, <1>2
<1> HIDE DEF f
<1>4. Segment(f) /\ f[1].of = c
    BY <1>3 DEF Segment, ValidSegment, Unit
<1>5. Boundary(f, Start) /\ Start.offset = Len(f) /\ Start.log = <<>>
    BY <1>3, StartBoundary DEF Start
<1> QED BY <1>3, <1>4, <1>5, CleanScan DEF f

LEMMA SegmentConcat ==
    ASSUME NEW f, Segment(f), NEW u \in Seq(UnitSet)
    PROVE  Segment(f \o u) /\ (f \o u)[1] = f[1]
<1>1. f \in Seq(UnitSet) /\ Len(f) >= 2 /\ Len(f) \in Nat
    BY SegmentConfig DEF Segment
<1> QED BY <1>1, ConcatAgree, SegmentAgree

\* The record after the last one, behind a segment that scans clean.
LEMMA AppendScan ==
    ASSUME NEW g, Segment(g), Padded = {}, scan(g).error = "None",
           NEW r \in Record, r.config = g[1].of,
           r.sequence = g[1].of.first_sequence + Len(scan(g).log)
    PROVE  LET h == g \o RecordUnits(r)
           IN  /\ Segment(h) /\ h[1] = g[1]
               /\ scan(h).error = "None"
               /\ scan(h).log = Append(scan(g).log, r)
               /\ Agree(g, h, Len(g)) /\ Len(h) = Len(g) + Size(r)
<1> DEFINE u == RecordUnits(r)
           h == g \o u
           e == End(g)
<1>1. /\ g \in Seq(UnitSet) /\ u \in Seq(UnitSet) /\ Len(u) = Size(r)
      /\ Len(g) \in Nat /\ Len(g) >= 2 /\ Size(r) \in {2, 3}
    BY UnitsOfRecord, SegmentConfig DEF Segment, Size
<1>2. /\ h \in Seq(UnitSet) /\ Len(h) = Len(g) + Size(r)
      /\ Agree(g, h, Len(g)) /\ Segment(h) /\ h[1] = g[1]
  <2> HIDE DEF u
  <2>1. /\ h \in Seq(UnitSet) /\ Len(h) = Len(g) + Len(u)
        /\ Agree(g, h, Len(g))
      BY <1>1, ConcatAgree
  <2>2. Segment(h) /\ h[1] = g[1]
      BY <1>1, SegmentConcat
  <2> QED BY <1>1, <2>1, <2>2
<1>3. /\ h[Len(g) + 1] = u[1] /\ h[Len(g) + 2] = u[2]
      /\ Size(r) = 3 => h[Len(g) + 3] = u[3]
    BY <1>1, ConcatAgree
<1>4. Boundary(g, e) /\ e.offset = Len(g) /\ e.log = scan(g).log
    BY ScanEnd DEF End
<1> HIDE DEF h, e, u
<1>5. Boundary(h, e) /\ e \in Place
    BY <1>1, <1>2, <1>4, BoundaryAgree, BoundaryPlace
<1>6. HoldsAt(h, Len(g), r)
    BY <1>1, <1>2, <1>3, UnitsOfRecord DEF HoldsAt, Size, u
<1>7. Stands(h, e, r)
    BY <1>2, <1>4, <1>6 DEF Stands
<1>8. Boundary(h, After(e, r))
    BY <1>2, <1>5, <1>7, NextBoundary
<1>9. After(e, r).offset = Len(h) /\ After(e, r).log = Append(scan(g).log, r)
    BY <1>2, <1>4 DEF After
<1>10. scan(h).error = "None" /\ scan(h).log = Append(scan(g).log, r)
    BY <1>2, <1>8, <1>9, CleanScan
<1> QED BY <1>2, <1>10 DEF h, u


------------------------------------------------------------------------------
(* What can follow the records of a file.  The units behind offset o are   *)
(* such that a reader with a stale unit or two from this place in its      *)
(* cache cannot patch a record of sequence s together that is not there.   *)

TailSafe(f, o, s) ==
    /\ o + 1 <= Len(f) => f[o + 1].part # "payload"
    /\ (o + 2 <= Len(f) /\ f[o + 2].part = "header_back"
            /\ f[o + 2].of.sequence = s)
          => f[o + 1] = Unit("header_front", f[o + 2].of)
    /\ (o + 3 <= Len(f) /\ f[o + 3].part = "payload")
          => \E r : /\ r.sequence = s
                    /\ f[o + 1] = Unit("header_front", r)
                    /\ f[o + 2] = Unit("header_back", r)
                    /\ f[o + 3].of = r.payload

\* The first record behind a place of a segment that scans clean.
FirstAt(g, o, s, r) ==
    o < Len(g) =>
       /\ o + 2 <= Len(g)
       /\ g[o + 1] = Unit("header_front", r)
       /\ g[o + 2] = Unit("header_back", r)
       /\ r.sequence = s
       /\ (o + 3 <= Len(g) /\ g[o + 3].part = "payload") =>
             g[o + 3].of = r.payload

SequenceAt(f, a) == f[1].of.first_sequence + Len(a.log)

LEMMA CleanFirst ==
    ASSUME NEW g, Segment(g), Padded = {}, scan(g).error = "None",
           NEW a, Boundary(g, a)
    PROVE  \E r : FirstAt(g, a.offset, SequenceAt(g, a), r)
<1>1. a \in Place /\ a.offset \in Nat /\ a.offset <= Len(g) /\ Len(g) \in Nat
    BY BoundaryPlace, SegmentConfig
<1>2. Boundary(g, End(g)) /\ End(g).offset = Len(g)
    BY ScanEnd DEF End
<1>3. CASE a.offset = Len(g)
    BY <1>1, <1>3 DEF FirstAt
<1>4. CASE a.offset < Len(g)
  <2> PICK r : Stands(g, a, r)
      BY <1>2, <1>4, PlacesOrdered
  <2>1. HoldsAt(g, a.offset, r) /\ r.sequence = SequenceAt(g, a)
      BY DEF Stands, SequenceAt
  <2>2. ASSUME a.offset + 3 <= Len(g), g[a.offset + 3].part = "payload"
        PROVE  g[a.offset + 3].of = r.payload
    <3>1. CASE r.payload \notin Empty
        BY <2>1, <3>1 DEF HoldsAt, Unit
    <3>2. CASE r.payload \in Empty
      <4> DEFINE b == After(a, r)
      <4>1. Boundary(g, b) /\ b.offset = a.offset + 2
          BY <3>2, NextBoundary DEF After, Size
      <4>2. b.offset < End(g).offset
          BY <1>1, <1>2, <2>2, <4>1
      <4> PICK q : Stands(g, b, q)
          BY <1>2, <4>1, <4>2, PlacesOrdered
      <4>3. g[b.offset + 1].part = "header_front"
          BY DEF Stands, HoldsAt, Unit
      <4>4. b.offset + 1 = a.offset + 3
          BY <1>1, <4>1
      <4> QED BY <2>2, <4>3, <4>4
    <3> QED BY <3>1, <3>2
  <2>3. FirstAt(g, a.offset, SequenceAt(g, a), r)
      BY <2>1, <2>2 DEF FirstAt, HoldsAt
  <2> QED BY <2>3
<1> QED BY <1>1, <1>3, <1>4

\* The stream holds what follows the first m units of g.
Continues(f, m, u, g) ==
    /\ f \in Seq(UnitSet) /\ u \in Seq(UnitSet)
    /\ Agree(f, g, Len(f))
    /\ m \in 0..Len(f) /\ m + Len(u) <= Len(g)
    /\ \A i \in 1..Len(u) : u[i] = g[m + i]

\* A stream whose first units have reached the file already is written again.
LEMMA RestartTailSafe ==
    ASSUME NEW g, Segment(g), Padded = {}, scan(g).error = "None",
           NEW a, Boundary(g, a), NEW f, NEW u, NEW m, Continues(f, m, u, g),
           m >= a.offset \/ a = Start
    PROVE  TailSafe(f \o u, a.offset, SequenceAt(g, a))
<1> DEFINE h == f \o u
           o == a.offset
           s == SequenceAt(g, a)
           t == Len(f)
<1> PICK r : FirstAt(g, o, s, r)
    BY CleanFirst
<1>1. o \in Nat /\ m \in Nat /\ t \in Nat /\ Len(g) \in Nat /\ Len(u) \in Nat
      /\ m <= t /\ t <= Len(g) /\ m + Len(u) <= Len(g)
    BY BoundaryPlace, SegmentConfig DEF Continues, Agree
<1>2. Len(h) = t + Len(u)
      /\ \A i \in 1..Len(h) : h[i] = IF i <= t THEN g[i] ELSE g[m + (i - t)]
  <2>1. /\ Len(h) = t + Len(u)
        /\ \A i \in 1..t : h[i] = f[i]
        /\ \A i \in 1..Len(u) : h[t + i] = u[i]
      BY ConcatAgree DEF Continues
  <2>2. \A i \in 1..t : f[i] = g[i]
      BY DEF Continues, Agree
  <2>3. ASSUME NEW i \in 1..Len(h), ~(i <= t) PROVE h[i] = g[m + (i - t)]
    <3>1. i - t \in 1..Len(u) /\ t + (i - t) = i
        BY <1>1, <2>1, <2>3
    <3> QED BY <2>1, <3>1 DEF Continues
  <2> QED BY <1>1, <2>1, <2>2, <2>3
<1>3. m >= o \/ (o = 2 /\ g[1].part = "segment_front" /\ g[2].part = "segment_back")
    BY DEF Start, Segment, ValidSegment, Unit
<1>4. o < Len(g) =>
         /\ o + 2 <= Len(g) /\ g[o + 1] = Unit("header_front", r)
         /\ g[o + 2] = Unit("header_back", r) /\ r.sequence = s
         /\ g[o + 1].part = "header_front" /\ g[o + 2].part = "header_back"
         /\ g[o + 2].of = r
    BY DEF FirstAt, Unit
<1>5. o + 3 <= Len(g) /\ g[o + 3].part = "payload" => g[o + 3].of = r.payload
    BY <1>1 DEF FirstAt
<1> HIDE DEF h, o, s, t
\* The units that g has around a are known; where h repeats units of g, they
\* are those of its last one or two places.
<1>6. CASE m = t
  <2>1. \A i \in 1..Len(h) : h[i] = g[i] /\ i <= Len(g)
    <3> SUFFICES ASSUME NEW i \in 1..Len(h) PROVE h[i] = g[i] /\ i <= Len(g)
        OBVIOUS
    <3>1. m + (i - t) = i /\ i <= Len(g)
        BY <1>1, <1>2, <1>6
    <3> QED BY <1>2, <3>1
  <2>2. \A k \in {1, 2, 3} : o + k <= Len(h) => o + k \in 1..Len(h)
      BY <1>1
  <2>3. \A k \in {1, 2, 3} : o + k <= Len(h) => h[o + k] = g[o + k] /\ o + k <= Len(g)
      BY <2>1, <2>2
  <2>4. \A k \in {1, 2, 3} : o + k <= Len(g) => o < Len(g)
      BY <1>1
  <2>5. o + 1 <= Len(h) => h[o + 1].part # "payload"
      BY <1>4, <2>3, <2>4
  <2>6. o + 2 <= Len(h) => h[o + 1] = Unit("header_front", h[o + 2].of)
    <3>1. o + 2 <= Len(h) => o + 1 <= Len(h)
        BY <1>1, <1>2
    <3> QED BY <1>4, <2>3, <2>4, <3>1
  <2>7. (o + 3 <= Len(h) /\ h[o + 3].part = "payload")
           => /\ h[o + 1] = Unit("header_front", r)
              /\ h[o + 2] = Unit("header_back", r)
              /\ h[o + 3].of = r.payload
              /\ r.sequence = s
    <3>1. o + 3 <= Len(h) => o + 1 <= Len(h) /\ o + 2 <= Len(h)
        BY <1>1, <1>2
    <3> QED BY <1>4, <1>5, <2>3, <2>4, <3>1
  <2> QED BY <2>5, <2>6, <2>7 DEF TailSafe, h, o, s, t
<1>7. CASE m < t
  <2> DEFINE j(k) == m + ((o + k) - t)
  <2>1. ASSUME NEW k \in {1, 2, 3}, o + k <= Len(h)
        PROVE  /\ o + k <= t => h[o + k] = g[o + k] /\ o + k <= Len(g)
               /\ t < o + k => h[o + k] = g[j(k)] /\ j(k) <= Len(g)
      <3>1. o + k \in 1..Len(h)
          BY <1>1, <2>1
      <3>2. h[o + k] = IF o + k <= t THEN g[o + k] ELSE g[j(k)]
          BY <1>2, <3>1
      <3>3. t < o + k => ~(o + k <= t) /\ j(k) <= Len(g)
          BY <1>1, <1>2, <3>1
      <3>4. o + k <= t => o + k <= Len(g)
          BY <1>1
      <3> QED BY <3>2, <3>3, <3>4
  <2>2. ASSUME NEW k \in {1, 2, 3}, t < o + k
        PROVE  \/ j(k) \in {o + 1, o + 2} /\ m >= o /\ j(k) < o + k
               \/ o = 2 /\ j(k) \in {1, 2, 3, 4} /\ j(k) < o + k
                     /\ g[1].part = "segment_front" /\ g[2].part = "segment_back"
    <3>1. CASE m >= o
      <4>1. j(k) < o + k
          BY <1>1, <1>7
      <4>2. j(k) \in {o + 1, o + 2}
        <5>1. j(k) \in o + 1..o + 2
            BY <1>1, <1>7, <2>2, <3>1, <4>1
        <5> QED BY <1>1, <5>1
      <4> QED BY <3>1, <4>1, <4>2
    <3>2. CASE ~(m >= o)
      <4>1. o = 2 /\ g[1].part = "segment_front" /\ g[2].part = "segment_back"
          BY <1>3, <3>2
      <4>2. j(k) \in {1, 2, 3, 4} /\ j(k) < o + k
          BY <1>1, <1>7, <2>2, <3>2, <4>1
      <4> QED BY <4>1, <4>2
    <3> QED BY <3>1, <3>2
  <2>3. ASSUME NEW k \in {1, 2, 3}, t < o + k
        PROVE  /\ j(k) \in {o + 1, o + 2} \/ j(k) \in {1, 2}
               /\ j(k) \in {1, 2} => g[j(k)].part \in {"segment_front", "segment_back"}
                                     \/ j(k) \in {o + 1, o + 2}
               /\ j(k) < o + k
    <3>1. CASE j(k) \in {o + 1, o + 2} /\ j(k) < o + k
        BY <3>1
    <3>2. CASE /\ o = 2 /\ j(k) \in {1, 2, 3, 4} /\ j(k) < o + k
               /\ g[1].part = "segment_front" /\ g[2].part = "segment_back"
        BY <3>2
    <3> QED BY <2>2, <2>3, <3>1, <3>2
  <2> HIDE DEF j
  <2>4. ASSUME NEW n \in {o + 1, o + 2}, n <= Len(g)
        PROVE  o < Len(g)
      BY <1>1, <2>4
  <2>5. ASSUME NEW k \in {1, 2, 3}, o + k <= Len(h), t < o + k
        PROVE  /\ h[o + k].part # "payload"
               /\ h[o + k].part = "header_back" => j(k) = o + 2
    <3>1. h[o + k] = g[j(k)] /\ j(k) <= Len(g)
        BY <2>1, <2>5
    <3>2. CASE j(k) = o + 1
        BY <1>4, <2>4, <3>1, <3>2
    <3>3. CASE j(k) = o + 2
        BY <1>4, <2>4, <3>1, <3>3
    <3>4. CASE g[j(k)].part \in {"segment_front", "segment_back"}
        BY <3>1, <3>4
    <3> QED BY <2>3, <2>5, <3>2, <3>3, <3>4
  <2>6. o + 1 <= Len(h) => h[o + 1].part # "payload"
    <3> SUFFICES ASSUME o + 1 <= Len(h) PROVE h[o + 1].part # "payload"
        OBVIOUS
    <3>1. CASE o + 1 <= t
        BY <1>4, <2>1, <2>4, <3>1
    <3>2. CASE t < o + 1
        BY <2>5, <3>2
    <3> QED BY <1>1, <3>1, <3>2
  <2>7. (o + 2 <= Len(h) /\ h[o + 2].part = "header_back")
           => h[o + 1] = Unit("header_front", h[o + 2].of)
    <3> SUFFICES ASSUME o + 2 <= Len(h), h[o + 2].part = "header_back"
                 PROVE  h[o + 1] = Unit("header_front", h[o + 2].of)
        OBVIOUS
    <3>1. o + 2 <= t
      <4> SUFFICES ASSUME t < o + 2 PROVE FALSE
          BY <1>1
      <4>1. j(2) = o + 2 /\ j(2) < o + 2
          BY <2>3, <2>5
      <4> QED BY <1>1, <4>1
    <3>2. o + 1 <= t /\ o + 1 <= Len(h)
        BY <1>1, <1>2, <3>1
    <3> QED BY <1>4, <2>1, <2>4, <3>1, <3>2
  <2>8. (o + 3 <= Len(h) /\ h[o + 3].part = "payload")
           => /\ h[o + 1] = Unit("header_front", r)
              /\ h[o + 2] = Unit("header_back", r)
              /\ h[o + 3].of = r.payload
              /\ r.sequence = s
    <3> SUFFICES ASSUME o + 3 <= Len(h), h[o + 3].part = "payload"
                 PROVE  /\ h[o + 1] = Unit("header_front", r)
                        /\ h[o + 2] = Unit("header_back", r)
                        /\ h[o + 3].of = r.payload
                        /\ r.sequence = s
        OBVIOUS
    <3>1. o + 3 <= t
        BY <1>1, <2>5
    <3>2. \A k \in {1, 2} : o + k <= t /\ o + k <= Len(h)
        BY <1>1, <1>2, <3>1
    <3>3. o < Len(g)
        BY <1>1, <3>1
    <3>4. \A k \in {1, 2, 3} : h[o + k] = g[o + k]
        BY <2>1, <3>1, <3>2
    <3>5. o + 3 <= Len(g)
        BY <2>1, <3>1
    <3> QED BY <1>4, <1>5, <3>3, <3>4, <3>5
  <2> QED BY <2>6, <2>7, <2>8 DEF TailSafe, h, o, s, t
<1> QED BY <1>1, <1>6, <1>7 DEF t

LEMMA TailSafeBelow ==
    ASSUME NEW f, Segment(f), Padded = {}, NEW a, Boundary(f, a),
           NEW b, Boundary(f, b), b.offset <= a.offset,
           TailSafe(f, a.offset, SequenceAt(f, a))
    PROVE  TailSafe(f, b.offset, SequenceAt(f, b))
<1>1. a.offset \in Nat /\ b.offset \in Nat /\ Len(f) \in Nat /\ a \in Place /\ b \in Place
    BY BoundaryPlace, SegmentConfig
<1>2. CASE a.offset = b.offset
    BY <1>2, PlacesOrdered
<1>3. CASE b.offset < a.offset
  <2> PICK r : Stands(f, b, r) /\ After(b, r).offset <= a.offset
      BY <1>3, PlacesOrdered
  <2> DEFINE o == b.offset
  <2>1. /\ f[o + 1] = Unit("header_front", r) /\ f[o + 2] = Unit("header_back", r)
        /\ r.sequence = SequenceAt(f, b)
      BY DEF Stands, HoldsAt, SequenceAt
  <2>2. f[o + 1].part = "header_front" /\ f[o + 2].of = r
      BY <2>1 DEF Unit
  <2>3. ASSUME o + 3 <= Len(f), f[o + 3].part = "payload"
        PROVE  f[o + 3].of = r.payload
    <3>1. CASE r.payload \notin Empty
        BY <3>1 DEF Stands, HoldsAt, Unit
    <3>2. CASE r.payload \in Empty
      <4> DEFINE d == After(b, r)
      <4>1. Boundary(f, d) /\ d.offset = o + 2 /\ d \in Place
          BY <3>2, <1>1, NextBoundary, BoundaryPlace DEF After, Size
      <4>2. d.offset + 1 = o + 3
          BY <4>1, <1>1
      <4> HIDE DEF d
      <4>3. CASE d.offset = a.offset
          BY <2>3, <4>2, <4>3 DEF TailSafe
      <4>4. CASE d.offset < a.offset
        <5> PICK q : Stands(f, d, q)
            BY <4>1, <4>4, PlacesOrdered
        <5>1. f[d.offset + 1].part = "header_front"
            BY DEF Stands, HoldsAt, Unit
        <5> QED BY <2>3, <4>2, <5>1
      <4>5. d.offset <= a.offset
          BY DEF d
      <4> QED BY <4>1, <4>3, <4>4, <4>5, <1>1
    <3> QED BY <3>1, <3>2
  <2> QED BY <2>1, <2>2, <2>3 DEF TailSafe
<1> QED BY <1>1, <1>2, <1>3

------------------------------------------------------------------------------
(* The cache of a reader.                                                  *)

\* All record headers are those of the segment's one writer configuration.
OneStream(f) ==
    \A i \in 1..Len(f) : f[i].part \in {"header_front", "header_back"}
                            => f[i].of.config = f[1].of

\* The cache holds what the file holds behind offset o.
CacheFresh(f, o, cache) ==
    /\ o + Len(cache) <= Len(f)
    /\ \A i \in 1..Len(cache) : cache[i] = f[o + i]

\* The cache holds records of the file up to a place where the file has been
\* cut, and one or two units of what was cut off there.
CacheStale(f, o, cache, b) ==
    /\ Boundary(f, b) /\ o <= b.offset
    /\ \A i \in 1..b.offset - o : cache[i] = f[o + i]
    /\ \/ Len(cache) = b.offset - o + 1
       \/ /\ Len(cache) = b.offset - o + 2
          /\ \E r : /\ cache[b.offset - o + 1] = Unit("header_front", r)
                    /\ cache[b.offset - o + 2] = Unit("header_back", r)
                    /\ r.sequence = SequenceAt(f, b)
                    /\ r.config = f[1].of
                    /\ r.payload \notin Empty

Cached(f, o, cache, limit) ==
    \/ CacheFresh(f, o, cache)
    \/ \E b : CacheStale(f, o, cache, b) /\ b.offset <= limit

LEMMA CachedGrows ==
    ASSUME NEW f, Segment(f), NEW g, Segment(g), Padded = {},
           Agree(f, g, Len(f)), NEW o \in Nat, NEW cache \in Seq(UnitSet),
           NEW limit, Cached(f, o, cache, limit)
    PROVE  Cached(g, o, cache, limit)
<1>1. /\ Len(f) \in Nat /\ Len(g) \in Nat /\ Len(f) >= 2 /\ Len(cache) \in Nat
      /\ f[1] = g[1]
    BY SegmentConfig DEF Agree
<1>2. CASE CacheFresh(f, o, cache)
  <2>1. Len(f) <= Len(g)
      BY DEF Agree
  <2>2. o + Len(cache) <= Len(g)
      BY <1>1, <1>2, <2>1 DEF CacheFresh
  <2>3. \A i \in 1..Len(cache) : o + i \in 1..Len(f)
      BY <1>1, <1>2 DEF CacheFresh
  <2>4. CacheFresh(g, o, cache)
      BY <1>2, <2>2, <2>3 DEF CacheFresh, Agree
  <2> QED BY <2>4 DEF Cached
<1>3. ASSUME NEW b, CacheStale(f, o, cache, b), b.offset <= limit
      PROVE  Cached(g, o, cache, limit)
  <2>1. b.offset \in Nat /\ b.offset <= Len(f) /\ Boundary(f, b)
      BY <1>3, BoundaryPlace DEF CacheStale
  <2>2. Boundary(g, b)
      BY <1>1, <2>1, BoundaryAgree
  <2>3. \A i \in 1..b.offset - o : o + i \in 1..Len(f)
      BY <1>1, <2>1
  <2>4. \A i \in 1..b.offset - o : cache[i] = g[o + i]
      BY <1>3, <2>3 DEF CacheStale, Agree
  <2>5. SequenceAt(f, b) = SequenceAt(g, b)
      BY <1>1 DEF SequenceAt
  <2>6. CacheStale(g, o, cache, b)
      BY <1>1, <1>3, <2>2, <2>4, <2>5 DEF CacheStale
  <2> QED BY <1>3, <2>6 DEF Cached
<1> QED BY <1>2, <1>3 DEF Cached

LEMMA CachedCut ==
    ASSUME NEW f, Segment(f), OneStream(f), Padded = {},
           scan(f).error = "IncompleteTrailingRecord",
           NEW a, Boundary(f, a), NEW cache \in Seq(UnitSet),
           NEW limit, limit <= scan(f).offset, limit \in Nat,
           Cached(f, a.offset, cache, limit)
    PROVE  LET g == SubSeq(f, 1, scan(f).offset)
           IN  Cached(g, a.offset, cache, Len(g))
<1> DEFINE g == SubSeq(f, 1, scan(f).offset)
           e == End(f)
           o == a.offset
<1> SUFFICES Cached(g, o, cache, Len(g))
    OBVIOUS
<1>1. /\ Segment(g) /\ Agree(f, g, Len(g)) /\ Len(g) = scan(f).offset
      /\ Len(g) \in Nat /\ Len(f) \in Nat /\ Len(g) >= 2
    BY CutScan, SegmentConfig
<1>2. /\ Boundary(f, e) /\ e.offset = Len(g) /\ FrameAt(f, e).kind = "Torn"
      /\ e \in Place /\ e.offset <= Len(f)
  <2> HIDE DEF g
  <2> QED BY <1>1, ScanEnd, BoundaryPlace DEF End
<1> HIDE DEF g, e
<1>3. f[1] = g[1] /\ Len(g) <= Len(f)
    BY <1>1 DEF Agree
<1>4. o \in Nat /\ o <= Len(g) /\ Len(cache) \in Nat
    BY <1>1, EndUnique, BoundaryPlace
<1> HIDE DEF o
<1>5. CASE CacheFresh(f, o, cache) /\ o + Len(cache) <= Len(g)
  <2>1. \A i \in 1..Len(cache) : o + i \in 1..Len(g)
      BY <1>1, <1>4, <1>5
  <2>2. CacheFresh(g, o, cache)
      BY <1>1, <1>5, <2>1 DEF CacheFresh, Agree
  <2> QED BY <2>2 DEF Cached
<1>6. CASE CacheFresh(f, o, cache) /\ Len(g) < o + Len(cache)
  <2>1. Boundary(g, e)
      BY <1>1, <1>2, BoundaryAgree
  <2>2. SequenceAt(g, e) = f[1].of.first_sequence + Len(e.log)
      BY <1>3 DEF SequenceAt
  <2>3. \A i \in 1..e.offset - o : o + i \in 1..Len(g) /\ i \in 1..Len(cache)
      BY <1>1, <1>2, <1>4, <1>6
  <2>4. \A i \in 1..e.offset - o : cache[i] = g[o + i]
      BY <1>1, <1>6, <2>3 DEF CacheFresh, Agree
  <2>5. CASE Len(cache) = e.offset - o + 1
    <3>1. CacheStale(g, o, cache, e)
        BY <1>2, <1>4, <2>1, <2>4, <2>5 DEF CacheStale
    <3> QED BY <1>1, <1>2, <3>1 DEF Cached
  <2>6. CASE Len(cache) # e.offset - o + 1
    <3>1. Len(f) # e.offset + 1
        BY <1>1, <1>2, <1>4, <1>6, <2>6 DEF CacheFresh
    <3> PICK r : /\ f[e.offset + 1] = Unit("header_front", r)
                 /\ f[e.offset + 2] = Unit("header_back", r)
                 /\ r.sequence = f[1].of.first_sequence + Len(e.log)
                 /\ r.payload \notin Empty
        BY <1>2, <3>1, FrameRecord
    <3>2. Len(f) = e.offset + 2
        BY <1>2, <3>1, FrameRecord
    <3>3. Len(cache) = e.offset - o + 2
      <4>1. o + Len(cache) <= e.offset + 2
          BY <1>6, <3>2 DEF CacheFresh
      <4>2. \A x, n, l \in Nat : n < x + l /\ x + l <= n + 2 /\ l # n - x + 1
                                  => l = n - x + 2
          OBVIOUS
      <4>3. /\ o \in Nat /\ e.offset \in Nat /\ Len(cache) \in Nat
            /\ e.offset < o + Len(cache)
          BY <1>1, <1>2, <1>4, <1>6
      <4> QED BY <2>6, <4>1, <4>2, <4>3, Zenon
    <3>4. /\ cache[e.offset - o + 1] = f[e.offset + 1]
          /\ cache[e.offset - o + 2] = f[e.offset + 2]
      <4>1. /\ e.offset - o + 1 \in 1..Len(cache) /\ o + (e.offset - o + 1) = e.offset + 1
            /\ e.offset - o + 2 \in 1..Len(cache) /\ o + (e.offset - o + 2) = e.offset + 2
        <5>1. \A x, n, l \in Nat : x <= n /\ l = n - x + 2
                 => /\ n - x + 1 \in 1..l /\ x + (n - x + 1) = n + 1
                    /\ n - x + 2 \in 1..l /\ x + (n - x + 2) = n + 2
            OBVIOUS
        <5>2. o \in Nat /\ e.offset \in Nat /\ Len(cache) \in Nat /\ o <= e.offset
            BY <1>1, <1>2, <1>4
        <5> QED BY <3>3, <5>1, <5>2, Zenon
      <4> QED BY <1>6, <4>1 DEF CacheFresh
    <3>5. r.config = f[1].of
      <4>1. e.offset + 1 \in 1..Len(f) /\ f[e.offset + 1].part = "header_front"
            /\ f[e.offset + 1].of = r
          BY <1>1, <1>2, <3>2 DEF Unit
      <4> QED BY <4>1 DEF OneStream
    <3>6. CacheStale(g, o, cache, e)
        BY <1>2, <1>3, <1>4, <2>1, <2>2, <2>4, <3>3, <3>4, <3>5 DEF CacheStale
    <3> QED BY <1>1, <1>2, <3>6 DEF Cached
  <2> QED BY <2>5, <2>6
<1>7. ASSUME NEW b, CacheStale(f, o, cache, b), b.offset <= limit
      PROVE  Cached(g, o, cache, Len(g))
  <2>1. b.offset \in Nat /\ b.offset <= Len(g) /\ Boundary(f, b)
      BY <1>1, <1>7, BoundaryPlace DEF CacheStale
  <2>2. Boundary(g, b)
      BY <1>1, <2>1, BoundaryAgree
  <2>3. \A i \in 1..b.offset - o : o + i \in 1..Len(g)
      BY <1>1, <1>4, <2>1
  <2>4. \A i \in 1..b.offset - o : cache[i] = g[o + i]
      BY <1>1, <1>7, <2>3 DEF CacheStale, Agree
  <2>5. SequenceAt(f, b) = SequenceAt(g, b)
      BY <1>3 DEF SequenceAt
  <2>6. CacheStale(g, o, cache, b)
      BY <1>3, <1>7, <2>2, <2>4, <2>5 DEF CacheStale
  <2> QED BY <2>1, <2>6 DEF Cached
<1>8. o + Len(cache) <= Len(g) \/ Len(g) < o + Len(cache)
    BY <1>1, <1>4
<1>9. CASE CacheFresh(f, o, cache)
    BY <1>5, <1>6, <1>8, <1>9
<1>10. CASE \E b : CacheStale(f, o, cache, b) /\ b.offset <= limit
    BY <1>7, <1>10
<1>11. Cached(f, o, cache, limit)
    BY DEF o
<1> QED BY <1>9, <1>10, <1>11 DEF Cached


\* What the file holds by now beyond the units fetched.
LEMMA FetchedUnits ==
    ASSUME NEW f \in Seq(UnitSet), NEW cache \in Seq(UnitSet), NEW fetched \in Nat
    PROVE  LET more == SubSeq(f, fetched + 1, Len(f))
               units == cache \o more
           IN  /\ units \in Seq(UnitSet)
               /\ Len(units) = Len(cache)
                     + IF fetched < Len(f) THEN Len(f) - fetched ELSE 0
               /\ \A i \in 1..Len(cache) : units[i] = cache[i]
               /\ \A i \in 1..Len(units) : i > Len(cache) =>
                     /\ fetched + (i - Len(cache)) \in 1..Len(f)
                     /\ units[i] = f[fetched + (i - Len(cache))]
<1> DEFINE more == SubSeq(f, fetched + 1, Len(f))
           units == cache \o more
<1>1. Len(f) \in Nat /\ Len(cache) \in Nat
    OBVIOUS
<1>2. \A i \in fetched + 1..Len(f) : f[i] \in UnitSet
    BY <1>1
<1>3. /\ more \in Seq(UnitSet)
      /\ Len(more) = IF fetched < Len(f) THEN Len(f) - fetched ELSE 0
      /\ \A i \in 1..Len(f) - fetched : more[i] = f[fetched + i]
    BY <1>1, <1>2, SubSeqProperties
<1> HIDE DEF more
<1>4. /\ units \in Seq(UnitSet) /\ Len(units) = Len(cache) + Len(more)
      /\ \A i \in 1..Len(cache) : units[i] = cache[i]
      /\ \A i \in 1..Len(more) : units[Len(cache) + i] = more[i]
    BY <1>3, ConcatAgree
<1> HIDE DEF units
<1>5. ASSUME NEW i \in 1..Len(units), i > Len(cache)
      PROVE  /\ fetched + (i - Len(cache)) \in 1..Len(f)
             /\ units[i] = f[fetched + (i - Len(cache))]
  <2> DEFINE j == i - Len(cache)
  <2>1. Len(more) \in Nat /\ j \in 1..Len(more) /\ i = Len(cache) + j
      BY <1>1, <1>3, <1>4, <1>5
  <2>2. fetched < Len(f) /\ j \in 1..Len(f) - fetched
      BY <1>1, <1>3, <2>1
  <2>3. units[i] = more[j] /\ more[j] = f[fetched + j]
      BY <1>3, <1>4, <2>1, <2>2
  <2>4. fetched + j \in 1..Len(f)
      BY <1>1, <2>2
  <2> QED BY <2>3, <2>4
<1> QED BY <1>3, <1>4, <1>5 DEF units, more

\* A record read from units that are those of the file is the next of its log.
LEMMA ReadFresh ==
    ASSUME NEW f, Segment(f), Padded = {}, NEW a, Boundary(f, a),
           NEW units \in Seq(UnitSet), CacheFresh(f, a.offset, units), NEW r,
           Begins(units, f[1].of, SequenceAt(f, a), r)
    PROVE  /\ Stands(f, a, r)
           /\ CacheFresh(f, a.offset + Size(r),
                         SubSeq(units, Size(r) + 1, Len(units)))
           /\ SubSeq(units, Size(r) + 1, Len(units)) \in Seq(UnitSet)
           /\ Len(SubSeq(units, Size(r) + 1, Len(units))) = Len(units) - Size(r)
<1> DEFINE o == a.offset
           k == Size(r)
           rest == SubSeq(units, k + 1, Len(units))
<1>1. /\ o \in Nat /\ Len(f) \in Nat /\ Len(units) \in Nat /\ k \in {2, 3}
      /\ o + Len(units) <= Len(f)
    BY BoundaryPlace, SegmentConfig DEF Size, CacheFresh
<1>2. \A i \in 1..Len(units) : units[i] = f[o + i]
    BY DEF CacheFresh
<1> HIDE DEF o
<1>3. k <= Len(units) /\ HoldsAt(f, o, r)
    BY <1>1, <1>2 DEF Begins, HoldsAt, Size
<1>4. Stands(f, a, r)
    BY <1>3 DEF Stands, Begins, SequenceAt, o
<1> HIDE DEF k
<1>5. /\ rest \in Seq(UnitSet) /\ Len(rest) = Len(units) - k
      /\ \A i \in 1..Len(units) - k : rest[i] = units[k + i]
    BY <1>1, <1>3, RestOf
<1> HIDE DEF rest
<1>6. \A i \in 1..Len(rest) : rest[i] = f[(o + k) + i]
  <2> SUFFICES ASSUME NEW i \in 1..Len(rest) PROVE rest[i] = f[(o + k) + i]
      OBVIOUS
  <2>1. i \in 1..Len(units) - k /\ k + i \in 1..Len(units) /\ o + (k + i) = (o + k) + i
      BY <1>1, <1>3, <1>5
  <2> QED BY <1>2, <1>5, <2>1
<1>7. (o + k) + Len(rest) <= Len(f)
    BY <1>1, <1>3, <1>5
<1>8. CacheFresh(f, o + k, rest)
    BY <1>6, <1>7 DEF CacheFresh
<1> QED BY <1>4, <1>5, <1>8 DEF o, k, rest

\* One or two stale units do not join with what the file holds now, unless
\* they are what it holds now.
LEMMA StumpJoins ==
    ASSUME NEW f, Segment(f), OneStream(f), Padded = {}, NEW b, Boundary(f, b),
           TailSafe(f, b.offset, SequenceAt(f, b)),
           NEW cache \in Seq(UnitSet), CacheStale(f, b.offset, cache, b), NEW r,
           Begins(cache \o SubSeq(f, b.offset + Len(cache) + 1, Len(f)),
                  f[1].of, SequenceAt(f, b), r)
    PROVE  /\ CacheFresh(f, b.offset,
                 cache \o SubSeq(f, b.offset + Len(cache) + 1, Len(f)))
           /\ b.offset + Len(cache) < Len(f)
<1> DEFINE o == b.offset
           s == SequenceAt(f, b)
           n == Len(cache)
           units == cache \o SubSeq(f, (o + n) + 1, Len(f))
<1>1. o \in Nat /\ n \in Nat /\ Len(f) \in Nat /\ f \in Seq(UnitSet) /\ o + n \in Nat
    BY BoundaryPlace, SegmentConfig DEF Segment
<1>2. /\ units \in Seq(UnitSet)
      /\ Len(units) = n + IF o + n < Len(f) THEN Len(f) - (o + n) ELSE 0
      /\ \A i \in 1..n : units[i] = cache[i]
      /\ \A i \in 1..Len(units) : i > n =>
            /\ (o + n) + (i - n) \in 1..Len(f)
            /\ units[i] = f[(o + n) + (i - n)]
    BY <1>1, FetchedUnits
<1>3. Begins(units, f[1].of, s, r)
    OBVIOUS
<1> HIDE DEF units
<1>4. ASSUME NEW i \in 1..Len(units), i > n
      PROVE  units[i] = f[o + i] /\ o + i <= Len(f)
  <2>1. (o + n) + (i - n) = o + i
      BY <1>1
  <2> QED BY <1>2, <1>4, <2>1
<1>5. /\ 2 <= Len(units)
      /\ units[1] = Unit("header_front", r) /\ units[2] = Unit("header_back", r)
      /\ r.sequence = s
      /\ r.payload \notin Empty => 3 <= Len(units) /\ units[3] = Unit("payload", r.payload)
    BY <1>2, <1>3 DEF Begins, HoldsAt
<1>6. n \in {1, 2}
  <2>1. n = o - o + 1 \/ n = o - o + 2
      BY DEF CacheStale
  <2>2. o - o + 1 = 1 /\ o - o + 2 = 2
      BY <1>1
  <2> QED BY <2>1, <2>2
<1> HIDE DEF n
<1>7. ASSUME n = 1
      PROVE  o + n < Len(f) /\ \A i \in 1..n : units[i] = f[o + i]
  <2>1. units[2] = f[o + 2] /\ o + 2 <= Len(f)
      BY <1>4, <1>5, <1>7
  <2>2. f[o + 2].part = "header_back" /\ f[o + 2].of = r
      BY <1>5, <2>1 DEF Unit
  <2>3. f[o + 1] = Unit("header_front", r)
      BY <1>5, <2>1, <2>2 DEF TailSafe
  <2>4. \A i \in 1..n : units[i] = f[o + i]
      BY <1>5, <1>7, <2>3
  <2> QED BY <1>1, <1>7, <2>1, <2>4
<1>8. ASSUME n = 2
      PROVE  o + n < Len(f) /\ \A i \in 1..n : units[i] = f[o + i]
  <2> PICK q : /\ cache[1] = Unit("header_front", q)
               /\ cache[2] = Unit("header_back", q)
               /\ q.payload \notin Empty
               /\ q.config = f[1].of
    <3>1. Len(cache) # o - o + 1 /\ o - o + 1 = 1 /\ o - o + 2 = 2
        BY <1>1, <1>8 DEF n
    <3> QED BY <3>1 DEF CacheStale
  <2>1. r = q
      BY <1>2, <1>5, <1>8 DEF Unit
  <2>2. f[o + 3] = Unit("payload", r.payload) /\ o + 3 <= Len(f)
      BY <1>4, <1>5, <1>8, <2>1
  <2>9. f[o + 3].part = "payload" /\ f[o + 3].of = r.payload
      BY <2>2 DEF Unit
  <2> PICK x : /\ x.sequence = s
               /\ f[o + 1] = Unit("header_front", x)
               /\ f[o + 2] = Unit("header_back", x)
               /\ f[o + 3].of = x.payload
      BY <2>2, <2>9 DEF TailSafe
  <2>3. cache[1] \in UnitSet /\ f[o + 1] \in UnitSet /\ o + 1 \in 1..Len(f)
    <3>1. 1 \in 1..Len(cache) /\ o + 1 \in 1..Len(f)
        BY <1>1, <1>8, <2>2 DEF n
    <3> QED BY <3>1, <1>1, ElementOfSeq
  <2>4. r \in Record /\ x \in Record
      BY <2>1, <2>3, UnitRecord DEF Unit
  <2>5. x.config = f[1].of
      BY <2>3 DEF OneStream, Unit
  <2>6. x.payload = r.payload
      BY <2>9
  <2>7. x = r
      BY <1>5, <2>1, <2>4, <2>5, <2>6 DEF Record
  <2>8. \A i \in 1..n : units[i] = f[o + i]
      BY <1>5, <1>8, <2>7
  <2> QED BY <1>1, <1>8, <2>2, <2>8
<1>9. /\ o + n < Len(f) /\ \A i \in 1..n : units[i] = f[o + i]
    BY <1>6, <1>7, <1>8
<1>10. ASSUME NEW i \in 1..Len(units) PROVE units[i] = f[o + i]
  <2>1. i \in 1..n \/ i > n
      BY <1>1
  <2> QED BY <1>4, <1>9, <2>1
<1>11. o + Len(units) <= Len(f)
    BY <1>1, <1>2, <1>9
<1>12. CacheFresh(f, o, units) /\ o + n < Len(f)
    BY <1>9, <1>10, <1>11 DEF CacheFresh
<1> QED BY <1>12 DEF units, n
=============================================================================
