--------------------------- MODULE WalLayoutProofs ---------------------------
(***************************************************************************)
(* Proofs about the record lengths for every width of the length fields,   *)
(* every header and alignment, and payloads of any size, among them the 32 *)
(* bit fields of the code, where the instance that is model-checked has 8. *)
(* First the arithmetic of alignment modulo the word, then what the file   *)
(* looks like (Laid), and what a scan of such a file returns.              *)
(***************************************************************************)
EXTENDS WalLayout, SequenceTheorems, FiniteSetTheorems, TLAPS

\* A set with 0 and the successors of its members has every natural number.
LEMMA SetInduction ==
    ASSUME NEW T, 0 \in T, \A n \in Nat : n \in T => n + 1 \in T
    PROVE  Nat \subseteq T
<1> SUFFICES ASSUME NEW n \in Nat, n \notin T PROVE FALSE
    OBVIOUS
<1> DEFINE A == {x \in 0..n : x \in T}
           B == A \ {0}
           f == [x \in A |-> x + 1]
<1>1. IsFiniteSet(A) /\ 0 \in A
  <2>1. IsFiniteSet(0..n)
      BY FS_Interval
  <2> QED BY <2>1, FS_Subset
<1>2. f \in [A -> B]
  <2> SUFFICES ASSUME NEW x \in A PROVE x + 1 \in B
      OBVIOUS
  <2>1. x # n
      OBVIOUS
  <2>2. x + 1 \in 0..n /\ x + 1 \in T /\ x + 1 # 0
      BY <2>1
  <2> QED BY <2>2
<1>3. IsInjective(f)
    BY DEF IsInjective
<1>4. IsFiniteSet(B) /\ Cardinality(B) = Cardinality(A) - 1
    BY <1>1, FS_RemoveElement
<1>5. Cardinality(A) \in Nat
    BY <1>1, FS_CardinalityType
<1> HIDE DEF A, B, f
<1>6. f \in Injection(A, B)
    BY <1>2, <1>3 DEF Injection
<1>7. Cardinality(A) <= Cardinality(B)
    BY <1>1, <1>4, <1>6, FS_Injection
<1> QED BY <1>4, <1>5, <1>7

\* A nonempty set of natural numbers has a least member, which is its Min.
LEMMA Least ==
    ASSUME NEW S, S \subseteq Nat, S # {}
    PROVE  Min(S) \in S /\ \A n \in S : Min(S) <= n
<1> SUFFICES \E m \in S : \A n \in S : m <= n
    BY DEF Min
<1> SUFFICES ASSUME \A m \in S : \E n \in S : ~(m <= n) PROVE FALSE
    OBVIOUS
<1> DEFINE T == {n \in Nat : \A k \in 0..n : k \notin S}
<1>1. 0 \in T
    OBVIOUS
<1>2. ASSUME NEW n \in Nat, n \in T PROVE n + 1 \in T
  <2>1. \A k \in 0..n : k \notin S
      BY <1>2
  <2>2. n + 1 \notin S
    <3> SUFFICES ASSUME n + 1 \in S PROVE FALSE
        OBVIOUS
    <3>1. PICK m \in S : ~(n + 1 <= m)
        OBVIOUS
    <3>2. m \in 0..n
        BY <3>1
    <3> QED BY <2>1, <3>2
  <2>3. \A k \in 0..(n + 1) : k \in 0..n \/ k = n + 1
      OBVIOUS
  <2> QED BY <2>1, <2>2, <2>3
<1>3. PICK m \in S : TRUE
    OBVIOUS
<1> HIDE DEF T
<1>4. m \in T
    BY <1>1, <1>2, SetInduction
<1> QED BY <1>4 DEF T

------------------------------------------------------------------------------
(* Multiples and remainders.                                               *)

LEMMA Remainder ==
    ASSUME NEW n \in Nat \ {0}
    PROVE  /\ \A a \in Int : a % n \in 0..(n - 1)
           /\ \A a \in Nat : a < n => a % n = a
           /\ \A a \in Nat : (n <= a /\ a < 2 * n) => a % n = a - n
           /\ \A q \in Nat : (q * n) % n = 0
    OBVIOUS

LEMMA Quotient ==
    ASSUME NEW a \in Nat, NEW n \in Nat \ {0}
    PROVE  /\ a = ((a \div n) * n) + (a % n)
           /\ a \div n \in Nat
           /\ a % n \in 0..(n - 1)
    OBVIOUS

LEMMA SumOfMultiples ==
    ASSUME NEW n \in Nat \ {0}, NEW a \in Nat, NEW b \in Nat, a % n = 0, b % n = 0
    PROVE  (a + b) % n = 0
<1> DEFINE q == (a \div n) + (b \div n)
<1>1. /\ a = (a \div n) * n /\ b = (b \div n) * n
      /\ a \div n \in Nat /\ b \div n \in Nat
    BY Quotient
<1>2. a + b = q * n /\ q \in Nat
    BY <1>1
<1> HIDE DEF q
<1> QED BY <1>2, Remainder

\* The next multiple behind a number, which lies at or below every greater one.
LEMMA NextMultiple ==
    ASSUME NEW n \in Nat \ {0}, NEW a \in Nat, a % n # 0
    PROVE  LET up == a + (n - (a % n))
           IN  /\ up \in Nat /\ up > a /\ up - a < n
               /\ up % n = 0
               /\ \A w \in Nat : (w % n = 0 /\ a <= w) => up <= w
<1> DEFINE q == a \div n
           r == a % n
           up == a + (n - r)
<1>1. a = (q * n) + r /\ q \in Nat /\ r \in 1..(n - 1)
  <2>1. a = (q * n) + r /\ q \in Nat /\ r \in 0..(n - 1) /\ r # 0
      BY Quotient
  <2> HIDE DEF q, r
  <2> QED BY <2>1
<1> HIDE DEF q, r
<1>2. up \in Nat /\ up > a /\ up - a < n
    BY <1>1
<1>3. up = (q + 1) * n /\ q + 1 \in Nat
    BY <1>1
<1>4. up % n = 0
  <2> DEFINE m == q + 1
  <2>1. m \in Nat /\ up = m * n
      BY <1>3
  <2> HIDE DEF m, up
  <2> QED BY <2>1, Remainder
<1>5. ASSUME NEW w \in Nat, w % n = 0, a <= w PROVE up <= w
  <2> DEFINE v == w \div n
  <2>1. w = v * n /\ v \in Nat
      BY <1>5, Quotient
  <2> HIDE DEF v
  <2>2. q < v
    <3> SUFFICES ASSUME v <= q PROVE FALSE
        BY <1>1, <2>1
    <3>1. v * n <= q * n
        BY <1>1, <2>1
    <3> QED BY <1>1, <1>5, <2>1, <3>1
  <2>3. (q + 1) * n <= v * n
      BY <1>1, <2>1, <2>2
  <2> QED BY <1>3, <2>1, <2>3
<1> QED BY <1>2, <1>4, <1>5 DEF up, r

\* What align_up makes of a word: the next multiple, or 0 if that is beyond.
LEMMA AlignUp ==
    ASSUME NEW v \in Nat, v < Word
    PROVE  /\ align_up(v, Alignment) \in Nat
           /\ align_up(v, Alignment) % Alignment = 0
           /\ \A w \in Nat : (w % Alignment = 0 /\ v <= w /\ w < Word) =>
                 v <= align_up(v, Alignment) /\ align_up(v, Alignment) <= w
           /\ align_up(v, Alignment) # 0 =>
                 v <= align_up(v, Alignment) /\ align_up(v, Alignment) < Word
<1> DEFINE next == v + (Alignment - (v % Alignment))
           up == align_up(v, Alignment)
<1>1. /\ Word \in Nat \ {0} /\ Alignment \in Nat \ {0}
      /\ Word % Alignment = 0 /\ 0 % Alignment = 0
  <2>1. Word \in Nat /\ Alignment \in Nat \ {0} /\ Word % Alignment = 0
      BY LayoutAssumption
  <2> QED BY <2>1
<1> DEFINE Goal(u) == /\ u \in Nat
                      /\ u % Alignment = 0
                      /\ \A w \in Nat :
                            (w % Alignment = 0 /\ v <= w /\ w < Word) =>
                               v <= u /\ u <= w
                      /\ u # 0 => v <= u /\ u < Word
<1> SUFFICES Goal(up)
    OBVIOUS
<1>2. CASE v % Alignment = 0
  <2>1. up = v
      BY <1>2 DEF align_up
  <2> HIDE DEF up
  <2> QED BY <1>1, <1>2, <2>1
<1>3. CASE v % Alignment # 0
  <2>1. up = next % Word
      BY <1>3 DEF align_up
  <2>2. /\ next \in Nat /\ next > v /\ next % Alignment = 0
        /\ \A w \in Nat : (w % Alignment = 0 /\ v <= w) => next <= w
      BY <1>1, <1>3, NextMultiple
  <2> HIDE DEF up, next
  <2>3. next <= Word
    <3>1. Word \in Nat /\ Word % Alignment = 0 /\ v <= Word
        BY <1>1
    <3> QED BY <2>2, <3>1
  <2>4. CASE next < Word
    <3>1. up = next
        BY <1>1, <2>1, <2>2, <2>4, Remainder
    <3> QED BY <1>1, <2>2, <2>4, <3>1
  <2>5. CASE next = Word
    <3>1. up = 0
      <4>1. Word % Word = 0
          BY <1>1, Remainder
      <4> QED BY <2>1, <2>5, <4>1
    <3>2. ASSUME NEW w \in Nat, w % Alignment = 0, v <= w, w < Word PROVE FALSE
      <4>1. next <= w
          BY <2>2, <3>2
      <4> QED BY <1>1, <2>5, <3>2, <4>1
    <3> QED BY <1>1, <3>1, <3>2
  <2> HIDE DEF Goal
  <2> QED BY <1>1, <2>2, <2>3, <2>4, <2>5
<1> HIDE DEF Goal
<1> QED BY <1>2, <1>3

------------------------------------------------------------------------------
(* The lengths of a record.                                                *)

\* A scan that meets the header of the record reads its payload whole.
Readable(r) == has_valid_static_fields(r) /\ payload_length(r) = r.size

LEMMA RecordLengths ==
    ASSUME NEW r \in Record
    PROVE  /\ WrittenPadding(r) \in Nat
           /\ WrittenBytes(r) \in Nat /\ WrittenBytes(r) >= HeaderSize
           /\ SkipTo(r) \in Nat
           /\ Readable(r) =>
                 /\ r.at + HeaderSize <= SkipTo(r)
                 /\ SkipTo(r) <= r.at + WrittenBytes(r)
<1> DEFINE pl == payload_length(r)
           raw == raw_length(r)
           up == record_length(r)
<1>1. /\ Word \in Nat \ {0} /\ HeaderSize \in Nat \ {0} /\ HeaderSize < Word
      /\ r.size \in Nat /\ r.at \in Nat
    BY LayoutAssumption DEF Record
<1> DEFINE Modulo(a) == a % Word
<1>2. /\ \A a \in Int : Modulo(a) \in 0..(Word - 1)
      /\ \A a \in Nat : a < Word => Modulo(a) = a
      /\ \A a \in Nat : (Word <= a /\ a < 2 * Word) => Modulo(a) = a - Word
    BY <1>1, Remainder
<1>3. pl = Modulo(r.size) /\ raw = Modulo(HeaderSize + pl)
    BY DEF payload_length, raw_length
<1>4. pl \in 0..(Word - 1)
  <2> HIDE DEF Modulo, pl, raw
  <2> QED BY <1>1, <1>2, <1>3
<1>5. raw = IF HeaderSize + pl < Word THEN HeaderSize + pl
            ELSE HeaderSize + pl - Word
  <2> HIDE DEF Modulo, pl, raw
  <2>1. HeaderSize + pl \in Nat /\ HeaderSize + pl < 2 * Word
      BY <1>1, <1>4
  <2> QED BY <1>1, <1>2, <1>3, <2>1
<1>6. raw \in Nat /\ raw < Word
  <2> HIDE DEF pl, raw
  <2> QED BY <1>1, <1>4, <1>5
<1>7. up \in Nat /\ (up # 0 => raw <= up /\ up < Word)
  <2>1. up = align_up(raw, Alignment)
      BY DEF record_length
  <2> HIDE DEF raw, up
  <2> QED BY <1>6, <2>1, AlignUp
<1>8. WrittenPadding(r) = Modulo(up - raw)
    BY DEF WrittenPadding, padding_for, record_length
<1>9. WrittenPadding(r) \in Nat
  <2> HIDE DEF up, raw, Modulo
  <2>1. up - raw \in Int
      BY <1>6, <1>7
  <2> QED BY <1>1, <1>2, <1>8, <2>1
<1>10. ReadPadding(r) = IF up - HeaderSize - pl < 0 THEN 0 ELSE up - HeaderSize - pl
    BY DEF ReadPadding
<1>11. /\ SkipTo(r) = r.at + HeaderSize + pl + ReadPadding(r)
       /\ WrittenBytes(r) = HeaderSize + r.size + WrittenPadding(r)
       /\ Readable(r) => up >= HeaderSize /\ pl = r.size
    BY DEF SkipTo, WrittenBytes, Readable, has_valid_static_fields
<1> HIDE DEF up, raw, pl, Modulo
<1>12. ReadPadding(r) \in Nat
    BY <1>1, <1>4, <1>7, <1>10
<1>13. ASSUME Readable(r) PROVE ReadPadding(r) <= WrittenPadding(r)
  <2>1. up >= HeaderSize /\ raw <= up /\ up < Word
      BY <1>1, <1>7, <1>11, <1>13
  <2>2. up - raw \in Nat /\ up - raw < Word
      BY <1>1, <1>6, <1>7, <2>1
  <2>3. WrittenPadding(r) = up - raw
      BY <1>1, <1>2, <1>8, <2>2
  <2> QED BY <1>1, <1>4, <1>5, <1>6, <1>7, <1>10, <2>1, <2>3
<1> HIDE DEF Readable
<1> QED BY <1>1, <1>4, <1>9, <1>11, <1>12, <1>13

LEMMA FitsReadable ==
    ASSUME NEW r \in Record, Fits(r)
    PROVE  /\ Readable(r)
           /\ SkipTo(r) = r.at + WrittenBytes(r)
           /\ WrittenBytes(r) % Alignment = 0
<1> DEFINE pl == payload_length(r)
           raw == raw_length(r)
           up == record_length(r)
           k == Word \div Alignment
<1>1. /\ Word \in Nat \ {0} /\ HeaderSize \in Nat \ {0} /\ HeaderSize < Word
      /\ Alignment \in Nat \ {0} /\ Word % Alignment = 0
      /\ r.size \in Nat /\ r.at \in Nat
    BY LayoutAssumption DEF Record
<1> DEFINE Modulo(a) == a % Word
<1>2. \A a \in Nat : a < Word => Modulo(a) = a
    BY <1>1, Remainder
<1>3. Word = k * Alignment /\ k \in Nat
    BY <1>1, Quotient
<1>4. PICK words \in 0..(k - 1) : words * Alignment >= HeaderSize + r.size
    BY DEF Fits
<1> HIDE DEF k
<1> DEFINE w == words * Alignment
<1>5. w \in Nat /\ w % Alignment = 0 /\ w < Word /\ HeaderSize + r.size <= w
  <2>1. words \in Nat /\ words <= k - 1
      BY <1>3
  <2>2. words * Alignment <= (k - 1) * Alignment
      BY <1>1, <1>3, <2>1
  <2>3. (k - 1) * Alignment = (k * Alignment) - Alignment
      BY <1>1, <1>3
  <2>4. w \in Nat /\ w % Alignment = 0
    <3>1. \A q \in Nat : (q * Alignment) % Alignment = 0
        BY <1>1, Remainder
    <3> QED BY <1>1, <2>1, <3>1
  <2> QED BY <1>1, <1>3, <1>4, <2>2, <2>3, <2>4
<1> HIDE DEF w
<1>6. pl = r.size
  <2>1. pl = Modulo(r.size)
      BY DEF payload_length
  <2> HIDE DEF pl, Modulo
  <2>2. r.size < Word
      BY <1>1, <1>5
  <2> QED BY <1>1, <1>2, <2>1, <2>2
<1>7. raw = HeaderSize + r.size
  <2>1. raw = Modulo(HeaderSize + pl)
      BY DEF raw_length
  <2> HIDE DEF pl, raw, Modulo
  <2>2. HeaderSize + pl \in Nat /\ HeaderSize + pl < Word
      BY <1>1, <1>5, <1>6
  <2> QED BY <1>1, <1>6, <1>2, <2>1, <2>2
<1>8. /\ up \in Nat /\ up % Alignment = 0
      /\ raw <= up /\ up <= w
  <2>1. up = align_up(raw, Alignment)
      BY DEF record_length
  <2> HIDE DEF raw, up
  <2>2. raw \in Nat /\ raw < Word /\ raw <= w
      BY <1>1, <1>5, <1>7
  <2> QED BY <1>5, <2>1, <2>2, AlignUp
<1>9. has_valid_static_fields(r) <=> up >= HeaderSize /\ up % Alignment = 0
    BY DEF has_valid_static_fields
<1>10. WrittenPadding(r) = Modulo(up - raw)
    BY DEF WrittenPadding, padding_for, record_length
<1>11. ReadPadding(r) = IF up - HeaderSize - pl < 0 THEN 0 ELSE up - HeaderSize - pl
    BY DEF ReadPadding
<1>12. /\ SkipTo(r) = r.at + HeaderSize + pl + ReadPadding(r)
       /\ WrittenBytes(r) = HeaderSize + r.size + WrittenPadding(r)
    BY DEF SkipTo, WrittenBytes
<1>13. Readable(r)
  <2>1. pl = payload_length(r)
      OBVIOUS
  <2> HIDE DEF up, raw, pl
  <2>2. up >= HeaderSize
      BY <1>1, <1>7, <1>8
  <2> QED BY <1>6, <1>8, <1>9, <2>1, <2>2 DEF Readable
<1> HIDE DEF up, raw, pl, Modulo
<1>14. WrittenPadding(r) = up - raw
  <2>1. up - raw \in Nat /\ up - raw < Word
      BY <1>1, <1>5, <1>7, <1>8
  <2> QED BY <1>10, <1>2, <2>1
<1>15. ReadPadding(r) = up - raw
    BY <1>1, <1>6, <1>7, <1>8, <1>11
<1>16. WrittenBytes(r) = up
    BY <1>1, <1>7, <1>8, <1>12, <1>14
<1>17. SkipTo(r) = r.at + WrittenBytes(r)
  <2>1. r.at + HeaderSize + pl + ReadPadding(r)
           = r.at + (HeaderSize + r.size + WrittenPadding(r))
      BY <1>1, <1>5, <1>6, <1>7, <1>8, <1>14, <1>15
  <2> QED BY <1>12, <2>1
<1> QED BY <1>8, <1>13, <1>16, <1>17

------------------------------------------------------------------------------
(* What the file looks like.                                               *)

\* Where the bytes of the first n records end: where the next record was
\* appended, or the end of the file.
Border(rs, size, n) == IF n = Len(rs) THEN size ELSE rs[n + 1].at

\* A record ends where its write ended or, if it was the last one when a writer
\* took its padding for a torn tail, where a scan goes on behind it.
EndsAt(r, o) == o = r.at + WrittenBytes(r) \/ (Readable(r) /\ o = SkipTo(r))

LaidOut(rs, size) ==
    /\ rs \in Seq(Record) /\ size \in Nat
    /\ Border(rs, size, 0) = 0
    /\ \A i \in DOMAIN rs : rs[i].sequence = i
    /\ \A i \in DOMAIN rs : EndsAt(rs[i], Border(rs, size, i))
    /\ \A n \in 0..Len(rs) : \A i \in 1..n :
          rs[i].at + HeaderSize <= Border(rs, size, n)
    /\ \A n \in 0..Len(rs) :
          (\A i \in 1..n : Fits(rs[i])) => Border(rs, size, n) % Alignment = 0

\* The inductive invariant: a writer that continues the file has the number
\* behind its last record, whatever the sizes of the records are.
Laid ==
    /\ LaidOut(records, file_size)
    /\ next_sequence \in Nat
    /\ writer = "None" => next_sequence = Len(records) + 1


LEMMA FrontOf ==
    ASSUME NEW S, NEW q \in Seq(S), NEW n \in 0..Len(q)
    PROVE  /\ SubSeq(q, 1, n) \in Seq(S) /\ Len(SubSeq(q, 1, n)) = n
           /\ \A i \in 1..n : SubSeq(q, 1, n)[i] = q[i]
    BY SubSeqProperties

LEMMA LaidOutFacts ==
    ASSUME NEW rs, NEW size, LaidOut(rs, size)
    PROVE  /\ rs \in Seq(Record) /\ size \in Nat /\ Len(rs) \in Nat
           /\ DOMAIN rs = 1..Len(rs)
           /\ \A i \in 1..Len(rs) : rs[i] \in Record /\ rs[i].at \in Nat
           /\ \A n \in 0..Len(rs) : Border(rs, size, n) \in Nat
           /\ \A n \in 0..Len(rs) : n < Len(rs) => Border(rs, size, n) = rs[n + 1].at
           /\ \A n \in 0..Len(rs) : n < Len(rs) =>
                 Border(rs, size, n) + HeaderSize <= size
<1>1. /\ rs \in Seq(Record) /\ size \in Nat /\ Len(rs) \in Nat
      /\ DOMAIN rs = 1..Len(rs)
    BY DEF LaidOut
<1>2. ASSUME NEW i \in 1..Len(rs) PROVE rs[i] \in Record /\ rs[i].at \in Nat
  <2>1. rs[i] \in Record
      BY <1>1, ElementOfSeq
  <2> QED BY <2>1 DEF Record
<1>3. ASSUME NEW n \in 0..Len(rs), n < Len(rs)
      PROVE  Border(rs, size, n) = rs[n + 1].at /\ n + 1 \in 1..Len(rs)
  <2> DEFINE l == Len(rs)
  <2>1. l \in Nat /\ n \in 0..l /\ n < l
      BY <1>1, <1>3
  <2>2. Border(rs, size, n) = IF n = l THEN size ELSE rs[n + 1].at
      BY DEF Border
  <2> HIDE DEF l
  <2>3. n # l /\ n + 1 \in 1..l
      BY <2>1
  <2> QED BY <2>2, <2>3 DEF l
<1>4. ASSUME NEW n \in 0..Len(rs) PROVE Border(rs, size, n) \in Nat
  <2>1. CASE n = Len(rs)
      BY <1>1, <2>1 DEF Border
  <2>2. CASE n < Len(rs)
    <3>1. Border(rs, size, n) = rs[n + 1].at /\ n + 1 \in 1..Len(rs)
        BY <1>3, <2>2
    <3>2. rs[n + 1].at \in Nat
        BY <1>2, <3>1
    <3> QED BY <3>1, <3>2
  <2>3. n = Len(rs) \/ n < Len(rs)
    <3> DEFINE l == Len(rs)
    <3>1. l \in Nat /\ n \in 0..l
        BY <1>1
    <3> HIDE DEF l
    <3>2. n = l \/ n < l
        BY <3>1, SMTT(30)
    <3> QED BY <3>2 DEF l
  <2> QED BY <2>1, <2>2, <2>3
<1>5. ASSUME NEW n \in 0..Len(rs), n < Len(rs)
      PROVE  Border(rs, size, n) + HeaderSize <= size
  <2>1. /\ Border(rs, size, n) = rs[n + 1].at
        /\ n + 1 \in 1..Len(rs) /\ Len(rs) \in 0..Len(rs)
      BY <1>1, <1>3, <1>5
  <2>2. rs[n + 1].at + HeaderSize <= Border(rs, size, Len(rs))
      BY <2>1 DEF LaidOut
  <2>3. Border(rs, size, Len(rs)) = size
      BY DEF Border
  <2> QED BY <2>1, <2>2, <2>3, Zenon
<1> QED BY <1>1, <1>2, <1>3, <1>4, <1>5

------------------------------------------------------------------------------
(* What a scan of such a file returns.                                     *)

LEMMA ScanForm ==
    ASSUME Laid
    PROVE  \E read \in 0..Len(records) :
              /\ \A n \in 1..read : Accepted(n)
              /\ read < Len(records) => ~Accepted(read + 1)
              /\ scan.log = SubSeq(records, 1, read)
              /\ scan.offset = OffsetAfter(read)
              /\ scan.error = IF OffsetAfter(read) = file_size THEN "None"
                              ELSE IF file_size - OffsetAfter(read) < HeaderSize
                                   THEN "IncompleteTrailingRecord"
                              ELSE "CorruptedMiddleRecord"
              /\ scan = [error |-> scan.error, log |-> scan.log,
                         offset |-> scan.offset]
<1> DEFINE refused == {n \in DOMAIN records : ~Accepted(n)}
           read == IF refused = {} THEN Len(records) ELSE Min(refused) - 1
<1>1. Len(records) \in Nat /\ DOMAIN records = 1..Len(records)
    BY LaidOutFacts DEF Laid
<1>2. /\ read \in 0..Len(records)
      /\ \A n \in 1..read : Accepted(n)
      /\ read < Len(records) => ~Accepted(read + 1)
  <2>1. CASE refused = {}
      BY <1>1, <2>1
  <2>2. CASE refused # {}
    <3>1. refused \subseteq Nat
        BY <1>1
    <3>2. Min(refused) \in refused /\ \A n \in refused : Min(refused) <= n
      <4> HIDE DEF refused
      <4> QED BY <2>2, <3>1, Least
    <3>3. read = Min(refused) - 1
        BY <2>2
    <3> DEFINE m == Min(refused)
    <3>4. /\ m \in 1..Len(records) /\ ~Accepted(m)
          /\ \A n \in 1..Len(records) : ~Accepted(n) => m <= n
      <4>1. \A n \in 1..Len(records) : n \in refused <=> ~Accepted(n)
          BY <1>1
      <4>2. refused \subseteq 1..Len(records)
          BY <1>1
      <4> HIDE DEF refused
      <4> QED BY <3>2, <4>1, <4>2
    <3>5. read = m - 1
        BY <3>3
    <3> HIDE DEF m, read
    <3>6. read + 1 = m /\ read \in 0..Len(records)
        BY <1>1, <3>4, <3>5
    <3>7. \A n \in 1..read : n \in 1..Len(records) /\ ~(m <= n)
        BY <1>1, <3>4, <3>5
    <3> QED BY <3>4, <3>6, <3>7
  <2> QED BY <2>1, <2>2
<1>3. scan = [error  |-> IF OffsetAfter(read) = file_size THEN "None"
                         ELSE IF file_size - OffsetAfter(read) < HeaderSize
                              THEN "IncompleteTrailingRecord"
                         ELSE "CorruptedMiddleRecord",
              log    |-> SubSeq(records, 1, read),
              offset |-> OffsetAfter(read)]
    BY DEF scan
<1> HIDE DEF read
<1> QED BY <1>2, <1>3

\* Behind records that it accepts the walk is never beyond the place where the
\* next one was appended.
LEMMA WalkIsBelow ==
    ASSUME Laid, NEW read \in 0..Len(records), \A n \in 1..read : Accepted(n)
    PROVE  /\ OffsetAfter(read) \in Nat
           /\ OffsetAfter(read) <= file_size
           /\ OffsetAfter(read) <= Border(records, file_size, read)
           /\ read # 0 => Readable(records[read])
<1>1. /\ LaidOut(records, file_size)
      /\ Len(records) \in Nat /\ file_size \in Nat
      /\ DOMAIN records = 1..Len(records)
      /\ Border(records, file_size, read) \in Nat
    BY LaidOutFacts DEF Laid
<1>2. CASE read = 0
    BY <1>1, <1>2 DEF OffsetAfter
<1>3. CASE read # 0
  <2> DEFINE r == records[read]
  <2>1. read \in 1..read /\ read \in 1..Len(records)
      BY <1>1, <1>3
  <2>2. r \in Record /\ r.at \in Nat
      BY <2>1, LaidOutFacts DEF Laid
  <2>3. Readable(r)
      BY <2>1 DEF Accepted, Readable
  <2>4. /\ SkipTo(r) \in Nat /\ SkipTo(r) <= r.at + WrittenBytes(r)
      BY <2>2, <2>3, RecordLengths
  <2>5. EndsAt(r, Border(records, file_size, read))
      BY <1>1, <2>1 DEF LaidOut
  <2>6. SkipTo(r) <= Border(records, file_size, read)
      BY <2>4, <2>5, <1>1 DEF EndsAt
  <2>7. OffsetAfter(read) = IF SkipTo(r) > file_size THEN file_size ELSE SkipTo(r)
      BY <1>3 DEF OffsetAfter
  <2> HIDE DEF r
  <2>8. OffsetAfter(read) \in Nat /\ OffsetAfter(read) <= file_size
        /\ OffsetAfter(read) <= SkipTo(r)
      BY <1>1, <2>4, <2>7
  <2> QED BY <1>1, <2>3, <2>4, <2>6, <2>8 DEF r
<1> QED BY <1>2, <1>3

\* A scan that does not end with a fault in the middle has returned every record:
\* a record behind the walk would leave at least a header in front of the end.
LEMMA ReadsAll ==
    ASSUME Laid, scan.error # "CorruptedMiddleRecord"
    PROVE  /\ scan.log = records
           /\ scan.error = "IncompleteTrailingRecord" =>
                 /\ scan.offset < file_size
                 /\ records # <<>> =>
                       /\ Readable(records[Len(records)])
                       /\ scan.offset = SkipTo(records[Len(records)])
<1>1. /\ Len(records) \in Nat /\ file_size \in Nat /\ HeaderSize \in Nat \ {0}
      /\ records \in Seq(Record)
      /\ \A n \in 0..Len(records) : n < Len(records) =>
            Border(records, file_size, n) + HeaderSize <= file_size
      /\ \A n \in 0..Len(records) : Border(records, file_size, n) \in Nat
    BY LaidOutFacts, LayoutAssumption DEF Laid
<1>2. PICK read \in 0..Len(records) :
         /\ \A n \in 1..read : Accepted(n)
         /\ scan.log = SubSeq(records, 1, read)
         /\ scan.offset = OffsetAfter(read)
         /\ scan.error = IF OffsetAfter(read) = file_size THEN "None"
                         ELSE IF file_size - OffsetAfter(read) < HeaderSize
                              THEN "IncompleteTrailingRecord"
                         ELSE "CorruptedMiddleRecord"
  <2> HIDE DEF scan
  <2> QED BY ScanForm
<1> DEFINE o == OffsetAfter(read)
           error == scan.error
<1>3. /\ o \in Nat /\ o <= file_size
      /\ o <= Border(records, file_size, read)
      /\ read # 0 => Readable(records[read])
    BY <1>2, WalkIsBelow
<1>4. /\ error = IF o = file_size THEN "None"
                 ELSE IF file_size - o < HeaderSize THEN "IncompleteTrailingRecord"
                 ELSE "CorruptedMiddleRecord"
      /\ error # "CorruptedMiddleRecord"
    BY <1>2
<1>5. o = OffsetAfter(read)
    OBVIOUS
<1> HIDE DEF o, error
<1>6. read = Len(records)
  <2> SUFFICES ASSUME read < Len(records) PROVE FALSE
      BY <1>1
  <2>1. Border(records, file_size, read) + HeaderSize <= file_size
      BY <1>1
  <2>2. file_size - o < HeaderSize
      BY <1>1, <1>4
  <2> QED BY <1>1, <1>3, <2>1, <2>2
<1>7. scan.log = records
    BY <1>1, <1>2, <1>6
<1>8. ASSUME error = "IncompleteTrailingRecord" PROVE o < file_size
    BY <1>1, <1>3, <1>4, <1>8
<1>9. ASSUME o < file_size, records # <<>>
      PROVE  Readable(records[Len(records)]) /\ o = SkipTo(records[Len(records)])
  <2>1. read # 0
      BY <1>1, <1>6, <1>9
  <2>2. o = IF SkipTo(records[read]) > file_size THEN file_size
            ELSE SkipTo(records[read])
      BY <1>5, <2>1 DEF OffsetAfter
  <2> QED BY <1>1, <1>3, <1>6, <1>9, <2>1, <2>2
<1> QED BY <1>2, <1>5, <1>7, <1>8, <1>9 DEF error


------------------------------------------------------------------------------
(* The invariant is inductive.                                             *)

LEMMA AppendLaidOut ==
    ASSUME NEW rs, NEW size, LaidOut(rs, size), NEW r \in Record,
           r.sequence = Len(rs) + 1, r.at = size
    PROVE  LaidOut(Append(rs, r), size + WrittenBytes(r))
<1> DEFINE rt == Append(rs, r)
           l == Len(rs)
           end == size + WrittenBytes(r)
<1>1. /\ rs \in Seq(Record) /\ size \in Nat /\ l \in Nat
      /\ DOMAIN rs = 1..l
      /\ \A n \in 0..l : Border(rs, size, n) \in Nat
      /\ \A n \in 0..l : n < l => Border(rs, size, n) = rs[n + 1].at
      /\ Border(rs, size, l) = size
    BY LaidOutFacts DEF Border
<1>2. /\ rt \in Seq(Record) /\ Len(rt) = l + 1 /\ DOMAIN rt = 1..(l + 1)
      /\ \A i \in 1..l : rt[i] = rs[i]
      /\ rt[l + 1] = r
    BY <1>1, AppendProperties
<1>3. /\ WrittenBytes(r) \in Nat /\ WrittenBytes(r) >= HeaderSize
      /\ HeaderSize \in Nat /\ Alignment \in Nat \ {0}
      /\ end = r.at + WrittenBytes(r)
    BY RecordLengths, LayoutAssumption
<1>4. end \in Nat /\ size + HeaderSize <= end
    BY <1>1, <1>3
<1>5. /\ \A i \in 1..l : rs[i].sequence = i
      /\ \A i \in 1..l : EndsAt(rs[i], Border(rs, size, i))
      /\ Border(rs, size, 0) = 0
      /\ \A n \in 0..l : \A i \in 1..n :
            rs[i].at + HeaderSize <= Border(rs, size, n)
      /\ \A n \in 0..l : (\A i \in 1..n : Fits(rs[i])) =>
            Border(rs, size, n) % Alignment = 0
    BY <1>1 DEF LaidOut
<1>6. /\ \A n \in 0..l : Border(rt, end, n) = Border(rs, size, n)
      /\ Border(rt, end, l + 1) = end
  <2>1. ASSUME NEW n \in 0..l PROVE Border(rt, end, n) = rt[n + 1].at /\ n # l + 1
    <3>1. n # l + 1
        BY <1>1
    <3> QED BY <1>2, <3>1 DEF Border
  <2>2. ASSUME NEW n \in 0..l, n < l PROVE Border(rt, end, n) = Border(rs, size, n)
    <3>1. n + 1 \in 1..l
        BY <1>1, <2>2
    <3>2. rt[n + 1] = rs[n + 1]
        BY <1>2, <3>1
    <3> QED BY <1>1, <2>1, <2>2, <3>2
  <2>3. Border(rt, end, l) = Border(rs, size, l)
    <3>1. l \in 0..l
        BY <1>1
    <3> QED BY <1>1, <1>2, <2>1, <3>1
  <2>4. \A n \in 0..l : n < l \/ n = l
    <3>1. l \in Nat
        BY <1>1
    <3> HIDE DEF l
    <3> QED BY <3>1
  <2>5. Border(rt, end, l + 1) = end
      BY <1>2 DEF Border
  <2> QED BY <2>2, <2>3, <2>4, <2>5
<1>7. /\ l + 1 \in 1..(l + 1) /\ l \in 0..l
      /\ \A i \in 1..(l + 1) : i \in 1..l \/ i = l + 1
      /\ \A n \in 0..(l + 1) : n \in 0..l \/ n = l + 1
      /\ \A i \in 1..l : i \in 0..l
    BY <1>1
<1>8. Border(rt, end, 0) = 0
    BY <1>1, <1>5, <1>6
<1>9. \A i \in DOMAIN rt : rt[i].sequence = i
    BY <1>2, <1>5, <1>7
<1>10. \A i \in DOMAIN rt : EndsAt(rt[i], Border(rt, end, i))
  <2>1. EndsAt(r, end)
      BY <1>3 DEF EndsAt
  <2> HIDE DEF rt, end
  <2> QED BY <1>2, <1>5, <1>6, <1>7, <2>1
<1>11. ASSUME NEW n \in 0..(l + 1), NEW i \in 1..n
       PROVE  rt[i].at + HeaderSize <= Border(rt, end, n)
  <2>1. CASE n \in 0..l
    <3>1. i \in 1..l
        BY <1>1, <2>1
    <3> HIDE DEF rt, end
    <3> QED BY <1>2, <1>5, <1>6, <2>1, <3>1
  <2>2. CASE n = l + 1 /\ i \in 1..l
    <3>1. rs[i].at + HeaderSize <= Border(rs, size, l)
        BY <1>5, <1>7, <2>2
    <3>2. rs[i].at \in Nat
        BY <2>2, LaidOutFacts
    <3>3. rt[i] = rs[i] /\ Border(rt, end, n) = end
        BY <1>2, <1>6, <2>2
    <3> HIDE DEF rt, end
    <3> QED BY <1>1, <1>3, <1>4, <3>1, <3>2, <3>3
  <2>3. CASE n = l + 1 /\ i = l + 1
    <3>1. rt[i] = r /\ Border(rt, end, n) = end
        BY <1>2, <1>6, <2>3
    <3> HIDE DEF rt, end
    <3> QED BY <1>1, <1>4, <3>1
  <2>4. n \in 0..l \/ (n = l + 1 /\ (i \in 1..l \/ i = l + 1))
      BY <1>7
  <2> QED BY <2>1, <2>2, <2>3, <2>4
<1>12. ASSUME NEW n \in 0..(l + 1), \A i \in 1..n : Fits(rt[i])
       PROVE  Border(rt, end, n) % Alignment = 0
  <2>1. CASE n \in 0..l
    <3>1. \A i \in 1..n : i \in 1..l
        BY <1>1, <2>1
    <3>2. \A i \in 1..n : Fits(rs[i])
        BY <1>2, <1>12, <3>1
    <3> HIDE DEF rt, end
    <3> QED BY <1>5, <1>6, <2>1, <3>2
  <2>2. CASE n = l + 1
    <3>1. Fits(r)
        BY <1>2, <1>7, <1>12, <2>2
    <3>2. \A i \in 1..l : i \in 1..n
        BY <1>7, <2>2
    <3>3. \A i \in 1..l : Fits(rs[i])
        BY <1>2, <1>12, <3>2
    <3>4. size % Alignment = 0
        BY <1>1, <1>5, <1>7, <3>3
    <3>5. WrittenBytes(r) % Alignment = 0
        BY <3>1, FitsReadable
    <3>6. (size + WrittenBytes(r)) % Alignment = 0
        BY <1>1, <1>3, <3>4, <3>5, SumOfMultiples
    <3> QED BY <1>6, <2>2, <3>6
  <2> QED BY <1>7, <2>1, <2>2
<1> HIDE DEF rt, end, l
<1> QED BY <1>2, <1>4, <1>8, <1>9, <1>10, <1>11, <1>12 DEF LaidOut, rt, end

\* A file that loses the end of its last padding is still laid out.
LEMMA CutLaidOut ==
    ASSUME NEW rs, NEW size, LaidOut(rs, size), rs # <<>>,
           Readable(rs[Len(rs)]), SkipTo(rs[Len(rs)]) < size
    PROVE  LaidOut(rs, SkipTo(rs[Len(rs)]))
<1> DEFINE l == Len(rs)
           r == rs[Len(rs)]
           o == SkipTo(rs[Len(rs)])
<1>1. /\ rs \in Seq(Record) /\ size \in Nat /\ l \in Nat \ {0}
      /\ DOMAIN rs = 1..l
      /\ r \in Record /\ r.at \in Nat
      /\ \A n \in 0..l : Border(rs, size, n) \in Nat
      /\ Border(rs, size, l) = size
  <2>1. rs \in Seq(Record) /\ l \in Nat
      BY LaidOutFacts
  <2>2. l # 0
      BY <2>1
  <2>3. l \in 1..l
      BY <2>1, <2>2
  <2> QED BY <2>1, <2>2, <2>3, LaidOutFacts DEF Border
<1>2. /\ o \in Nat /\ r.at + HeaderSize <= o /\ o <= r.at + WrittenBytes(r)
      /\ HeaderSize \in Nat
    BY <1>1, RecordLengths, LayoutAssumption
<1>3. /\ \A i \in 1..l : rs[i].sequence = i
      /\ \A i \in 1..l : EndsAt(rs[i], Border(rs, size, i))
      /\ Border(rs, size, 0) = 0
      /\ \A n \in 0..l : \A i \in 1..n :
            rs[i].at + HeaderSize <= Border(rs, size, n)
      /\ \A n \in 0..l : (\A i \in 1..n : Fits(rs[i])) =>
            Border(rs, size, n) % Alignment = 0
    BY <1>1 DEF LaidOut
<1>4. /\ \A n \in 0..l : n # l => Border(rs, o, n) = Border(rs, size, n)
      /\ Border(rs, o, l) = o
    BY DEF Border
<1>5. /\ 0 # l /\ 0 \in 0..l /\ l \in 1..l /\ l \in 0..l
      /\ \A i \in 1..l : i \in 0..l
      /\ \A n \in 0..l : \A i \in 1..n : i \in 1..l
      /\ Border(rs, size, l - 1) = r.at /\ l - 1 \in 0..l
  <2>1. l - 1 # Len(rs) /\ (l - 1) + 1 = Len(rs)
    <3>1. l \in Nat
        BY <1>1
    <3> HIDE DEF l
    <3>2. l - 1 # l /\ (l - 1) + 1 = l
        BY <3>1, SMTT(30)
    <3> QED BY <3>2, Zenon DEF l
  <2>2. Border(rs, size, l - 1) = r.at
      BY <2>1, Zenon DEF Border
  <2> HIDE DEF l
  <2>3. /\ 0 # l /\ 0 \in 0..l /\ l \in 1..l /\ l \in 0..l /\ l - 1 \in 0..l
        /\ \A i \in 1..l : i \in 0..l
        /\ \A n \in 0..l : \A i \in 1..n : i \in 1..l
    <3>1. l \in Nat \ {0}
        BY <1>1
    <3> QED BY <3>1, SMTT(30)
  <2> QED BY <2>2, <2>3, Zenon
<1>6. EndsAt(r, o)
    BY DEF EndsAt
<1>7. size = r.at + WrittenBytes(r) \/ size = o
  <2>1. EndsAt(r, Border(rs, size, l))
      BY <1>3, <1>5
  <2> QED BY <1>1, <2>1 DEF EndsAt
<1>8. size # o /\ r = rs[l]
    BY <1>1, <1>2
<1>9. \A i \in 1..l : EndsAt(rs[i], Border(rs, o, i))
  <2> HIDE DEF l, o, r
  <2> QED BY <1>3, <1>4, <1>5, <1>6, <1>8
<1>10. ASSUME NEW n \in 0..l, NEW i \in 1..n
       PROVE  rs[i].at + HeaderSize <= Border(rs, o, n)
  <2>1. CASE n # l
    <3> HIDE DEF l, o, r
    <3> QED BY <1>3, <1>4, <2>1
  <2>2. CASE n = l /\ i = l
    <3> HIDE DEF l, o, r
    <3> QED BY <1>2, <1>4, <1>8, <2>2
  <2>3. CASE n = l /\ i # l
    <3>1. i \in 1..(l - 1) /\ rs[i].at \in Nat
      <4>1. i \in 1..l
          BY <1>5
      <4>2. rs[i].at \in Nat
          BY <4>1, LaidOutFacts
      <4> HIDE DEF l
      <4> QED BY <1>1, <2>3, <4>1, <4>2
    <3>2. rs[i].at + HeaderSize <= r.at
      <4> HIDE DEF l, o, r
      <4> QED BY <1>3, <1>5, <3>1
    <3> HIDE DEF l, o, r
    <3>3. rs[i].at + HeaderSize <= o
        BY <1>1, <1>2, <3>1, <3>2
    <3> QED BY <1>4, <2>3, <3>3
  <2> QED BY <2>1, <2>2, <2>3
<1>11. ASSUME NEW n \in 0..l, \A i \in 1..n : Fits(rs[i])
       PROVE  Border(rs, o, n) % Alignment = 0
  <2>1. CASE n # l
    <3> HIDE DEF l, o, r
    <3> QED BY <1>3, <1>4, <1>11, <2>1
  <2>2. CASE n = l
    <3>1. Fits(r)
      <4> HIDE DEF l, r
      <4> QED BY <1>5, <1>8, <1>11, <2>2
    <3>2. o = r.at + WrittenBytes(r)
        BY <1>1, <3>1, FitsReadable
    <3> QED BY <1>7, <1>8, <3>2
  <2> QED BY <2>1, <2>2
<1>12. Border(rs, o, 0) = 0
    BY <1>3, <1>4, <1>5
<1> HIDE DEF l
<1> QED BY <1>1, <1>2, <1>3, <1>9, <1>10, <1>11, <1>12 DEF LaidOut, l

LEMMA LaidInit == Init => Laid
<1> SUFFICES ASSUME Init PROVE Laid
    OBVIOUS
<1>1. records = <<>> /\ file_size = 0 /\ next_sequence = 1 /\ writer = "None"
    BY DEF Init
<1>2. records \in Seq(Record) /\ Len(records) = 0 /\ DOMAIN records = {}
    BY <1>1
<1>3. 0 % Alignment = 0
    BY LayoutAssumption, Remainder
<1>4. \A n \in 0..0 : n = 0
    OBVIOUS
<1>5. Border(records, file_size, 0) = 0
    BY <1>1, <1>2 DEF Border
<1>6. LaidOut(records, file_size)
    BY <1>1, <1>2, <1>3, <1>4, <1>5 DEF LaidOut
<1> QED BY <1>1, <1>2, <1>6 DEF Laid

LEMMA LaidAppend ==
    ASSUME Laid, NEW size \in PayloadSize, append(size)
    PROVE  Laid'
<1> DEFINE r == [sequence |-> next_sequence, size |-> size, at |-> file_size]
<1>1. /\ writer = "None" /\ writer' = writer
      /\ records' = Append(records, r)
      /\ file_size' = file_size + WrittenBytes(r)
      /\ next_sequence' = next_sequence + 1
    BY DEF append
<1>2. /\ LaidOut(records, file_size)
      /\ records \in Seq(Record) /\ file_size \in Nat /\ Len(records) \in Nat
      /\ next_sequence = Len(records) + 1
    BY <1>1, LaidOutFacts DEF Laid
<1>3. r \in Record /\ r.sequence = Len(records) + 1 /\ r.at = file_size
    BY <1>2, LayoutAssumption DEF Record
<1> HIDE DEF r
<1>4. LaidOut(records', file_size')
    BY <1>1, <1>2, <1>3, AppendLaidOut
<1>5. Len(records') = Len(records) + 1
    BY <1>1, <1>2, <1>3, AppendProperties
<1> QED BY <1>1, <1>2, <1>4, <1>5 DEF Laid

\* What a reopening writer does to the file and to its own numbering.
LEMMA ReopenKeeps ==
    ASSUME Laid, Reopen
    PROVE  /\ Laid'
           /\ records' = records
           /\ writer' = "None" => next_sequence' = Len(records) + 1
<1> DEFINE error == scan.error
           log == scan.log
<1>1. /\ records # <<>>
      /\ error = "CorruptedMiddleRecord" =>
            /\ writer' = "CorruptedMiddleRecord" /\ next_sequence' = 1
            /\ records' = records /\ file_size' = file_size
      /\ error # "CorruptedMiddleRecord" =>
            /\ writer' = "None"
            /\ next_sequence' = Len(log) + 1
            /\ file_size' = IF error = "IncompleteTrailingRecord"
                            THEN scan.offset ELSE file_size
            /\ records' = IF error = "IncompleteTrailingRecord"
                          THEN SubSeq(records, 1, Len(log)) ELSE records
    BY DEF Reopen, Kept
<1>2. /\ LaidOut(records, file_size)
      /\ records \in Seq(Record) /\ file_size \in Nat /\ Len(records) \in Nat
    BY LaidOutFacts DEF Laid
<1>3. error # "CorruptedMiddleRecord" =>
         /\ log = records
         /\ error = "IncompleteTrailingRecord" =>
               /\ scan.offset < file_size
               /\ Readable(records[Len(records)])
               /\ scan.offset = SkipTo(records[Len(records)])
  <2> HIDE DEF scan
  <2> QED BY <1>1, ReadsAll
<1> DEFINE offset == scan.offset
<1>4. offset = scan.offset
    OBVIOUS
<1> HIDE DEF error, log, offset
<1>5. CASE error = "CorruptedMiddleRecord"
  <2>1. /\ records' = records /\ file_size' = file_size
        /\ next_sequence' = 1 /\ writer' # "None"
      BY <1>1, <1>5
  <2>2. LaidOut(records', file_size')
      BY <1>2, <2>1
  <2> QED BY <2>1, <2>2 DEF Laid
<1>6. CASE error # "CorruptedMiddleRecord"
  <2>1. /\ records' = records
        /\ next_sequence' = Len(records) + 1
      BY <1>1, <1>2, <1>3, <1>6
  <2>2. LaidOut(records, file_size')
    <3>1. CASE error = "IncompleteTrailingRecord"
      <4>1. file_size' = SkipTo(records[Len(records)])
            /\ SkipTo(records[Len(records)]) < file_size
            /\ Readable(records[Len(records)])
          BY <1>1, <1>3, <1>4, <1>6, <3>1
      <4> QED BY <1>1, <1>2, <4>1, CutLaidOut
    <3>2. CASE error # "IncompleteTrailingRecord"
        BY <1>1, <1>2, <1>6, <3>2
    <3> QED BY <3>1, <3>2
  <2> QED BY <1>2, <2>1, <2>2 DEF Laid
<1> QED BY <1>5, <1>6

LEMMA LaidStep == Laid /\ [Next]_vars => Laid'
<1> SUFFICES ASSUME Laid, [Next]_vars PROVE Laid'
    OBVIOUS
<1>1. ASSUME NEW size \in PayloadSize, append(size) PROVE Laid'
    BY <1>1, LaidAppend
<1>2. CASE Reopen
    BY <1>2, ReopenKeeps
<1>3. CASE UNCHANGED vars
    BY <1>3 DEF vars, Laid
<1> QED BY <1>1, <1>2, <1>3 DEF Next

LEMMA AlwaysLaid == Spec => []Laid
    BY LaidInit, LaidStep, PTL DEF Spec

------------------------------------------------------------------------------
LEMMA FittingRead == Laid => FittingRecordsRead
<1> SUFFICES ASSUME Laid PROVE FittingRecordsRead
    OBVIOUS
<1> DEFINE l == Len(records)
           p == FittingPrefix
<1>1. /\ LaidOut(records, file_size)
      /\ records \in Seq(Record) /\ file_size \in Nat /\ l \in Nat
      /\ DOMAIN records = 1..l
      /\ \A i \in 1..l : records[i] \in Record /\ records[i].at \in Nat
      /\ \A n \in 0..l : Border(records, file_size, n) \in Nat
      /\ \A n \in 0..l : n < l => Border(records, file_size, n) = records[n + 1].at
      /\ \A n \in 0..l : n < l =>
            Border(records, file_size, n) + HeaderSize <= file_size
      /\ HeaderSize \in Nat \ {0}
    BY LaidOutFacts, LayoutAssumption DEF Laid
<1>2. p \in 0..l /\ \A i \in 1..p : Fits(records[i])
  <2> DEFINE oversize == {i \in DOMAIN records : ~Fits(records[i])}
  <2>1. p = IF oversize = {} THEN l ELSE Min(oversize) - 1
      BY DEF FittingPrefix
  <2>2. /\ oversize \subseteq Nat
        /\ \A i \in oversize : i \in 1..l
        /\ \A i \in 1..l : i \notin oversize => Fits(records[i])
      BY <1>1
  <2> HIDE DEF p, oversize, l
  <2>3. CASE oversize = {}
      BY <1>1, <2>1, <2>2, <2>3
  <2>4. CASE oversize # {}
    <3>1. Min(oversize) \in oversize /\ \A i \in oversize : Min(oversize) <= i
        BY <2>2, <2>4, Least
    <3> DEFINE m == Min(oversize)
    <3>2. m \in 1..l /\ p = m - 1 /\ \A i \in oversize : m <= i
        BY <2>1, <2>2, <2>4, <3>1
    <3> HIDE DEF m
    <3>3. p \in 0..l /\ \A i \in 1..p : i \in 1..l /\ ~(m <= i)
        BY <1>1, <3>2
    <3> QED BY <2>2, <3>2, <3>3
  <2> QED BY <2>3, <2>4
<1> HIDE DEF p, l
\* The walk meets the records in front of the first that does not fit.
<1>3. ASSUME NEW n \in 0..p
      PROVE  OffsetAfter(n) = Border(records, file_size, n)
  <2>1. CASE n = 0
      BY <1>1, <2>1 DEF OffsetAfter, LaidOut
  <2>2. CASE n # 0
    <3> DEFINE r == records[n]
    <3>1. n \in 1..p /\ n \in 1..l /\ n \in 0..l
        BY <1>1, <1>2, <2>2
    <3>2. r \in Record /\ Fits(r) /\ EndsAt(r, Border(records, file_size, n))
        BY <1>1, <1>2, <3>1 DEF LaidOut
    <3>3. Border(records, file_size, n) = SkipTo(r)
        BY <3>2, FitsReadable DEF EndsAt
    <3>4. SkipTo(r) <= file_size /\ SkipTo(r) \in Nat
      <4>1. CASE n = l
        <5>1. Border(records, file_size, n) = file_size
            BY <4>1 DEF Border, l
        <5> QED BY <1>1, <3>3, <5>1
      <4>2. CASE n # l
        <5>1. n < l
            BY <1>1, <3>1, <4>2
        <5>2. /\ Border(records, file_size, n) + HeaderSize <= file_size
              /\ Border(records, file_size, n) \in Nat
            BY <1>1, <3>1, <5>1
        <5> QED BY <1>1, <3>3, <5>2
      <4> QED BY <4>1, <4>2
    <3>5. OffsetAfter(n) = IF SkipTo(r) > file_size THEN file_size ELSE SkipTo(r)
        BY <2>2 DEF OffsetAfter
    <3> HIDE DEF r
    <3> QED BY <1>1, <3>3, <3>4, <3>5
  <2> QED BY <2>1, <2>2
<1>4. ASSUME NEW n \in 1..p PROVE Accepted(n)
  <2>1. n - 1 \in 0..p /\ n - 1 \in 0..l /\ n - 1 < l /\ (n - 1) + 1 = n /\ n \in 1..l
      BY <1>1, <1>2
  <2>2. OffsetAfter(n - 1) = records[n].at
      BY <1>1, <1>3, <2>1
  <2>3. records[n].sequence = n
      BY <1>1, <2>1 DEF LaidOut
  <2>4. Readable(records[n])
      BY <1>1, <1>2, <2>1, FitsReadable
  <2> QED BY <2>2, <2>3, <2>4 DEF Accepted, Readable
<1> DEFINE error == scan.error
           log == scan.log
           offset == scan.offset
           s == scan
<1>5. PICK read \in 0..l :
         /\ read < l => ~Accepted(read + 1)
         /\ log = SubSeq(records, 1, read)
         /\ offset = OffsetAfter(read)
         /\ OffsetAfter(read) = file_size => error = "None"
         /\ s = [error |-> error, log |-> log, offset |-> offset]
  <2> HIDE DEF scan
  <2> QED BY ScanForm DEF l
<1>6. p <= read
  <2> SUFFICES ASSUME read < p PROVE FALSE
      BY <1>1, <1>2
  <2>1. read + 1 \in 1..p /\ read < l
      BY <1>1, <1>2
  <2> QED BY <1>4, <1>5, <2>1
<1>7. IsPrefix(SubSeq(records, 1, p), log)
  <2>1. /\ Len(SubSeq(records, 1, p)) = p /\ Len(log) = read
        /\ SubSeq(records, 1, p) \in Seq(Record)
        /\ SubSeq(SubSeq(records, 1, p), 1, p) \in Seq(Record)
        /\ SubSeq(log, 1, p) \in Seq(Record)
        /\ Len(SubSeq(SubSeq(records, 1, p), 1, p)) = p
        /\ Len(SubSeq(log, 1, p)) = p
        /\ \A i \in 1..p : SubSeq(SubSeq(records, 1, p), 1, p)[i] = records[i]
        /\ \A i \in 1..p : SubSeq(log, 1, p)[i] = records[i]
    <3> DEFINE front == SubSeq(records, 1, p)
    <3>1. /\ front \in Seq(Record) /\ Len(front) = p
          /\ \A i \in 1..p : front[i] = records[i]
        BY <1>1, <1>2, FrontOf DEF l
    <3>2. /\ log \in Seq(Record) /\ Len(log) = read
          /\ \A i \in 1..read : log[i] = records[i]
      <4> HIDE DEF log
      <4> QED BY <1>1, <1>5, FrontOf DEF l
    <3>3. p \in 0..p /\ p \in 0..read /\ \A i \in 1..p : i \in 1..read
        BY <1>2, <1>6
    <3> HIDE DEF front, log
    <3>4. /\ SubSeq(front, 1, p) \in Seq(Record) /\ Len(SubSeq(front, 1, p)) = p
          /\ \A i \in 1..p : SubSeq(front, 1, p)[i] = front[i]
        BY <3>1, <3>3, FrontOf
    <3>5. /\ SubSeq(log, 1, p) \in Seq(Record) /\ Len(SubSeq(log, 1, p)) = p
          /\ \A i \in 1..p : SubSeq(log, 1, p)[i] = log[i]
        BY <3>2, <3>3, FrontOf
    <3> QED BY <3>1, <3>2, <3>3, <3>4, <3>5 DEF front
  <2> DEFINE a == SubSeq(SubSeq(records, 1, p), 1, p)
             b == SubSeq(log, 1, p)
  <2>2. a = b
    <3>1. /\ a \in Seq(Record) /\ b \in Seq(Record) /\ Len(a) = p /\ Len(b) = p
          /\ \A i \in 1..p : a[i] = b[i]
      <4> HIDE DEF log
      <4>1. /\ \A i \in 1..p : a[i] = records[i]
            /\ \A i \in 1..p : b[i] = records[i]
          BY <2>1
      <4>2. a \in Seq(Record) /\ b \in Seq(Record) /\ Len(a) = p /\ Len(b) = p
          BY <2>1
      <4> HIDE DEF a, b
      <4> QED BY <4>1, <4>2
    <3> HIDE DEF a, b
    <3> QED BY <3>1, SeqEqual
  <2> HIDE DEF log
  <2> QED BY <1>2, <1>6, <2>1, <2>2 DEF IsPrefix
<1>8. \A i \in 1..p : records[i].at % Alignment = 0
  <2> SUFFICES ASSUME NEW i \in 1..p PROVE records[i].at % Alignment = 0
      OBVIOUS
  <2>1. i - 1 \in 0..l /\ i - 1 < l /\ (i - 1) + 1 = i /\ i - 1 \in 0..p
        /\ \A j \in 1..(i - 1) : j \in 1..p
      BY <1>1, <1>2
  <2>2. Border(records, file_size, i - 1) % Alignment = 0
      BY <1>1, <1>2, <2>1 DEF LaidOut, l
  <2>3. Border(records, file_size, i - 1) = records[i].at
      BY <1>1, <2>1, Zenon
  <2> QED BY <2>2, <2>3, Zenon
<1>9. ASSUME p = l
      PROVE  s = [error |-> "None", log |-> records, offset |-> file_size]
  <2>1. read = l
    <3>1. l \in Nat /\ l <= read /\ read \in 0..l
        BY <1>1, <1>6, <1>9, Zenon
    <3> QED BY <3>1, SMTT(30)
  <2>2. OffsetAfter(read) = file_size
    <3>1. Border(records, file_size, l) = file_size
        BY DEF Border, l
    <3> QED BY <1>2, <1>3, <1>6, <1>9, <2>1, <3>1
  <2>3. log = records
    <3> HIDE DEF log
    <3> QED BY <1>1, <1>5, <2>1 DEF l
  <2> HIDE DEF s, error, log, offset
  <2> QED BY <1>5, <2>2, <2>3
<1> QED BY <1>7, <1>8, <1>9 DEF FittingRecordsRead, p, l

\* Every record in front of the first that is too long for the length fields is
\* found again by wal_segment_scanner.cpp's walk, and a file without such a
\* record is read to its end without an error: for every width of the fields,
\* every header and alignment that divide it, and payloads of any size.
THEOREM WalkMeetsFittingRecords == Spec => []FittingRecordsRead
    BY AlwaysLaid, FittingRead, PTL

\* prepare_existing_segment never takes a record out of the file, although it
\* cuts what it takes for a torn tail, and it numbers on from the last record,
\* the ones with wrapped lengths included.
THEOREM ReopenTakesNothing == Spec => ReopenLosesNothing
<1> DEFINE Keeps == writer' = "None" => /\ IsPrefix(records, records')
                                        /\ next_sequence' = Len(records') + 1
<1>1. Laid /\ [Next]_vars => [Keeps]_vars
  <2> SUFFICES ASSUME Laid, Next PROVE Keeps
      OBVIOUS
  <2>1. records \in Seq(Record) /\ Len(records) \in Nat
      BY LaidOutFacts DEF Laid
  <2>2. ASSUME NEW size \in PayloadSize, append(size) PROVE Keeps
    <3> DEFINE r == [sequence |-> next_sequence, size |-> size, at |-> file_size]
    <3>1. /\ writer = "None" /\ records' = Append(records, r)
          /\ next_sequence' = next_sequence + 1
        BY <2>2 DEF append
    <3>2. next_sequence = Len(records) + 1 /\ r \in Record
      <4>1. next_sequence \in Nat /\ file_size \in Nat
          BY LaidOutFacts DEF Laid
      <4> QED BY <3>1, <4>1, LayoutAssumption DEF Laid, Record
    <3> HIDE DEF r
    <3>3. Len(records') = Len(records) + 1 /\ IsPrefix(records, records')
        BY <2>1, <3>1, <3>2 DEF IsPrefix
    <3> QED BY <2>1, <3>1, <3>2, <3>3
  <2>3. ASSUME Reopen PROVE Keeps
    <3>1. records' = records /\ (writer' = "None" => next_sequence' = Len(records) + 1)
        BY <2>3, ReopenKeeps
    <3>2. IsPrefix(records, records)
        BY <2>1 DEF IsPrefix
    <3> QED BY <3>1, <3>2
  <2> QED BY <2>2, <2>3 DEF Next
<1> QED BY <1>1, AlwaysLaid, PTL DEF Spec, ReopenLosesNothing
=============================================================================
