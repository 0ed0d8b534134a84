--------------------------- MODULE OrderBookProofs ---------------------------
(***************************************************************************)
(* Proofs about OrderBook for every set of ids, instruments and commands.  *)
(* The book is seen level by level: BookOK says that every queue agrees    *)
(* with the index and every indexed order is in its queue, and BookStep    *)
(* says when replacing one queue and one index entry keeps it so.  The     *)
(* handlers' steps are instances of BookStep.  From the invariant follow   *)
(* the safety properties, the refinement of PriceTimePriority and that the *)
(* engine is a function of its view.                                       *)
(***************************************************************************)
EXTENDS OrderBookRefinement, MatchingFunction, SequenceTheorems, TLAPS

-----------------------------------------------------------------------------
\* The inductive invariant.

\* A queue at price p of side s agrees with the index ac and, in order of rest
\* st, holds its oldest order first.
QueueOK(queue, p, s, ac, st) ==
    /\ queue \in Seq(RestingOrder)
    /\ queue # <<>>
    /\ \A i \in 1..Len(queue) :
          /\ queue[i].side = s
          /\ queue[i].price_ticks = p
          /\ queue[i].remaining > 0
          /\ queue[i].order_id \in DOMAIN ac
          /\ ac[queue[i].order_id] = queue[i]
    /\ \A i, j \in 1..Len(queue) :
          i < j => st[queue[i].order_id] < st[queue[j].order_id]

LevelsOK(lv, ac, st) ==
    \A s \in Side : \A p \in DOMAIN lv[s] :
        /\ p \in Int
        /\ p > 0
        /\ QueueOK(lv[s][p], p, s, ac, st)

\* The order id is indexed under its own id and queued at its price.
Indexed(lv, ac, st, n, id) ==
    /\ id \in OrderId
    /\ ac[id] \in RestingOrder
    /\ ac[id].order_id = id
    /\ st[id] \in Nat
    /\ st[id] < n
    /\ ac[id].price_ticks \in DOMAIN lv[ac[id].side]
    /\ \E i \in 1..Len(lv[ac[id].side][ac[id].price_ticks]) :
          lv[ac[id].side][ac[id].price_ticks][i] = ac[id]

BookOK(lv, ac, st, n) ==
    /\ DOMAIN lv = Side
    /\ DOMAIN st = DOMAIN ac
    /\ LevelsOK(lv, ac, st)
    /\ \A id \in DOMAIN ac : Indexed(lv, ac, st, n, id)

\* What the order in the matching loop has been validated for.
CallOK ==
    pc = "matching" =>
        /\ command.order_id \notin DOMAIN active_orders
        /\ command.instrument_id = instrument_id

IInv ==
    /\ TypeOK
    /\ BookOK(levels, active_orders, rested_at, next_event_sequence)
    /\ NotCrossed
    /\ OneInstrument
    /\ CallOK

-----------------------------------------------------------------------------
\* A replacement of the queue at price p of side s and of the index entry of
\* order k, such that the new queue agrees with the new index and still holds
\* the other orders of its price, and k was and is nowhere else.
LevelStep(lv, ac, st, n, s, p, queue, k, ac2, st2, n2) ==
    /\ BookOK(lv, ac, st, n)
    /\ n \in Nat /\ n2 \in Nat /\ n <= n2
    /\ s \in Side /\ p \in Int /\ p > 0
    /\ queue = <<>> \/ QueueOK(queue, p, s, ac2, st2)
    /\ DOMAIN ac2 \ {k} = DOMAIN ac \ {k}
    /\ DOMAIN st2 = DOMAIN ac2
    /\ \A id \in DOMAIN ac \ {k} : ac2[id] = ac[id] /\ st2[id] = st[id]
    /\ k \in DOMAIN ac => ac[k].side = s /\ ac[k].price_ticks = p
    /\ k \in DOMAIN ac2 =>
          /\ k \in OrderId
          /\ ac2[k] \in RestingOrder
          /\ ac2[k].order_id = k /\ ac2[k].side = s /\ ac2[k].price_ticks = p
          /\ st2[k] \in Nat /\ st2[k] < n2
          /\ \E i \in 1..Len(queue) : queue[i] = ac2[k]
    /\ \A id \in DOMAIN ac \ {k} :
          ac[id].side = s /\ ac[id].price_ticks = p
              => \E i \in 1..Len(queue) : queue[i] = ac[id]

\* Such a replacement keeps the book consistent.
LEMMA BookStep ==
    ASSUME NEW lv, NEW ac, NEW st, NEW n, NEW s, NEW p, NEW queue, NEW k,
           NEW ac2, NEW st2, NEW n2,
           LevelStep(lv, ac, st, n, s, p, queue, k, ac2, st2, n2)
    PROVE  BookOK([lv EXCEPT ![s] = StoreQueue(@, p, queue)], ac2, st2, n2)
<1> USE DEF LevelStep
<1> DEFINE new == [lv EXCEPT ![s] = StoreQueue(@, p, queue)]
<1>1. DOMAIN new = Side /\ \A x \in Side : x # s => new[x] = lv[x]
    BY DEF BookOK
<1>2. new[s] = StoreQueue(lv[s], p, queue)
    BY DEF BookOK
<1>3. \A x \in Int : x # p => /\ x \in DOMAIN new[s] <=> x \in DOMAIN lv[s]
                              /\ x \in DOMAIN lv[s] => new[s][x] = lv[s][x]
    BY <1>2 DEF StoreQueue, Put, Erase
<1>4. DOMAIN new[s] \subseteq DOMAIN lv[s] \cup {p}
    BY <1>2 DEF StoreQueue, Put, Erase
<1>5. queue # <<>> => p \in DOMAIN new[s] /\ new[s][p] = queue
    BY <1>2 DEF StoreQueue, Put
<1>6. queue = <<>> => p \notin DOMAIN new[s]
    BY <1>2 DEF StoreQueue, Erase
<1> HIDE DEF new
<1>7. LevelsOK(new, ac2, st2)
  <2> SUFFICES ASSUME NEW x \in Side, NEW y \in DOMAIN new[x]
               PROVE  y \in Int /\ y > 0 /\ QueueOK(new[x][y], y, x, ac2, st2)
      BY DEF LevelsOK
  <2>1. CASE x = s /\ y = p
      BY <2>1, <1>5, <1>6, SMTT(30)
  <2>2. CASE ~(x = s /\ y = p)
    <3>1. y \in DOMAIN lv[x] /\ y \in Int /\ y > 0 /\ QueueOK(lv[x][y], y, x, ac, st)
        BY <2>2, <1>1, <1>3, <1>4 DEF BookOK, LevelsOK
    <3>2. new[x][y] = lv[x][y]
        BY <2>2, <1>1, <1>3, <3>1
    <3>3. \A i \in 1..Len(lv[x][y]) :
             /\ lv[x][y][i].order_id \in DOMAIN ac \ {k}
             /\ lv[x][y][i].order_id \in DOMAIN ac2
             /\ ac2[lv[x][y][i].order_id] = ac[lv[x][y][i].order_id]
             /\ st2[lv[x][y][i].order_id] = st[lv[x][y][i].order_id]
        BY <2>2, <3>1 DEF QueueOK
    <3> QED BY <3>1, <3>2, <3>3 DEF QueueOK
  <2> QED BY <2>1, <2>2
<1>8. ASSUME NEW id \in DOMAIN ac2 PROVE Indexed(new, ac2, st2, n2, id)
  <2>1. CASE id = k
    <3>1. queue # <<>>
        BY <2>1
    <3> QED BY <2>1, <3>1, <1>5 DEF Indexed
  <2>2. CASE id # k
    <3>1. id \in DOMAIN ac \ {k} /\ ac2[id] = ac[id] /\ st2[id] = st[id]
        BY <2>2
    <3>2. Indexed(lv, ac, st, n, id)
        BY <3>1 DEF BookOK
    <3>3. ac[id].side \in Side /\ ac[id].price_ticks \in Int
        BY <3>2 DEF Indexed, RestingOrder
    <3>4. CASE ac[id].side = s /\ ac[id].price_ticks = p
      <4>1. PICK i \in 1..Len(queue) : queue[i] = ac[id]
          BY <3>1, <3>4
      <4>2. queue # <<>>
          BY <4>1
      <4> QED BY <3>1, <3>2, <3>4, <4>1, <4>2, <1>5 DEF Indexed
    <3>5. CASE ~(ac[id].side = s /\ ac[id].price_ticks = p)
      <4>1. /\ ac[id].price_ticks \in DOMAIN new[ac[id].side]
            /\ new[ac[id].side][ac[id].price_ticks] = lv[ac[id].side][ac[id].price_ticks]
          BY <3>2, <3>3, <3>5, <1>1, <1>3 DEF Indexed
      <4> QED BY <3>1, <3>2, <4>1 DEF Indexed
    <3> QED BY <3>4, <3>5
  <2> QED BY <2>1, <2>2
<1> QED BY <1>1, <1>7, <1>8 DEF BookOK, new
-----------------------------------------------------------------------------
\* The operations on queues.

\* In a consistent queue no two orders have the same id.
LEMMA QueuedIdsDiffer ==
    ASSUME NEW queue, NEW p, NEW s, NEW ac, NEW st,
           QueueOK(queue, p, s, ac, st),
           \A id \in DOMAIN ac : st[id] \in Nat,
           NEW i \in 1..Len(queue), NEW j \in 1..Len(queue),
           queue[i].order_id = queue[j].order_id
    PROVE  i = j
<1>1. Len(queue) \in Nat
    BY LenProperties DEF QueueOK
<1>2. st[queue[i].order_id] \in Nat
    BY DEF QueueOK
<1>3. ~(i < j) /\ ~(j < i)
    BY <1>1, <1>2 DEF QueueOK
<1> QED BY <1>1, <1>3

\* The queue that erase_order_from_price_levels leaves of the queue of a level
\* when it erases the order at place k.
ErasedAt(queue, p, s, ac, st, k, id, rest) ==
    /\ QueueOK(queue, p, s, ac, st)
    /\ DOMAIN st = DOMAIN ac
    /\ \A x \in DOMAIN ac : st[x] \in Nat
    /\ k \in 1..Len(queue)
    /\ id = queue[k].order_id
    /\ rest = EraseFromQueue(queue, id)

\* Erasing an order from a queue takes out that order and keeps the others, in
\* their order.
LEMMA EraseFromQueueOK ==
    ASSUME NEW queue, NEW p, NEW s, NEW ac, NEW st, NEW k, NEW id, NEW rest,
           ErasedAt(queue, p, s, ac, st, k, id, rest)
    PROVE  /\ rest = <<>> \/ QueueOK(rest, p, s, Erase(ac, id), Erase(st, id))
           /\ \A i \in 1..Len(queue) :
                 i # k => \E j \in 1..Len(rest) : rest[j] = queue[i]
<1>0. /\ QueueOK(queue, p, s, ac, st)
      /\ DOMAIN st = DOMAIN ac
      /\ \A x \in DOMAIN ac : st[x] \in Nat
      /\ k \in 1..Len(queue)
      /\ id = queue[k].order_id
    BY DEF ErasedAt
<1> USE <1>0
<1> DEFINE front == SubSeq(queue, 1, k - 1)
           back == SubSeq(queue, k + 1, Len(queue))
           joined == front \o back
<1>1. queue \in Seq(RestingOrder) /\ Len(queue) \in Nat /\ DOMAIN queue = 1..Len(queue)
  <2>1. queue \in Seq(RestingOrder)
      BY SMTT(30) DEF QueueOK
  <2> QED BY <2>1, LenProperties
<1>2. rest = joined
  <2>1. {i \in DOMAIN queue : queue[i].order_id = id} = {k}
      BY <1>1, QueuedIdsDiffer
  <2>2. (CHOOSE i \in {k} : \A j \in {k} : i <= j) = k
      BY <1>1
  <2> QED BY <2>1, <2>2 DEF EraseFromQueue, ErasedAt
<1>3. /\ front \in Seq(RestingOrder)
      /\ Len(front) = k - 1
      /\ \A i \in 1..(k - 1) : front[i] = queue[i]
    BY <1>1, SubSeqProperties
<1>4. /\ back \in Seq(RestingOrder)
      /\ Len(back) = Len(queue) - k
      /\ \A i \in 1..(Len(queue) - k) : back[i] = queue[k + i]
  <2>1. /\ back \in Seq(RestingOrder)
        /\ Len(back) = IF k + 1 <= Len(queue) THEN Len(queue) - (k + 1) + 1 ELSE 0
        /\ \A i \in 1..(Len(queue) - (k + 1) + 1) : back[i] = queue[(k + 1) + i - 1]
      BY <1>1, SubSeqProperties
  <2> HIDE DEF back
  <2>2. k \in 1..Len(queue) /\ Len(queue) \in Nat
      BY <1>1
  <2>3. \A i \in Int : (k + 1) + i - 1 = k + i
      BY <1>1
  <2>4. Len(back) = Len(queue) - k
    <3>1. CASE k + 1 <= Len(queue)
        BY <2>1, <2>2, <3>1
    <3>2. CASE ~(k + 1 <= Len(queue))
      <4>1. Len(queue) - k = 0
          BY <2>2, <3>2
      <4> QED BY <2>1, <3>2, <4>1
    <3> QED BY <3>1, <3>2
  <2>5. ASSUME NEW i \in 1..(Len(queue) - k) PROVE back[i] = queue[k + i]
    <3>1. i \in 1..(Len(queue) - (k + 1) + 1) /\ i \in Int
        BY <1>1, <2>2
    <3> QED BY <2>1, <2>3, <3>1
  <2> QED BY <2>1, <2>4, <2>5
<1> HIDE DEF front, back
<1>5. /\ rest \in Seq(RestingOrder)
      /\ Len(rest) = Len(queue) - 1
      /\ \A i \in 1..(Len(queue) - 1) :
            rest[i] = IF i < k THEN queue[i] ELSE queue[i + 1]
  <2>1. /\ joined \in Seq(RestingOrder)
        /\ Len(joined) = Len(front) + Len(back)
        /\ \A i \in 1..(Len(front) + Len(back)) :
              joined[i] = IF i <= Len(front) THEN front[i] ELSE back[i - Len(front)]
      BY <1>3, <1>4, ConcatProperties
  <2> HIDE DEF joined
  <2>2. ASSUME NEW i \in 1..(Len(queue) - 1), i < k
        PROVE  joined[i] = queue[i]
    <3>1. /\ i \in 1..(Len(front) + Len(back)) /\ i <= Len(front)
          /\ i \in 1..(k - 1)
        BY <1>1, <1>3, <1>4, <2>2
    <3>2. joined[i] = front[i]
        BY <2>1, <3>1
    <3> QED BY <1>3, <3>1, <3>2
  <2>3. ASSUME NEW i \in 1..(Len(queue) - 1), ~(i < k)
        PROVE  joined[i] = queue[i + 1]
    <3>1. i \in 1..(Len(front) + Len(back)) /\ ~(i <= Len(front))
        BY <1>1, <1>3, <1>4, <2>3
    <3>2. joined[i] = back[i - Len(front)]
        BY <2>1, <3>1
    <3>3. i - (k - 1) \in 1..(Len(queue) - k) /\ k + (i - (k - 1)) = i + 1
        BY <1>1, <2>3
    <3> QED BY <1>3, <1>4, <3>2, <3>3
  <2>4. /\ Len(joined) = Len(queue) - 1
        /\ \A i \in 1..(Len(queue) - 1) :
              joined[i] = IF i < k THEN queue[i] ELSE queue[i + 1]
      BY <1>1, <1>3, <1>4, <2>1, <2>2, <2>3
  <2> QED BY <1>2, <2>1, <2>4
<1> HIDE DEF joined
<1>6. \A i \in 1..Len(queue) : i # k => \E j \in 1..Len(rest) : rest[j] = queue[i]
  <2> SUFFICES ASSUME NEW i \in 1..Len(queue), i # k
               PROVE  \E j \in 1..Len(rest) : rest[j] = queue[i]
      OBVIOUS
  <2>1. CASE i < k
      BY <2>1, <1>1, <1>5
  <2>2. CASE i > k
    <3>1. i - 1 \in 1..Len(rest) /\ rest[i - 1] = queue[i]
        BY <2>2, <1>1, <1>5
    <3> QED BY <3>1
  <2> QED BY <2>1, <2>2, <1>1
<1>7. ASSUME NEW i \in 1..Len(rest)
      PROVE  \E j \in 1..Len(queue) : /\ j # k /\ rest[i] = queue[j]
                                      /\ j = IF i < k THEN i ELSE i + 1
    BY <1>1, <1>5
<1>8. \A i \in 1..Len(queue) : i # k => queue[i].order_id # id
    BY QueuedIdsDiffer
<1>9. rest # <<>> => QueueOK(rest, p, s, Erase(ac, id), Erase(st, id))
  <2>1. \A i \in 1..Len(queue) : i # k =>
           /\ queue[i].order_id \in DOMAIN Erase(ac, id)
           /\ Erase(ac, id)[queue[i].order_id] = ac[queue[i].order_id]
      BY <1>8 DEF QueueOK, Erase
  <2>2. ASSUME NEW i \in 1..Len(rest)
        PROVE  /\ rest[i].side = s
               /\ rest[i].price_ticks = p
               /\ rest[i].remaining > 0
               /\ rest[i].order_id \in DOMAIN Erase(ac, id)
               /\ Erase(ac, id)[rest[i].order_id] = rest[i]
    <3>1. PICK j \in 1..Len(queue) : j # k /\ rest[i] = queue[j]
        BY <1>7
    <3> QED BY <3>1, <2>1 DEF QueueOK
  <2>3. ASSUME NEW i \in 1..Len(rest), NEW j \in 1..Len(rest), i < j
        PROVE  Erase(st, id)[rest[i].order_id] < Erase(st, id)[rest[j].order_id]
    <3>1. PICK x \in 1..Len(queue) : /\ x # k /\ rest[i] = queue[x]
                                      /\ x = IF i < k THEN i ELSE i + 1
        BY <1>7
    <3>2. PICK y \in 1..Len(queue) : /\ y # k /\ rest[j] = queue[y]
                                      /\ y = IF j < k THEN j ELSE j + 1
        BY <1>7
    <3>3. x < y
        BY <1>1, <1>5, <2>3, <3>1, <3>2
    <3>4. st[queue[x].order_id] < st[queue[y].order_id]
        BY <3>3 DEF QueueOK
    <3>5. /\ Erase(st, id)[queue[x].order_id] = st[queue[x].order_id]
          /\ Erase(st, id)[queue[y].order_id] = st[queue[y].order_id]
        BY <1>8, <3>1, <3>2 DEF QueueOK, Erase
    <3> QED BY <3>1, <3>2, <3>4, <3>5
  <2> QED BY <1>5, <2>2, <2>3 DEF QueueOK
<1> QED BY <1>2, <1>6, <1>9

\* pop_front is the erasure of the order at the front.
LEMMA TailErasesFront ==
    ASSUME NEW queue, NEW p, NEW s, NEW ac, NEW st,
           QueueOK(queue, p, s, ac, st),
           \A id \in DOMAIN ac : st[id] \in Nat
    PROVE  /\ 1 \in 1..Len(queue)
           /\ Head(queue) = queue[1]
           /\ EraseFromQueue(queue, queue[1].order_id) = Tail(queue)
<1>1. /\ queue \in Seq(RestingOrder) /\ queue # <<>>
      /\ DOMAIN queue = 1..Len(queue)
    BY LenProperties DEF QueueOK
<1>2. Len(queue) \in Nat \ {0}
    BY <1>1, EmptySeq
<1>3. 1 \in 1..Len(queue)
    BY <1>2
<1>4. {i \in DOMAIN queue : queue[i].order_id = queue[1].order_id} = {1}
    BY <1>1, <1>3, QueuedIdsDiffer
<1>5. (CHOOSE i \in {1} : \A j \in {1} : i <= j) = 1
    OBVIOUS
<1>6. EraseFromQueue(queue, queue[1].order_id)
        = SubSeq(queue, 1, 0) \o SubSeq(queue, 2, Len(queue))
  <2>1. EraseFromQueue(queue, queue[1].order_id)
          = SubSeq(queue, 1, 1 - 1) \o SubSeq(queue, 1 + 1, Len(queue))
      BY <1>4, <1>5, Zenon DEF EraseFromQueue
  <2>2. 1 - 1 = 0 /\ 1 + 1 = 2
      OBVIOUS
  <2> QED BY <2>1, <2>2
<1>7. SubSeq(queue, 1, 0) = <<>>
    BY SubSeqEmpty
<1>8. Tail(queue) = SubSeq(queue, 2, Len(queue)) /\ Tail(queue) \in Seq(RestingOrder)
    BY <1>1, TailIsSubSeq, HeadTailProperties
<1> QED BY <1>1, <1>3, <1>6, <1>7, <1>8, ConcatEmptySeq

\* The order at the front of a queue has its remainder lowered to r.
FrontLowered(queue, p, s, ac, st, r, left, new) ==
    /\ QueueOK(queue, p, s, ac, st)
    /\ \A id \in DOMAIN ac : st[id] \in Nat
    /\ r \in Int /\ r > 0
    /\ left = [queue[1] EXCEPT !.remaining = r]
    /\ new = [queue EXCEPT ![1] = left]

\* Lowering it in the queue and in the index alike keeps them in agreement.
LEMMA UpdateFrontOK ==
    ASSUME NEW queue, NEW p, NEW s, NEW ac, NEW st, NEW r, NEW left, NEW new,
           FrontLowered(queue, p, s, ac, st, r, left, new)
    PROVE  /\ new # <<>>
           /\ QueueOK(new, p, s, Put(ac, left.order_id, left), st)
           /\ Len(new) = Len(queue)
           /\ new[1] = left
           /\ \A i \in 1..Len(queue) : i # 1 => new[i] = queue[i]
<1> USE DEF FrontLowered
<1>1. queue \in Seq(RestingOrder) /\ queue # <<>>
    BY DEF QueueOK
<1>2. 1 \in 1..Len(queue) /\ Len(queue) \in Nat
    BY <1>1, EmptySeq
<1>3. queue[1] \in RestingOrder
    BY <1>1, <1>2, ElementOfSeq
<1>4. /\ left \in RestingOrder
      /\ left.remaining = r
      /\ left.order_id = queue[1].order_id
      /\ left.side = queue[1].side
      /\ left.price_ticks = queue[1].price_ticks
    BY <1>3 DEF RestingOrder
<1>5. /\ new \in Seq(RestingOrder)
      /\ Len(new) = Len(queue)
      /\ \A j \in 1..Len(queue) : new[j] = IF j = 1 THEN left ELSE queue[j]
    BY <1>1, <1>2, <1>4, ExceptSeq
<1>6. new # <<>>
    BY <1>2, <1>5, EmptySeq
<1>7. \A j \in 1..Len(queue) : new[j].order_id = queue[j].order_id
    BY <1>4, <1>5
<1>8. ASSUME NEW i \in 1..Len(new)
      PROVE  /\ new[i].side = s
             /\ new[i].price_ticks = p
             /\ new[i].remaining > 0
             /\ new[i].order_id \in DOMAIN Put(ac, left.order_id, left)
             /\ Put(ac, left.order_id, left)[new[i].order_id] = new[i]
  <2>1. CASE i = 1
      BY <2>1, <1>2, <1>4, <1>5 DEF QueueOK, Put
  <2>2. CASE i # 1
    <3>1. new[i] = queue[i] /\ queue[i].order_id # left.order_id
        BY <2>2, <1>2, <1>4, <1>5, QueuedIdsDiffer
    <3> QED BY <3>1, <1>5 DEF QueueOK, Put
  <2> QED BY <2>1, <2>2
<1>9. ASSUME NEW i \in 1..Len(new), NEW j \in 1..Len(new), i < j
      PROVE  st[new[i].order_id] < st[new[j].order_id]
    BY <1>5, <1>7, <1>9 DEF QueueOK
<1>10. QueueOK(new, p, s, Put(ac, left.order_id, left), st)
    BY <1>5, <1>6, <1>8, <1>9 DEF QueueOK
<1> QED BY <1>2, <1>5, <1>6, <1>10

\* An order with a new id, resting at n, goes to the back of a queue.
BackAppended(queue, p, s, ac, st, n, r, new) ==
    /\ queue = <<>> \/ QueueOK(queue, p, s, ac, st)
    /\ n \in Nat
    /\ DOMAIN st = DOMAIN ac
    /\ \A id \in DOMAIN ac : st[id] \in Nat /\ st[id] < n
    /\ r \in RestingOrder
    /\ r.side = s /\ r.price_ticks = p /\ r.remaining > 0
    /\ r.order_id \notin DOMAIN ac
    /\ new = Append(queue, r)

\* The queue then agrees with the index that has the order too.
LEMMA AppendToQueueOK ==
    ASSUME NEW queue, NEW p, NEW s, NEW ac, NEW st, NEW n, NEW r, NEW new,
           BackAppended(queue, p, s, ac, st, n, r, new)
    PROVE  /\ new # <<>>
           /\ QueueOK(new, p, s, Put(ac, r.order_id, r), Put(st, r.order_id, n))
           /\ \E i \in 1..Len(new) : new[i] = r
           /\ \A i \in 1..Len(queue) : \E j \in 1..Len(new) : new[j] = queue[i]
<1> USE DEF BackAppended
<1>1. queue \in Seq(RestingOrder)
    BY EmptySeq DEF QueueOK
<1>2. Len(queue) \in Nat
    BY <1>1, LenProperties
<1>3. /\ new \in Seq(RestingOrder)
      /\ new # <<>>
      /\ Len(new) = Len(queue) + 1
      /\ \A i \in 1..Len(queue) : new[i] = queue[i]
      /\ new[Len(queue) + 1] = r
    BY <1>1, AppendProperties
<1>4. \A i \in 1..Len(new) : i \in 1..Len(queue) \/ i = Len(queue) + 1
    BY <1>2, <1>3
<1>5. \A i \in 1..Len(queue) :
         /\ new[i].side = s /\ new[i].price_ticks = p /\ new[i].remaining > 0
         /\ new[i].order_id \in DOMAIN ac
         /\ ac[new[i].order_id] = new[i]
  <2>1. CASE queue = <<>>
      BY <2>1, EmptySeq
  <2>2. CASE QueueOK(queue, p, s, ac, st)
      BY <2>2, <1>3 DEF QueueOK
  <2> QED BY <2>1, <2>2
<1>6. ASSUME NEW i \in 1..Len(new)
      PROVE  /\ new[i].side = s
             /\ new[i].price_ticks = p
             /\ new[i].remaining > 0
             /\ new[i].order_id \in DOMAIN Put(ac, r.order_id, r)
             /\ Put(ac, r.order_id, r)[new[i].order_id] = new[i]
    BY <1>3, <1>4, <1>5 DEF Put
<1>7. ASSUME NEW i \in 1..Len(new), NEW j \in 1..Len(new), i < j
      PROVE  Put(st, r.order_id, n)[new[i].order_id]
                < Put(st, r.order_id, n)[new[j].order_id]
  <2>1. i \in 1..Len(queue)
      BY <1>2, <1>3, <1>7
  <2>2. /\ new[i].order_id \in DOMAIN ac
        /\ Put(st, r.order_id, n)[new[i].order_id] = st[new[i].order_id]
      BY <2>1, <1>5 DEF Put
  <2>3. CASE j = Len(queue) + 1
      BY <2>2, <2>3, <1>3 DEF Put
  <2>4. CASE j \in 1..Len(queue)
    <3>1. QueueOK(queue, p, s, ac, st)
        BY <2>1, EmptySeq
    <3>2. st[new[i].order_id] < st[new[j].order_id]
        BY <2>1, <2>4, <1>3, <1>7, <3>1 DEF QueueOK
    <3>3. Put(st, r.order_id, n)[new[j].order_id] = st[new[j].order_id]
        BY <2>4, <1>5 DEF Put
    <3> QED BY <2>2, <3>2, <3>3
  <2> QED BY <1>4, <2>3, <2>4
<1>8. QueueOK(new, p, s, Put(ac, r.order_id, r), Put(st, r.order_id, n))
    BY <1>3, <1>6, <1>7 DEF QueueOK
<1>9. Len(queue) + 1 \in 1..Len(new) /\ \A i \in 1..Len(queue) : i \in 1..Len(new)
    BY <1>2, <1>3
<1> QED BY <1>3, <1>8, <1>9
-----------------------------------------------------------------------------
\* The changes of the book, each an instance of BookStep.

\* Facts about an indexed order and the level it queues at.
LEMMA IndexedOrder ==
    ASSUME NEW lv, NEW ac, NEW st, NEW n \in Nat, BookOK(lv, ac, st, n),
           NEW id \in DOMAIN ac
    PROVE  LET s == ac[id].side
               p == ac[id].price_ticks
           IN /\ s \in Side /\ p \in Int /\ p > 0
              /\ p \in DOMAIN lv[s]
              /\ QueueOK(lv[s][p], p, s, ac, st)
              /\ \E k \in 1..Len(lv[s][p]) : lv[s][p][k] = ac[id]
              /\ ac[id].order_id = id
<1>1. Indexed(lv, ac, st, n, id)
    BY DEF BookOK
<1>2. ac[id].side \in Side
    BY <1>1 DEF Indexed, RestingOrder
<1> QED BY <1>1, <1>2 DEF Indexed, BookOK, LevelsOK

\* Taking an order out of its queue and the index, whichever way it leaves.
LEMMA RemoveKeepsBookOK ==
    ASSUME NEW lv, NEW ac, NEW st, NEW n \in Nat, BookOK(lv, ac, st, n),
           NEW n2 \in Nat, n <= n2, NEW id \in DOMAIN ac
    PROVE  LET s == ac[id].side
               p == ac[id].price_ticks
           IN BookOK([lv EXCEPT ![s] = StoreQueue(@, p, EraseFromQueue(lv[s][p], id))],
                     Erase(ac, id), Erase(st, id), n2)
<1> DEFINE s == ac[id].side
           p == ac[id].price_ticks
           old == lv[s][p]
           queue == EraseFromQueue(old, id)
<1>1. /\ s \in Side /\ p \in Int /\ p > 0
      /\ QueueOK(old, p, s, ac, st)
      /\ ac[id].order_id = id
    BY IndexedOrder
<1>2. PICK k \in 1..Len(old) : old[k] = ac[id]
    BY IndexedOrder
<1>3. DOMAIN st = DOMAIN ac /\ \A x \in DOMAIN ac : st[x] \in Nat
    BY DEF BookOK, Indexed
<1>4. old[k].order_id = id
    BY <1>1, <1>2
<1> HIDE DEF old, s, p
<1>5. /\ queue = <<>> \/ QueueOK(queue, p, s, Erase(ac, id), Erase(st, id))
      /\ \A i \in 1..Len(old) : i # k => \E j \in 1..Len(queue) : queue[j] = old[i]
  <2>1. ErasedAt(old, p, s, ac, st, k, id, queue)
      BY <1>1, <1>3, <1>4 DEF ErasedAt
  <2> HIDE DEF queue
  <2> QED BY <2>1, EraseFromQueueOK
<1> HIDE DEF queue
<1>6. ASSUME NEW x \in DOMAIN ac \ {id}, ac[x].side = s, ac[x].price_ticks = p
      PROVE  \E j \in 1..Len(queue) : queue[j] = ac[x]
  <2>1. PICK i \in 1..Len(old) : old[i] = ac[x]
      BY <1>6, IndexedOrder DEF old, s, p
  <2>2. ac[x].order_id = x
      BY IndexedOrder
  <2>3. i # k
      BY <2>1, <2>2, <1>4
  <2> QED BY <2>1, <2>3, <1>5
<1>7. /\ DOMAIN Erase(ac, id) = DOMAIN ac \ {id}
      /\ DOMAIN Erase(st, id) = DOMAIN ac \ {id}
      /\ \A x \in DOMAIN ac \ {id} : Erase(ac, id)[x] = ac[x] /\ Erase(st, id)[x] = st[x]
    BY <1>3 DEF Erase
<1>8. LevelStep(lv, ac, st, n, s, p, queue, id, Erase(ac, id), Erase(st, id), n2)
  <2>1. ac[id].side = s /\ ac[id].price_ticks = p
      BY DEF s, p
  <2> QED BY <1>1, <1>5, <1>6, <1>7, <2>1 DEF LevelStep
<1> QED BY <1>8, BookStep DEF queue, old, s, p

\* The front order of a level trades and stays.
LEMMA UpdateFrontKeepsBookOK ==
    ASSUME NEW lv, NEW ac, NEW st, NEW n \in Nat, BookOK(lv, ac, st, n),
           NEW n2 \in Nat, n <= n2,
           NEW s \in Side, NEW p \in DOMAIN lv[s], NEW r \in Int, r > 0
    PROVE  LET left == [lv[s][p][1] EXCEPT !.remaining = r]
           IN BookOK([lv EXCEPT ![s] = StoreQueue(@, p, [lv[s][p] EXCEPT ![1] = left])],
                     Put(ac, left.order_id, left), st, n2)
<1> DEFINE old == lv[s][p]
           left == [old[1] EXCEPT !.remaining = r]
           id == left.order_id
           queue == [old EXCEPT ![1] = left]
<1>1. p \in Int /\ p > 0 /\ QueueOK(old, p, s, ac, st)
    BY DEF BookOK, LevelsOK
<1>2. DOMAIN st = DOMAIN ac /\ \A x \in DOMAIN ac : st[x] \in Nat /\ st[x] < n
    BY DEF BookOK, Indexed
<1>3. 1 \in 1..Len(old) /\ old \in Seq(RestingOrder)
    BY <1>1, <1>2, TailErasesFront DEF QueueOK
<1>4. old[1] \in RestingOrder
    BY <1>3, ElementOfSeq
<1>5. /\ left \in RestingOrder
      /\ left.order_id = old[1].order_id
      /\ left.side = old[1].side
      /\ left.price_ticks = old[1].price_ticks
    BY <1>4 DEF RestingOrder
<1>6. /\ id \in DOMAIN ac /\ ac[id] = old[1]
      /\ left.side = s /\ left.price_ticks = p
    BY <1>1, <1>3, <1>5 DEF QueueOK
<1>7. /\ QueueOK(queue, p, s, Put(ac, id, left), st)
      /\ Len(queue) = Len(old)
      /\ queue[1] = left
      /\ \A i \in 1..Len(old) : i # 1 => queue[i] = old[i]
  <2> HIDE DEF old, left, queue
  <2>1. left = [old[1] EXCEPT !.remaining = r] /\ queue = [old EXCEPT ![1] = left]
      BY DEF left, queue
  <2>2. FrontLowered(old, p, s, ac, st, r, left, queue)
      BY <1>1, <1>2, <2>1 DEF FrontLowered
  <2> QED BY <2>2, UpdateFrontOK
<1>8. id \in OrderId
    BY <1>5 DEF RestingOrder
<1> HIDE DEF old, left, queue
<1>9. ASSUME NEW x \in DOMAIN ac \ {id}, ac[x].side = s, ac[x].price_ticks = p
      PROVE  \E j \in 1..Len(queue) : queue[j] = ac[x]
  <2>1. PICK i \in 1..Len(old) : old[i] = ac[x]
      BY <1>9, IndexedOrder DEF old
  <2>2. ac[x].order_id = x
      BY IndexedOrder
  <2>3. i # 1
      BY <2>1, <2>2, <1>5
  <2> QED BY <2>1, <2>3, <1>7
<1>10. /\ DOMAIN Put(ac, id, left) = DOMAIN ac
       /\ \A x \in DOMAIN ac \ {id} : Put(ac, id, left)[x] = ac[x]
       /\ Put(ac, id, left)[id] = left
    BY <1>6 DEF Put
<1>11. \E i \in 1..Len(queue) : queue[i] = left
    BY <1>3, <1>7
<1>12. st[id] \in Nat /\ st[id] < n2
    BY <1>2, <1>6
<1>13. LevelStep(lv, ac, st, n, s, p, queue, id, Put(ac, id, left), st, n2)
    BY <1>1, <1>2, <1>5, <1>6, <1>7, <1>8, <1>9, <1>10, <1>11, <1>12 DEF LevelStep
<1> QED BY <1>13, BookStep DEF queue, left, old

\* An order with an id that is not active comes to rest, stamped with the
\* current event sequence.
LEMMA RestKeepsBookOK ==
    ASSUME NEW lv, NEW ac, NEW st, NEW n \in Nat, BookOK(lv, ac, st, n),
           NEW r \in RestingOrder, r.remaining > 0, r.price_ticks > 0,
           r.order_id \notin DOMAIN ac
    PROVE  BookOK([lv EXCEPT ![r.side] =
                      StoreQueue(@, r.price_ticks,
                                 Append(QueueAt(lv[r.side], r.price_ticks), r))],
                  Put(ac, r.order_id, r), Put(st, r.order_id, n), n + 1)
<1> DEFINE s == r.side
           p == r.price_ticks
           id == r.order_id
           old == QueueAt(lv[s], p)
           queue == Append(old, r)
<1>1. s \in Side /\ p \in Int /\ id \in OrderId
    BY DEF RestingOrder
<1>2. DOMAIN st = DOMAIN ac /\ \A x \in DOMAIN ac : st[x] \in Nat /\ st[x] < n
    BY DEF BookOK, Indexed
<1>3. old = <<>> \/ QueueOK(old, p, s, ac, st)
    BY <1>1 DEF BookOK, LevelsOK, QueueAt
<1>4. /\ QueueOK(queue, p, s, Put(ac, id, r), Put(st, id, n))
      /\ \E i \in 1..Len(queue) : queue[i] = r
      /\ \A i \in 1..Len(old) : \E j \in 1..Len(queue) : queue[j] = old[i]
  <2> HIDE DEF old, queue, s, p
  <2>1. queue = Append(old, r) /\ r.side = s /\ r.price_ticks = p
      BY DEF queue, s, p
  <2>2. BackAppended(old, p, s, ac, st, n, r, queue)
      BY <1>2, <1>3, <2>1 DEF BackAppended
  <2> QED BY <2>2, AppendToQueueOK
<1>5. ASSUME NEW x \in DOMAIN ac, ac[x].side = s, ac[x].price_ticks = p
      PROVE  \E i \in 1..Len(old) : old[i] = ac[x]
    BY <1>5, IndexedOrder DEF QueueAt
<1> HIDE DEF old, queue
<1>6. \A x \in DOMAIN ac \ {id} : ac[x].side = s /\ ac[x].price_ticks = p
          => \E j \in 1..Len(queue) : queue[j] = ac[x]
    BY <1>4, <1>5
<1>7. /\ DOMAIN Put(ac, id, r) = DOMAIN ac \cup {id}
      /\ DOMAIN Put(st, id, n) = DOMAIN ac \cup {id}
      /\ \A x \in DOMAIN ac \ {id} : /\ Put(ac, id, r)[x] = ac[x]
                                      /\ Put(st, id, n)[x] = st[x]
      /\ Put(ac, id, r)[id] = r
      /\ Put(st, id, n)[id] = n
    BY <1>2 DEF Put
<1>8. n + 1 \in Nat /\ n < n + 1 /\ n <= n + 1
    OBVIOUS
<1>9. LevelStep(lv, ac, st, n, s, p, queue, id, Put(ac, id, r), Put(st, id, n), n + 1)
    BY <1>1, <1>4, <1>6, <1>7, <1>8 DEF LevelStep
<1> QED BY <1>9, BookStep DEF queue, old
-----------------------------------------------------------------------------
\* Types of what the handlers build.

LEMMA OrderEventType ==
    ASSUME NEW c \in Command, NEW seq \in Nat, NEW type \in EventType,
           NEW quantity \in Int, NEW remaining \in Int
    PROVE  emit_order_event(c, seq, type, quantity, remaining) \in Event
BY IdAssumption DEF emit_order_event, Event, Command, RejectionReason

LEMMA RejectionEventType ==
    ASSUME NEW c \in Command, NEW seq \in Nat, NEW reason \in RejectionReason
    PROVE  emit_rejection_event(c, seq, reason) \in Event
<1>1. "OrderRejected" \in EventType
    BY DEF EventType
<1>2. emit_order_event(c, seq, "OrderRejected", 0, 0) \in Event
    BY <1>1, OrderEventType
<1> QED BY <1>2 DEF emit_rejection_event, Event

LEMMA CancelEventType ==
    ASSUME NEW c \in Command, NEW seq \in Nat, NEW resting \in RestingOrder
    PROVE  emit_cancel_event(c, seq, resting) \in Event
<1>1. resting.remaining \in Int /\ "OrderCancelled" \in EventType
    BY DEF RestingOrder, EventType
<1>2. emit_order_event(c, seq, "OrderCancelled", 0, resting.remaining) \in Event
    BY <1>1, OrderEventType
<1> QED BY <1>2 DEF emit_cancel_event, Event, RestingOrder

LEMMA TradeEventType ==
    ASSUME NEW c \in Command, NEW seq \in Nat, NEW resting \in RestingOrder,
           NEW trade \in Nat, NEW price \in Int, NEW quantity \in Int,
           NEW remaining \in Int
    PROVE  emit_trade_event(c, seq, resting, trade, price, quantity, remaining) \in Event
<1>1. emit_order_event(c, seq, "TradeExecuted", quantity, remaining) \in Event
    BY OrderEventType DEF EventType
<1> QED BY <1>1 DEF emit_trade_event, Event, RestingOrder

LEMMA ReasonTypes ==
    ASSUME NEW c, NEW active
    PROVE  /\ validate_new_order(c, active, instrument_id) \in RejectionReason \cup {"None"}
           /\ validate_replace_order(c, active_orders) \in RejectionReason \cup {"None"}
           /\ validate_cancel_order(c, active_orders) \in RejectionReason \cup {"None"}
BY DEF validate_new_order, validate_replace_order, validate_cancel_order,
       validate_order_book_instrument, RejectionReason

\* A consistent book is well typed, and stays consistent as events pass.
LEMMA BookTypes ==
    ASSUME NEW lv, NEW ac, NEW st, NEW n \in Nat, BookOK(lv, ac, st, n)
    PROVE  /\ DOMAIN lv = Side
           /\ \A side \in Side : IsLevelMap(lv[side])
           /\ DOMAIN ac \subseteq OrderId
           /\ DOMAIN st = DOMAIN ac
           /\ \A id \in DOMAIN ac : ac[id] \in RestingOrder /\ st[id] \in Nat
BY DEF BookOK, LevelsOK, QueueOK, Indexed, IsLevelMap

LEMMA BookLater ==
    ASSUME NEW lv, NEW ac, NEW st, NEW n \in Nat, BookOK(lv, ac, st, n),
           NEW n2 \in Nat, n <= n2
    PROVE  BookOK(lv, ac, st, n2)
BY DEF BookOK, Indexed

-----------------------------------------------------------------------------
\* The steps.

LEMMA InitStep == Init => IInv
<1> SUFFICES ASSUME Init PROVE IInv
    OBVIOUS
<1>1. /\ DOMAIN levels = Side
      /\ \A s \in Side : DOMAIN levels[s] = {}
      /\ DOMAIN active_orders = {} /\ DOMAIN rested_at = {}
    BY DEF Init, NoEntries
<1>2. BookOK(levels, active_orders, rested_at, next_event_sequence)
    BY <1>1 DEF BookOK, LevelsOK
<1>3. next_event_sequence \in Nat
    BY SequenceAssumption DEF Init
<1>4. TypeOK
    BY <1>2, <1>3, BookTypes, EmptySeq DEF Init, TypeOK
<1>5. NotCrossed /\ OneInstrument /\ CallOK
    BY <1>1 DEF Init, NotCrossed, OneInstrument, CallOK, Side
<1> QED BY <1>2, <1>4, <1>5 DEF IInv

LEMMA RejectStep ==
    ASSUME IInv, pc = "idle", NEW c \in Command, NEW reason \in RejectionReason,
           Reject(c, reason)
    PROVE  IInv'
<1>1. next_event_sequence \in Nat
    BY DEF IInv, TypeOK
<1>2. events' \in Seq(Event)
    BY <1>1, RejectionEventType DEF Reject
<1>3. UNCHANGED <<instrument_id, levels, active_orders, rested_at, pc, command, incoming,
                  next_trade_id>>
    BY DEF Reject, bookvars, callvars
<1>4. next_event_sequence' = next_event_sequence + 1
    BY DEF Reject
<1>5. BookOK(levels, active_orders, rested_at, next_event_sequence')
    BY <1>1, <1>4, BookLater DEF IInv
<1>6. BookOK(levels, active_orders, rested_at, next_event_sequence)'
    BY <1>3, <1>5
<1>7. TypeOK'
    BY <1>1, <1>2, <1>3, <1>4 DEF IInv, TypeOK
<1>8. (NotCrossed /\ OneInstrument /\ CallOK)'
    BY <1>3 DEF IInv, NotCrossed, OneInstrument, CallOK
<1> QED BY <1>6, <1>7, <1>8 DEF IInv

\* apply_new_order up to the loop, on the index that the call leaves.
LEMMA SubmitStep ==
    ASSUME IInv, pc = "idle", NEW c \in Command, NEW emitted \in Seq(Event),
           SubmitNewOrder(c, active_orders', emitted),
           BookOK(levels', active_orders', rested_at', next_event_sequence),
           NotCrossed',
           \A id \in DOMAIN active_orders' :
               active_orders'[id].instrument_id = instrument_id
    PROVE  IInv'
<1> DEFINE reason == validate_new_order(c, active_orders', instrument_id)
           seq == next_event_sequence + Len(emitted)
<1>1. seq \in Nat /\ next_event_sequence \in Nat /\ next_event_sequence <= seq + 1
    BY LenProperties DEF IInv, TypeOK
<1>2. next_event_sequence' = seq + 1 /\ next_trade_id' = next_trade_id
    BY DEF SubmitNewOrder
<1>3. BookOK(levels', active_orders', rested_at', next_event_sequence')
    BY <1>1, <1>2, BookLater
<1>4. reason \in RejectionReason \cup {"None"}
    BY ReasonTypes
<1>5. CASE reason # "None"
  <2>1. /\ events' = Append(emitted, emit_rejection_event(c, seq, reason))
        /\ UNCHANGED <<instrument_id, pc, command, incoming>>
      BY <1>5 DEF SubmitNewOrder, callvars
  <2>2. events' \in Seq(Event)
      BY <1>1, <1>4, <1>5, <2>1, RejectionEventType, AppendProperties
  <2>3. TypeOK'
      BY <1>1, <1>2, <1>3, <2>1, <2>2, BookTypes DEF IInv, TypeOK
  <2>4. OneInstrument' /\ CallOK'
      BY <2>1 DEF OneInstrument, CallOK
  <2> QED BY <1>3, <2>3, <2>4 DEF IInv
<1>6. CASE reason = "None"
  <2>1. /\ instrument_id' = IF instrument_id = NoInstrument
                            THEN c.instrument_id ELSE instrument_id
        /\ events' = Append(emitted, emit_order_event(c, seq, "OrderAccepted",
                                                      c.quantity_lots, c.quantity_lots))
        /\ pc' = "matching" /\ command' = c /\ incoming' = c.quantity_lots
      BY <1>6 DEF SubmitNewOrder
  <2>2. /\ c.side \in Side /\ c.price_ticks > 0 /\ c.quantity_lots > 0
        /\ c.order_id \notin DOMAIN active_orders'
        /\ instrument_id = NoInstrument \/ c.instrument_id = instrument_id
      BY <1>6 DEF validate_new_order, validate_order_book_instrument, Command
  <2>3. c.quantity_lots \in Int /\ c.instrument_id \in Instrument
      BY DEF Command
  <2>4. events' \in Seq(Event)
      BY <1>1, <2>1, <2>3, OrderEventType, AppendProperties DEF EventType
  <2>5. instrument_id' \in Instrument /\ c.instrument_id = instrument_id'
      BY <2>1, <2>2, <2>3, IdAssumption DEF IInv, TypeOK
  <2>6. TypeOK'
      BY <1>1, <1>2, <1>3, <2>1, <2>2, <2>3, <2>4, <2>5, BookTypes DEF IInv, TypeOK
  <2>7. OneInstrument'
    <3>1. \A id \in DOMAIN active_orders' : active_orders'[id].instrument_id \in Instrument
        BY <1>1, <1>3, <1>2, BookTypes DEF RestingOrder
    <3> QED BY <2>1, <3>1, IdAssumption DEF OneInstrument
  <2>8. CallOK'
      BY <2>1, <2>2, <2>5 DEF CallOK
  <2> QED BY <1>3, <2>6, <2>7, <2>8 DEF IInv
<1> QED BY <1>5, <1>6

\* remove_cancelled_order leaves a consistent, uncrossed book.
LEMMA RemoveStep ==
    ASSUME IInv, NEW id \in DOMAIN active_orders, NEW n2 \in Nat,
           next_event_sequence <= n2,
           remove_cancelled_order(active_orders[id])
    PROVE  /\ BookOK(levels', active_orders', rested_at', n2)
           /\ NotCrossed'
           /\ active_orders' = Erase(active_orders, id)
           /\ \A x \in DOMAIN active_orders' :
                 x \in DOMAIN active_orders /\ active_orders'[x] = active_orders[x]
<1> DEFINE o == active_orders[id]
           s == o.side
           p == o.price_ticks
<1>1. /\ BookOK(levels, active_orders, rested_at, next_event_sequence)
      /\ next_event_sequence \in Nat
    BY DEF IInv, TypeOK
<1>2. s \in Side /\ p \in DOMAIN levels[s] /\ o.order_id = id
    BY <1>1, IndexedOrder
<1>3. /\ levels' = [levels EXCEPT ![s] =
                        StoreQueue(@, p, EraseFromQueue(levels[s][p], id))]
      /\ active_orders' = Erase(active_orders, id)
      /\ rested_at' = Erase(rested_at, id)
    BY <1>1, <1>2 DEF remove_cancelled_order, erase_order_from_price_levels, BookOK
<1>4. BookOK(levels', active_orders', rested_at', n2)
    BY <1>1, <1>3, RemoveKeepsBookOK
<1>5. \A x \in Side : DOMAIN levels'[x] \subseteq DOMAIN levels[x]
    BY <1>1, <1>2, <1>3 DEF StoreQueue, Put, Erase, BookOK
<1>6. NotCrossed'
    BY <1>5 DEF IInv, NotCrossed, Side
<1> QED BY <1>3, <1>4, <1>6 DEF Erase

LEMMA CancelStep ==
    ASSUME IInv, pc = "idle", NEW c \in Command, apply_cancel_order(c)
    PROVE  IInv'
<1> DEFINE reason == validate_cancel_order(c, active_orders)
           resting == active_orders[c.order_id]
<1>1. CASE reason # "None"
  <2>1. reason \in RejectionReason /\ Reject(c, reason)
      BY <1>1, ReasonTypes DEF apply_cancel_order
  <2> QED BY <2>1, RejectStep
<1>2. CASE reason = "None"
  <2>1. c.order_id \in DOMAIN active_orders
      BY <1>2 DEF validate_cancel_order
  <2>2. /\ remove_cancelled_order(resting)
        /\ events' = <<emit_cancel_event(c, next_event_sequence, resting)>>
        /\ next_event_sequence' = next_event_sequence + 1
        /\ UNCHANGED <<instrument_id, next_trade_id, pc, command, incoming>>
      BY <1>2 DEF apply_cancel_order, callvars
  <2>3. next_event_sequence \in Nat /\ resting \in RestingOrder
      BY <2>1 DEF IInv, TypeOK
  <2>4. next_event_sequence' \in Nat /\ next_event_sequence <= next_event_sequence'
      BY <2>2, <2>3
  <2>5. /\ BookOK(levels', active_orders', rested_at', next_event_sequence')
        /\ NotCrossed'
        /\ \A x \in DOMAIN active_orders' :
              x \in DOMAIN active_orders /\ active_orders'[x] = active_orders[x]
      BY <2>1, <2>2, <2>4, RemoveStep
  <2>6. events' \in Seq(Event)
      BY <2>2, <2>3, CancelEventType
  <2>7. TypeOK'
      BY <2>2, <2>4, <2>5, <2>6, BookTypes DEF IInv, TypeOK
  <2>8. OneInstrument' /\ CallOK'
      BY <2>2, <2>5 DEF IInv, OneInstrument, CallOK
  <2> QED BY <2>5, <2>7, <2>8 DEF IInv
<1> QED BY <1>1, <1>2

LEMMA ReplaceStep ==
    ASSUME IInv, pc = "idle", NEW c \in Command, apply_replace_order(c)
    PROVE  IInv'
<1> DEFINE reason == validate_replace_order(c, active_orders)
           resting == active_orders[c.order_id]
           replacement == [c EXCEPT !.command_type = "NewOrder",
                                    !.order_id = c.replacement_order_id]
           emitted == <<emit_cancel_event(c, next_event_sequence, resting)>>
<1>1. CASE reason # "None"
  <2>1. reason \in RejectionReason /\ Reject(c, reason)
      BY <1>1, ReasonTypes DEF apply_replace_order
  <2> QED BY <2>1, RejectStep
<1>2. CASE reason = "None"
  <2>1. c.order_id \in DOMAIN active_orders
      BY <1>2 DEF validate_replace_order
  <2>2. /\ remove_cancelled_order(resting)
        /\ SubmitNewOrder(replacement, Erase(active_orders, c.order_id), emitted)
      BY <1>2 DEF apply_replace_order
  <2>3. next_event_sequence \in Nat /\ resting \in RestingOrder
      BY <2>1 DEF IInv, TypeOK
  <2>4. replacement \in Command
      BY DEF Command, CommandType
  <2>5. emitted \in Seq(Event)
      BY <2>3, CancelEventType
  <2> HIDE DEF replacement, emitted
  <2>6. /\ BookOK(levels', active_orders', rested_at', next_event_sequence)
        /\ NotCrossed'
        /\ active_orders' = Erase(active_orders, c.order_id)
        /\ \A x \in DOMAIN active_orders' :
              x \in DOMAIN active_orders /\ active_orders'[x] = active_orders[x]
      BY <2>1, <2>2, <2>3, RemoveStep
  <2>7. SubmitNewOrder(replacement, active_orders', emitted)
      BY <2>2, <2>6
  <2>8. \A id \in DOMAIN active_orders' :
           active_orders'[id].instrument_id = instrument_id
      BY <2>6 DEF IInv, OneInstrument
  <2> QED BY <2>4, <2>5, <2>6, <2>7, <2>8, SubmitStep
<1> QED BY <1>1, <1>2

LEMMA NewOrderStep ==
    ASSUME IInv, pc = "idle", NEW c \in Command, apply_new_order(c)
    PROVE  IInv'
<1>1. UNCHANGED <<levels, active_orders, rested_at>>
    BY DEF apply_new_order
<1>2. SubmitNewOrder(c, active_orders', <<>>)
    BY <1>1 DEF apply_new_order
<1>3. BookOK(levels', active_orders', rested_at', next_event_sequence)
    BY <1>1 DEF IInv
<1>4. NotCrossed'
    BY <1>1 DEF IInv, NotCrossed
<1>5. \A id \in DOMAIN active_orders' : active_orders'[id].instrument_id = instrument_id
    BY <1>1 DEF IInv, OneInstrument
<1> QED BY <1>2, <1>3, <1>4, <1>5, SubmitStep, EmptySeq

\* What the front order of the level in a matching step is, and what trades.
LEMMA MatchFacts ==
    ASSUME IInv, pc = "matching", incoming > 0,
           NEW p, p \in DOMAIN levels[Opposite(command.side)]
    PROVE  LET side == Opposite(command.side)
               queue == levels[side][p]
               front == Head(queue)
               quantity == TradeQuantity(front.remaining)
           IN /\ side \in Side /\ p \in Int
              /\ QueueOK(queue, p, side, active_orders, rested_at)
              /\ front = queue[1] /\ front \in RestingOrder
              /\ front.order_id \in DOMAIN active_orders
              /\ active_orders[front.order_id] = front
              /\ front.side = side /\ front.price_ticks = p
              /\ EraseFromQueue(queue, front.order_id) = Tail(queue)
              /\ quantity \in Nat /\ quantity > 0
              /\ quantity <= incoming /\ quantity <= front.remaining
<1> DEFINE side == Opposite(command.side)
           queue == levels[side][p]
           front == Head(queue)
<1>1. side \in Side
    BY DEF Opposite, Side
<1>2. p \in Int /\ QueueOK(queue, p, side, active_orders, rested_at)
    BY <1>1 DEF IInv, BookOK, LevelsOK
<1>3. \A id \in DOMAIN active_orders : rested_at[id] \in Nat
    BY DEF IInv, TypeOK
<1> HIDE DEF side, queue
<1>4. /\ 1 \in 1..Len(queue) /\ front = queue[1]
      /\ EraseFromQueue(queue, front.order_id) = Tail(queue)
    BY <1>2, <1>3, TailErasesFront
<1>5. front \in RestingOrder
    BY <1>2, <1>4, ElementOfSeq DEF QueueOK
<1>6. /\ front.order_id \in DOMAIN active_orders
      /\ active_orders[front.order_id] = front
      /\ front.side = side /\ front.price_ticks = p /\ front.remaining > 0
    BY <1>2, <1>4 DEF QueueOK
<1>7. front.remaining \in Int /\ incoming \in Nat
    BY <1>5 DEF RestingOrder, IInv, TypeOK
<1>8. LET quantity == TradeQuantity(front.remaining)
      IN /\ quantity \in Nat /\ quantity > 0
         /\ quantity <= incoming /\ quantity <= front.remaining
    BY <1>6, <1>7 DEF TradeQuantity
<1> QED BY <1>1, <1>2, <1>4, <1>5, <1>6, <1>8 DEF side, queue

LEMMA MatchStep ==
    ASSUME IInv, NEW p, p \in DOMAIN levels[Opposite(command.side)], MatchFront(p)
    PROVE  IInv'
<1> DEFINE side == Opposite(command.side)
           queue == levels[side][p]
           front == Head(queue)
           quantity == TradeQuantity(front.remaining)
           left == [front EXCEPT !.remaining = @ - quantity]
           id == front.order_id
<1>1. pc = "matching" /\ incoming > 0
    BY DEF MatchFront
<1>2. /\ side \in Side /\ p \in Int
      /\ front = queue[1] /\ front \in RestingOrder
      /\ id \in DOMAIN active_orders
      /\ active_orders[id] = front
      /\ front.side = side /\ front.price_ticks = p
      /\ EraseFromQueue(queue, id) = Tail(queue)
      /\ quantity \in Nat /\ quantity > 0
      /\ quantity <= incoming /\ quantity <= front.remaining
    BY <1>1, MatchFacts
<1>3. front.remaining \in Int /\ left.remaining = front.remaining - quantity
    BY <1>2, SMTT(30) DEF RestingOrder
<1>4. /\ incoming' = incoming - quantity
      /\ levels' = [levels EXCEPT ![side] =
                       StoreQueue(@, p, IF left.remaining = 0 THEN Tail(queue)
                                        ELSE [queue EXCEPT ![1] = left])]
      /\ active_orders' = IF left.remaining = 0 THEN Erase(active_orders, id)
                          ELSE Put(active_orders, id, left)
      /\ rested_at' = IF left.remaining = 0 THEN Erase(rested_at, id) ELSE rested_at
      /\ events' = Append(events, emit_trade_event(command, next_event_sequence, front,
                                                   next_trade_id, p, quantity,
                                                   incoming - quantity))
      /\ next_event_sequence' = next_event_sequence + 1
      /\ next_trade_id' = next_trade_id + 1
      /\ UNCHANGED <<instrument_id, pc, command>>
    BY DEF MatchFront
<1>5. /\ BookOK(levels, active_orders, rested_at, next_event_sequence)
      /\ next_event_sequence \in Nat /\ next_trade_id \in Nat /\ incoming \in Nat
      /\ events \in Seq(Event) /\ command \in Command
  <2> HIDE DEF side, queue, front, quantity, left, id
  <2>1. TypeOK /\ BookOK(levels, active_orders, rested_at, next_event_sequence)
      BY SMTT(30) DEF IInv
  <2> QED BY <1>1, <2>1 DEF TypeOK
<1>6. next_event_sequence' \in Nat /\ next_event_sequence <= next_event_sequence'
    BY <1>4, <1>5
<1>7. BookOK(levels', active_orders', rested_at', next_event_sequence')
  <2>1. CASE left.remaining = 0
    <3>1. /\ levels' = [levels EXCEPT ![active_orders[id].side] =
                 StoreQueue(@, active_orders[id].price_ticks,
                            EraseFromQueue(levels[active_orders[id].side]
                                                 [active_orders[id].price_ticks], id))]
          /\ active_orders' = Erase(active_orders, id)
          /\ rested_at' = Erase(rested_at, id)
      <4> HIDE DEF side, front, quantity, left, id
      <4> QED BY <1>2, <1>4, <2>1
    <3> HIDE DEF side, queue, front, quantity, left, id
    <3>2. id \in DOMAIN active_orders
        BY <1>2
    <3> QED BY <1>5, <1>6, <3>1, <3>2, RemoveKeepsBookOK
  <2>2. CASE left.remaining # 0
    <3>1. front.remaining - quantity \in Int /\ front.remaining - quantity > 0
        BY <1>2, <1>3, <2>2
    <3>2. /\ left = [queue[1] EXCEPT !.remaining = front.remaining - quantity]
          /\ left.order_id = id
        BY <1>2, SMTT(30) DEF RestingOrder
    <3>3. /\ levels' = [levels EXCEPT ![side] = StoreQueue(@, p, [queue EXCEPT ![1] = left])]
          /\ active_orders' = Put(active_orders, left.order_id, left)
          /\ rested_at' = rested_at
        BY <1>4, <2>2, <3>2
    <3>4. p \in DOMAIN levels[side]
        OBVIOUS
    <3> DEFINE r == front.remaining - quantity
    <3>5. r \in Int /\ r > 0 /\ left = [levels[side][p][1] EXCEPT !.remaining = r]
        BY <3>1, <3>2, SMTT(30)
    <3> HIDE DEF left, side, r
    <3>6. BookOK([levels EXCEPT ![side] = StoreQueue(@, p, [levels[side][p] EXCEPT ![1] = left])],
                 Put(active_orders, left.order_id, left), rested_at, next_event_sequence')
        BY <1>2, <1>5, <1>6, <3>4, <3>5, UpdateFrontKeepsBookOK
    <3> QED BY <3>3, <3>6
  <2> QED BY <2>1, <2>2
<1>8. events' \in Seq(Event)
  <2>1. quantity \in Int /\ incoming - quantity \in Int
      BY <1>2, <1>5
  <2> HIDE DEF quantity, front
  <2>2. emit_trade_event(command, next_event_sequence, front, next_trade_id, p, quantity,
                         incoming - quantity) \in Event
      BY <1>2, <1>5, <2>1, TradeEventType, SMTT(30)
  <2> QED BY <1>4, <1>5, <2>2, AppendProperties
<1>9. incoming' \in Nat /\ next_trade_id' \in Nat
    BY <1>2, <1>4, <1>5
<1>10. /\ DOMAIN active_orders' \subseteq DOMAIN active_orders
       /\ \A x \in DOMAIN active_orders' :
             active_orders'[x].instrument_id = active_orders[x].instrument_id
  <2>1. left.instrument_id = front.instrument_id
      BY <1>2 DEF RestingOrder
  <2> HIDE DEF side, queue, front, quantity, left, id
  <2>2. CASE left.remaining = 0
      BY <1>2, <1>4, <2>2 DEF Erase
  <2>3. CASE left.remaining # 0
      BY <1>2, <1>4, <2>1, <2>3 DEF Put
  <2> QED BY <2>2, <2>3
<1>11. \A x \in Side : DOMAIN levels'[x] \subseteq DOMAIN levels[x]
  <2>1. DOMAIN levels = Side
      BY <1>5 DEF BookOK
  <2>2. side \in Side /\ p \in DOMAIN levels[side]
      BY <1>2
  <2> HIDE DEF side, queue, front, quantity, left, id
  <2>3. PICK new : levels' = [levels EXCEPT ![side] = StoreQueue(@, p, new)]
      BY <1>4
  <2>4. /\ \A x \in Side \ {side} : levels'[x] = levels[x]
        /\ levels'[side] = StoreQueue(levels[side], p, new)
      BY <2>1, <2>2, <2>3
  <2>5. DOMAIN StoreQueue(levels[side], p, new) \subseteq DOMAIN levels[side]
      BY <2>2 DEF StoreQueue, Put, Erase
  <2> QED BY <2>4, <2>5
<1> HIDE DEF side, queue, front, quantity, left, id
<1>12. TypeOK'
    BY <1>4, <1>6, <1>7, <1>8, <1>9, BookTypes DEF IInv, TypeOK
<1>13. NotCrossed'
    BY <1>11 DEF IInv, NotCrossed, Side
<1>14. OneInstrument' /\ CallOK'
    BY <1>4, <1>10 DEF IInv, OneInstrument, CallOK
<1> QED BY <1>7, <1>12, <1>13, <1>14, SMTT(30) DEF IInv

\* The terminal event of a call is well typed.
LEMMA ReturnStep ==
    ASSUME TypeOK, pc = "matching", NEW type \in EventType, NEW quantity \in Int,
           NEW remaining \in Int, Return(type, quantity, remaining)
    PROVE  /\ events' \in Seq(Event)
           /\ next_event_sequence' = next_event_sequence + 1
           /\ pc' = "idle" /\ command' = NoCommand /\ incoming' = 0
           /\ UNCHANGED <<instrument_id, next_trade_id>>
<1>1. emit_order_event(command, next_event_sequence, type, quantity, remaining) \in Event
    BY OrderEventType DEF TypeOK
<1> QED BY <1>1, AppendProperties DEF Return, TypeOK

LEMMA FillStep == IInv /\ FillIncoming => IInv'
<1> SUFFICES ASSUME IInv, FillIncoming PROVE IInv'
    OBVIOUS
<1>1. /\ TypeOK /\ pc = "matching"
      /\ command.quantity_lots \in Int
      /\ Return("OrderFullyFilled", command.quantity_lots, 0)
      /\ UNCHANGED <<levels, active_orders, rested_at>>
    BY DEF FillIncoming, IInv, TypeOK, Command
<1>2. /\ events' \in Seq(Event)
      /\ next_event_sequence' = next_event_sequence + 1
      /\ pc' = "idle" /\ command' = NoCommand /\ incoming' = 0
      /\ UNCHANGED <<instrument_id, next_trade_id>>
    BY <1>1, ReturnStep DEF EventType
<1>3. next_event_sequence \in Nat
    BY <1>1 DEF TypeOK
<1>4. BookOK(levels, active_orders, rested_at, next_event_sequence')
    BY <1>2, <1>3, BookLater DEF IInv
<1>5. BookOK(levels, active_orders, rested_at, next_event_sequence)'
    BY <1>1, <1>4
<1>6. TypeOK'
    BY <1>1, <1>2, <1>3 DEF TypeOK
<1>7. (NotCrossed /\ OneInstrument /\ CallOK)'
    BY <1>1, <1>2 DEF IInv, NotCrossed, OneInstrument, CallOK
<1> QED BY <1>5, <1>6, <1>7 DEF IInv

\* Where the loop has ended with something left, no level of the opposite side
\* has a price that the order accepts.
LEMMA LoopEndsUncrossed ==
    ASSUME IInv, pc = "matching", incoming # 0, LoopEnds,
           NEW q \in DOMAIN levels[Opposite(command.side)]
    PROVE  Before(Opposite(command.side), command.price_ticks, q)
<1> DEFINE side == Opposite(command.side)
<1>1. PICK p \in DOMAIN levels[side] : IsBest(side, p) /\ ~Crosses(command, p)
    BY DEF LoopEnds
<1>2. side \in Side /\ command.price_ticks \in Int
    BY DEF IInv, TypeOK, Command, Opposite, Side
<1>3. p \in Int /\ q \in Int
    BY <1>2 DEF IInv, TypeOK, IsLevelMap
<1>4. Before(side, command.price_ticks, p)
    BY <1>1 DEF Crosses
<1>5. q = p \/ Before(side, p, q)
    BY <1>1 DEF IsBest
<1> HIDE DEF side
<1>6. Before(side, command.price_ticks, q)
    BY <1>2, <1>3, <1>4, <1>5 DEF Before
<1> QED BY <1>6 DEF side

LEMMA RestStep == IInv /\ RestIncoming => IInv'
<1> SUFFICES ASSUME IInv, RestIncoming PROVE IInv'
    OBVIOUS
<1> DEFINE r == [order_id |-> command.order_id,
                 instrument_id |-> command.instrument_id,
                 side |-> command.side,
                 price_ticks |-> command.price_ticks,
                 remaining |-> incoming]
           n == next_event_sequence
<1>1. /\ TypeOK /\ pc = "matching" /\ incoming # 0 /\ LoopEnds
      /\ incoming \in Nat /\ n \in Nat
      /\ command \in Command /\ command.side \in Side /\ command.price_ticks > 0
      /\ command.order_id \notin DOMAIN active_orders
      /\ command.instrument_id = instrument_id
      /\ DOMAIN levels = Side
    BY DEF RestIncoming, IInv, TypeOK, CallOK
<1>2. /\ command.quantity_lots \in Int /\ command.price_ticks \in Int
      /\ incoming \in Int /\ command.quantity_lots - incoming \in Int
    BY <1>1 DEF Command
<1>3. /\ events' \in Seq(Event)
      /\ next_event_sequence' = n + 1
      /\ pc' = "idle" /\ command' = NoCommand /\ incoming' = 0
      /\ UNCHANGED <<instrument_id, next_trade_id>>
  <2>1. CASE incoming # command.quantity_lots
    <3>1. Return("OrderPartiallyFilled", command.quantity_lots - incoming, incoming)
        BY <2>1 DEF RestIncoming
    <3> QED BY <1>1, <1>2, <3>1, ReturnStep DEF EventType
  <2>2. CASE incoming = command.quantity_lots
    <3>1. Return("OrderRested", command.quantity_lots - incoming, incoming)
        BY <2>2 DEF RestIncoming
    <3> QED BY <1>1, <1>2, <3>1, ReturnStep DEF EventType
  <2> QED BY <2>1, <2>2
<1>4. /\ r \in RestingOrder
      /\ r.remaining > 0 /\ r.price_ticks > 0 /\ r.order_id \notin DOMAIN active_orders
      /\ r.side = command.side /\ r.price_ticks = command.price_ticks
      /\ r.order_id = command.order_id /\ r.instrument_id = command.instrument_id
    BY <1>1, <1>2 DEF RestingOrder, Command
<1>5. /\ levels' = [levels EXCEPT ![r.side] =
                       StoreQueue(@, r.price_ticks,
                                  Append(QueueAt(levels[r.side], r.price_ticks), r))]
      /\ active_orders' = Put(active_orders, r.order_id, r)
      /\ rested_at' = Put(rested_at, r.order_id, n)
    BY <1>1 DEF RestIncoming, rest_order, Enqueue
<1> HIDE DEF r
<1>6. BookOK(levels', active_orders', rested_at', next_event_sequence')
  <2>1. BookOK(levels, active_orders, rested_at, n)
      BY DEF IInv
  <2> HIDE DEF n
  <2> QED BY <1>1, <1>3, <1>4, <1>5, <2>1, RestKeepsBookOK
<1>7. TypeOK'
  <2>1. next_event_sequence' \in Nat
      BY <1>1, <1>3
  <2> QED BY <1>1, <1>3, <1>6, <2>1, BookTypes DEF TypeOK
<1>8. NotCrossed'
  <2> DEFINE side == command.side
             price == command.price_ticks
             other == Opposite(side)
  <2>1. /\ other \in Side /\ other # side
        /\ DOMAIN levels'[other] = DOMAIN levels[other]
        /\ DOMAIN levels'[side] \subseteq DOMAIN levels[side] \cup {price}
      BY <1>1, <1>4, <1>5 DEF StoreQueue, Put, Erase, Opposite, Side
  <2>2. \A q \in DOMAIN levels[other] : Before(other, price, q)
      BY <1>1, LoopEndsUncrossed
  <2>3. \A s \in Side : DOMAIN levels[s] \subseteq Int
      BY <1>1 DEF TypeOK, IsLevelMap
  <2>4. CASE side = "Buy"
    <3>1. other = "Sell"
        BY <2>4 DEF Opposite
    <3>2. \A q \in DOMAIN levels["Sell"] : price < q
        BY <2>2, <3>1 DEF Before
    <3> HIDE DEF price, side, other
    <3> QED BY <2>1, <2>4, <3>1, <3>2 DEF IInv, NotCrossed
  <2>5. CASE side = "Sell"
    <3>1. other = "Buy"
        BY <2>5 DEF Opposite
    <3>2. \A q \in DOMAIN levels["Buy"] : q < price
        BY <1>2, <2>2, <2>3, <3>1 DEF Before, Side
    <3> HIDE DEF price, side, other
    <3> QED BY <2>1, <2>5, <3>1, <3>2 DEF IInv, NotCrossed
  <2> QED BY <1>1, <2>4, <2>5 DEF Side
<1>9. OneInstrument' /\ CallOK'
    BY <1>1, <1>3, <1>4, <1>5 DEF IInv, OneInstrument, CallOK, Put
<1> QED BY <1>6, <1>7, <1>8, <1>9 DEF IInv

\* A call may be made with any command whatsoever.
LEMMA ApplyKeepsIInv ==
    ASSUME IInv, NEW c \in Command, Apply(c)
    PROVE  IInv'
<1>1. pc = "idle"
    BY DEF Apply
<1>2. CASE apply_new_order(c)
    BY <1>1, <1>2, NewOrderStep
<1>3. CASE apply_cancel_order(c)
    BY <1>1, <1>3, CancelStep
<1>4. CASE apply_replace_order(c)
    BY <1>1, <1>4, ReplaceStep
<1>5. CASE reject_unsupported_command(c)
    BY <1>1, <1>5, RejectStep DEF reject_unsupported_command, RejectionReason
<1> QED BY <1>2, <1>3, <1>4, <1>5 DEF Apply

LEMMA NextStep == IInv /\ [Next]_vars => IInv'
<1> SUFFICES ASSUME IInv, [Next]_vars PROVE IInv'
    OBVIOUS
<1>1. ASSUME NEW c \in Commands, Apply(c) PROVE IInv'
  <2>1. c \in Command
      BY CommandsAssumption
  <2> QED BY <1>1, <2>1, ApplyKeepsIInv
<1>2. ASSUME NEW p \in DOMAIN levels[Opposite(command.side)], MatchFront(p) PROVE IInv'
    BY <1>2, MatchStep
<1>3. CASE FillIncoming
    BY <1>3, FillStep
<1>4. CASE RestIncoming
    BY <1>4, RestStep
<1>5. CASE UNCHANGED vars
    BY <1>5 DEF vars, IInv, TypeOK, BookOK, LevelsOK, Indexed, NotCrossed, OneInstrument,
                CallOK
<1> QED BY <1>1, <1>2, <1>3, <1>4, <1>5 DEF Next, Continue

LEMMA IInvAlways == Spec => []IInv
<1> QED BY InitStep, NextStep, PTL DEF Spec

-----------------------------------------------------------------------------
\* The theorems.

\* The types of OrderBook's members hold in every state of every call, and the
\* remainder of the order in the matching loop never becomes negative.
THEOREM TypeCorrect == Spec => []TypeOK
<1>1. IInv => TypeOK
    BY DEF IInv
<1> QED BY <1>1, IInvAlways, PTL

\* A price level keeps its orders in the order in which they came to rest,
\* through every interleaving of matching, cancels and replaces.
THEOREM FifoAlways == Spec => []FifoQueues
<1>1. IInv => FifoQueues
  <2> SUFFICES ASSUME IInv, NEW s \in Side, NEW p \in DOMAIN levels[s],
                      NEW i \in DOMAIN levels[s][p], NEW j \in DOMAIN levels[s][p], i < j
               PROVE  rested_at[levels[s][p][i].order_id]
                         < rested_at[levels[s][p][j].order_id]
      BY DEF FifoQueues
  <2>1. QueueOK(levels[s][p], p, s, active_orders, rested_at)
      BY DEF IInv, BookOK, LevelsOK
  <2>2. DOMAIN levels[s][p] = 1..Len(levels[s][p])
      BY <2>1, LenProperties DEF QueueOK
  <2> QED BY <2>1, <2>2 DEF QueueOK
<1> QED BY <1>1, IInvAlways, PTL

\* OrderBook never mixes the orders of two instruments.
THEOREM OneInstrumentAlways == Spec => []OneInstrument
<1>1. IInv => OneInstrument
    BY DEF IInv
<1> QED BY <1>1, IInvAlways, PTL

\* The inductive invariant contains OrderBook::validate_invariants, also in the
\* middle of a call.
LEMMA IInvValidates ==
    ASSUME IInv
    PROVE  validate_invariants
<1>1. ASSUME NEW s \in Side, NEW p \in DOMAIN levels[s]
      PROVE  /\ p > 0
             /\ QueueOK(levels[s][p], p, s, active_orders, rested_at)
             /\ DOMAIN levels[s][p] = 1..Len(levels[s][p])
  <2>1. p > 0 /\ QueueOK(levels[s][p], p, s, active_orders, rested_at)
      BY DEF IInv, BookOK, LevelsOK
  <2> QED BY <2>1, LenProperties DEF QueueOK
<1>2. ASSUME NEW s \in Side PROVE validate_price_levels_against_active_orders(s)
    BY <1>1 DEF validate_price_levels_against_active_orders,
                validate_resting_order_against_active_index, QueueOK
<1>3. QueuedOnce
  <2> SUFFICES ASSUME NEW s1 \in Side, NEW s2 \in Side,
                      NEW p1 \in DOMAIN levels[s1], NEW p2 \in DOMAIN levels[s2],
                      NEW i \in DOMAIN levels[s1][p1], NEW j \in DOMAIN levels[s2][p2],
                      levels[s1][p1][i].order_id = levels[s2][p2][j].order_id
               PROVE  s1 = s2 /\ p1 = p2 /\ i = j
      BY DEF QueuedOnce
  <2>1. levels[s1][p1][i] = levels[s2][p2][j]
    <3>1. ASSUME NEW s \in Side, NEW p \in DOMAIN levels[s], NEW x \in DOMAIN levels[s][p]
          PROVE  active_orders[levels[s][p][x].order_id] = levels[s][p][x]
        BY <1>1 DEF QueueOK
    <3> QED BY <3>1
  <2>2. s1 = s2 /\ p1 = p2
      BY <1>1, <2>1, SMTT(30) DEF QueueOK
  <2>3. \A id \in DOMAIN active_orders : rested_at[id] \in Nat
      BY DEF IInv, TypeOK
  <2>4. i = j
      BY <1>1, <2>2, <2>3, QueuedIdsDiffer
  <2> QED BY <2>2, <2>4
<1>4. validate_active_orders_are_queued
  <2> SUFFICES ASSUME NEW id \in DOMAIN active_orders
               PROVE  /\ active_orders[id].remaining > 0
                      /\ \E s \in Side : \E p \in DOMAIN levels[s] :
                            \E i \in DOMAIN levels[s][p] : levels[s][p][i].order_id = id
      BY DEF validate_active_orders_are_queued
  <2> DEFINE s == active_orders[id].side
             p == active_orders[id].price_ticks
  <2>1. /\ s \in Side /\ p \in DOMAIN levels[s] /\ active_orders[id].order_id = id
        /\ \E k \in 1..Len(levels[s][p]) : levels[s][p][k] = active_orders[id]
      BY IndexedOrder DEF IInv, TypeOK
  <2> HIDE DEF s, p
  <2>2. PICK k \in 1..Len(levels[s][p]) : levels[s][p][k] = active_orders[id]
      BY <2>1
  <2>3. k \in DOMAIN levels[s][p] /\ active_orders[id].remaining > 0
      BY <1>1, <2>1, <2>2 DEF QueueOK
  <2> QED BY <2>1, <2>2, <2>3
<1> QED BY <1>2, <1>3, <1>4 DEF IInv, validate_invariants, Side

\* OrderBook::validate_invariants returns true after every call.
THEOREM BookAlwaysValid == Spec => []BookValid
<1>1. IInv => BookValid
    BY IInvValidates DEF BookValid
<1> QED BY <1>1, IInvAlways, PTL
-----------------------------------------------------------------------------
(* What the calls of OrderBook may never do: a call that emits a rejection *)
(* leaves the book alone, a trade goes to the order with priority, and the *)
(* events of a call account for every lot of its order.  All follow from   *)
(* the inductive invariant; the first needs that a call that got as far as *)
(* the matching loop has emitted no rejection, the last what the events    *)
(* emitted so far say of the order in the loop.                            *)

Rejects(seq) == \E i \in DOMAIN seq : seq[i].event_type = "OrderRejected"

\* A call in the loop has emitted no rejection.
CleanCall == pc = "matching" => ~Rejects(events)

\* Appending an event that is no rejection adds none.
LEMMA AppendClean ==
    ASSUME NEW seq \in Seq(Event), NEW e \in Event, e.event_type # "OrderRejected",
           Rejects(Append(seq, e))
    PROVE  Rejects(seq)
<1>1. /\ Append(seq, e) \in Seq(Event)
      /\ Len(Append(seq, e)) = Len(seq) + 1
      /\ \A i \in 1..Len(seq) : Append(seq, e)[i] = seq[i]
      /\ Append(seq, e)[Len(seq) + 1] = e
    BY AppendProperties
<1>2. /\ DOMAIN Append(seq, e) = 1..Len(Append(seq, e))
      /\ DOMAIN seq = 1..Len(seq) /\ Len(seq) \in Nat
    BY <1>1, LenProperties
<1>3. PICK i \in 1..(Len(seq) + 1) : Append(seq, e)[i].event_type = "OrderRejected"
    BY <1>1, <1>2 DEF Rejects
<1>4. i \in 1..Len(seq)
    BY <1>1, <1>2, <1>3
<1> QED BY <1>1, <1>2, <1>3, <1>4 DEF Rejects

\* The nested apply_new_order of a replace accepts what validate_replace_order
\* let through: the book is bound, to the instrument of the replaced order.
LEMMA ReplacementAccepted ==
    ASSUME IInv, NEW c \in Command, validate_replace_order(c, active_orders) = "None"
    PROVE  validate_new_order([c EXCEPT !.command_type = "NewOrder",
                                        !.order_id = c.replacement_order_id],
                              Erase(active_orders, c.order_id),
                              instrument_id) = "None"
<1> DEFINE r == [c EXCEPT !.command_type = "NewOrder",
                          !.order_id = c.replacement_order_id]
<1>1. /\ c.order_id \in DOMAIN active_orders
      /\ active_orders[c.order_id].instrument_id = c.instrument_id
      /\ c.replacement_order_id \notin DOMAIN active_orders
      /\ c.side \in Side
      /\ ~(c.price_ticks <= 0)
      /\ ~(c.quantity_lots <= 0)
      /\ c.time_in_force = "Gtc"
    BY DEF validate_replace_order
<1>2. c.instrument_id = instrument_id
    BY <1>1 DEF IInv, OneInstrument
<1>3. /\ r.command_type = "NewOrder" /\ r.order_id = c.replacement_order_id
      /\ r.side = c.side /\ r.price_ticks = c.price_ticks
      /\ r.quantity_lots = c.quantity_lots /\ r.time_in_force = c.time_in_force
      /\ r.instrument_id = c.instrument_id
    BY DEF Command
<1>4. r.order_id \notin DOMAIN Erase(active_orders, c.order_id)
    BY <1>1, <1>3 DEF Erase
<1> HIDE DEF r
<1>5. validate_new_order(r, Erase(active_orders, c.order_id), instrument_id) = "None"
    BY <1>1, <1>2, <1>3, <1>4 DEF validate_new_order, validate_order_book_instrument
<1> QED BY <1>5 DEF r

\* What a step of a call in the loop appends is no rejection.
LEMMA LoopStepAppends ==
    ASSUME IInv, pc = "matching", Continue
    PROVE  \E e \in Event : /\ e.event_type # "OrderRejected"
                            /\ events' = Append(events, e)
<1>1. command \in Command /\ next_event_sequence \in Nat /\ incoming \in Nat
      /\ next_trade_id \in Nat /\ command.quantity_lots \in Int
    BY DEF IInv, TypeOK, Command
<1>2. ASSUME NEW type \in EventType \ {"OrderRejected"}, NEW quantity \in Int,
             NEW remaining \in Int, Return(type, quantity, remaining)
      PROVE  \E e \in Event : e.event_type # "OrderRejected" /\ events' = Append(events, e)
  <2> DEFINE e == emit_order_event(command, next_event_sequence, type, quantity, remaining)
  <2>1. e \in Event
      BY <1>1, OrderEventType
  <2>2. e.event_type = type /\ events' = Append(events, e)
      BY <1>2 DEF Return, emit_order_event
  <2> HIDE DEF e
  <2> QED BY <2>1, <2>2
<1>3. CASE FillIncoming
  <2>1. Return("OrderFullyFilled", command.quantity_lots, 0)
      BY <1>3 DEF FillIncoming
  <2>2. "OrderFullyFilled" \in EventType \ {"OrderRejected"} /\ 0 \in Int
      BY DEF EventType
  <2>3. command.quantity_lots \in Int
      BY <1>1
  <2> QED BY <1>2, <2>1, <2>2, <2>3
<1>4. CASE RestIncoming
  <2>1. incoming \in Int /\ command.quantity_lots - incoming \in Int
      BY <1>1
  <2>2. CASE incoming # command.quantity_lots
    <3>1. Return("OrderPartiallyFilled", command.quantity_lots - incoming, incoming)
        BY <1>4, <2>2 DEF RestIncoming
    <3> QED BY <1>2, <2>1, <3>1 DEF EventType
  <2>3. CASE incoming = command.quantity_lots
    <3>1. Return("OrderRested", command.quantity_lots - incoming, incoming)
        BY <1>4, <2>3 DEF RestIncoming
    <3> QED BY <1>2, <2>1, <3>1 DEF EventType
  <2> QED BY <2>2, <2>3
<1>5. ASSUME NEW p \in DOMAIN levels[Opposite(command.side)], MatchFront(p)
      PROVE  \E e \in Event : e.event_type # "OrderRejected" /\ events' = Append(events, e)
  <2> DEFINE front == Head(levels[Opposite(command.side)][p])
             quantity == TradeQuantity(front.remaining)
             e == emit_trade_event(command, next_event_sequence, front, next_trade_id, p,
                                   quantity, incoming - quantity)
  <2>1. incoming > 0 /\ events' = Append(events, e)
      BY <1>5, SMTT(30) DEF MatchFront
  <2>2. front \in RestingOrder /\ quantity \in Nat /\ p \in Int
      BY <2>1, MatchFacts
  <2>3. quantity \in Int /\ incoming - quantity \in Int
      BY <1>1, <2>2
  <2> HIDE DEF front, quantity
  <2>4. e \in Event
      BY <1>1, <2>2, <2>3, TradeEventType
  <2>5. e.event_type = "TradeExecuted"
      BY DEF emit_trade_event, emit_order_event
  <2> HIDE DEF e
  <2> QED BY <2>1, <2>4, <2>5, SMTT(30)
<1> QED BY <1>3, <1>4, <1>5 DEF Continue

\* A call that reaches the loop does so without a rejection, and one that
\* rejects changes only the event sequence.
LEMMA ApplyStep ==
    ASSUME IInv, NEW c \in Commands, Apply(c)
    PROVE  /\ Rejects(events') => UNCHANGED <<bookvars, next_trade_id>>
           /\ CleanCall'
<1>1. c \in Command /\ pc = "idle" /\ next_event_sequence \in Nat
    BY CommandsAssumption DEF Apply, IInv, TypeOK
<1>2. ASSUME NEW reason, Reject(c, reason)
      PROVE  UNCHANGED <<bookvars, next_trade_id>> /\ CleanCall'
    BY <1>1, <1>2 DEF Reject, callvars, CleanCall
<1>3. CASE apply_new_order(c)
  <2> DEFINE reason == validate_new_order(c, active_orders, instrument_id)
             e == emit_order_event(c, next_event_sequence + Len(<<>>), "OrderAccepted",
                                   c.quantity_lots, c.quantity_lots)
  <2>1. CASE reason # "None"
      BY <1>1, <1>3, <2>1 DEF apply_new_order, SubmitNewOrder, bookvars, callvars, CleanCall
  <2>2. CASE reason = "None"
    <3>1. events' = Append(<<>>, e)
        BY <1>3, <2>2 DEF apply_new_order, SubmitNewOrder
    <3>2. e.event_type = "OrderAccepted"
        BY DEF emit_order_event
    <3> HIDE DEF e
    <3>3. ~Rejects(events')
        BY <3>1, <3>2 DEF Rejects
    <3> QED BY <3>3 DEF CleanCall
  <2> QED BY <2>1, <2>2
<1>4. CASE apply_cancel_order(c)
  <2>1. CASE validate_cancel_order(c, active_orders) # "None"
      BY <1>2, <1>4, <2>1 DEF apply_cancel_order
  <2>2. CASE validate_cancel_order(c, active_orders) = "None"
    <3> DEFINE e == emit_cancel_event(c, next_event_sequence, active_orders[c.order_id])
    <3>1. events' = <<e>>
        BY <1>4, <2>2 DEF apply_cancel_order
    <3>2. e.event_type = "OrderCancelled"
        BY DEF emit_cancel_event, emit_order_event
    <3> HIDE DEF e
    <3>3. ~Rejects(events')
        BY <3>1, <3>2 DEF Rejects
    <3> QED BY <3>3 DEF CleanCall
  <2> QED BY <2>1, <2>2
<1>5. CASE apply_replace_order(c)
  <2>1. CASE validate_replace_order(c, active_orders) # "None"
      BY <1>2, <1>5, <2>1 DEF apply_replace_order
  <2>2. CASE validate_replace_order(c, active_orders) = "None"
    <3> DEFINE r == [c EXCEPT !.command_type = "NewOrder",
                              !.order_id = c.replacement_order_id]
               x == emit_cancel_event(c, next_event_sequence, active_orders[c.order_id])
               seq == next_event_sequence + Len(<<x>>)
               e == emit_order_event(r, seq, "OrderAccepted", r.quantity_lots,
                                     r.quantity_lots)
    <3>1. validate_new_order(r, Erase(active_orders, c.order_id), instrument_id) = "None"
        BY <1>1, <2>2, ReplacementAccepted
    <3>2. SubmitNewOrder(r, Erase(active_orders, c.order_id), <<x>>)
        BY <1>5, <2>2 DEF apply_replace_order
    <3>3. x.event_type = "OrderCancelled" /\ e.event_type = "OrderAccepted"
        BY DEF emit_cancel_event, emit_order_event
    <3> HIDE DEF r, x
    <3>4. events' = Append(<<x>>, e)
        BY <3>1, <3>2 DEF SubmitNewOrder
    <3> HIDE DEF e
    <3>5. ~Rejects(events')
        BY <3>3, <3>4 DEF Rejects
    <3> QED BY <3>5 DEF CleanCall
  <2> QED BY <2>1, <2>2
<1>6. CASE reject_unsupported_command(c)
    BY <1>2, <1>6 DEF reject_unsupported_command
<1> QED BY <1>3, <1>4, <1>5, <1>6 DEF Apply

LEMMA CleanStep ==
    ASSUME IInv, CleanCall, [Next]_vars
    PROVE  CleanCall' /\ [Rejects(events') => UNCHANGED <<bookvars, next_trade_id>>]_vars
<1>1. CASE \E c \in Commands : Apply(c)
    BY <1>1, ApplyStep
<1>2. CASE pc = "matching" /\ Continue
  <2>1. PICK e \in Event : e.event_type # "OrderRejected" /\ events' = Append(events, e)
      BY <1>2, LoopStepAppends
  <2>2. ~Rejects(events) /\ events \in Seq(Event)
      BY <1>2 DEF CleanCall, IInv, TypeOK
  <2>3. ~Rejects(events')
      BY <2>1, <2>2, AppendClean
  <2> QED BY <2>3 DEF CleanCall
<1>3. CASE UNCHANGED vars
    BY <1>3 DEF vars, CleanCall, Rejects
<1> QED BY <1>1, <1>2, <1>3 DEF Next

\* A call that emits a rejection changes nothing of the book; in particular a
\* replace never cancels the old order without accepting the new one.
THEOREM RejectionsMutateNothing == Spec => RejectionMutatesNothing
<1>1. Init => CleanCall
    BY DEF Init, CleanCall
<1>2. IInv /\ CleanCall /\ [Next]_vars
        => CleanCall' /\ [(\E i \in DOMAIN events' : events'[i].event_type = "OrderRejected")
                             => UNCHANGED <<bookvars, next_trade_id>>]_vars
    BY CleanStep DEF Rejects
<1> QED BY <1>1, <1>2, IInvAlways, PTL DEF Spec, RejectionMutatesNothing
-----------------------------------------------------------------------------
\* Only a matching step allocates a trade id.
LEMMA TradeIdStep ==
    ASSUME [Next]_vars, next_trade_id' # next_trade_id
    PROVE  /\ pc = "matching"
           /\ \E p \in DOMAIN levels[Opposite(command.side)] : MatchFront(p)
<1>1. ASSUME NEW c, Apply(c) PROVE next_trade_id' = next_trade_id
    BY <1>1 DEF Apply, apply_new_order, apply_cancel_order, apply_replace_order,
                reject_unsupported_command, Reject, SubmitNewOrder
<1>2. CASE FillIncoming \/ RestIncoming
    BY <1>2 DEF FillIncoming, RestIncoming, Return
<1>3. CASE UNCHANGED vars
    BY <1>3 DEF vars
<1> QED BY <1>1, <1>2, <1>3 DEF Next, Continue

LEMMA PriorityStep ==
    ASSUME IInv, pc = "matching",
           NEW p \in DOMAIN levels[Opposite(command.side)], MatchFront(p)
    PROVE  LET trade == events'[Len(events')]
               maker == trade.contra_order_id
               side == Opposite(command.side)
           IN /\ maker \in DOMAIN active_orders
              /\ active_orders[maker].side = side
              /\ trade.price_ticks = active_orders[maker].price_ticks
              /\ ~Before(side, command.price_ticks, trade.price_ticks)
              /\ \A id \in DOMAIN active_orders \ {maker} :
                    active_orders[id].side = side =>
                       \/ Before(side, trade.price_ticks, active_orders[id].price_ticks)
                       \/ /\ trade.price_ticks = active_orders[id].price_ticks
                          /\ rested_at[maker] < rested_at[id]
<1> DEFINE side == Opposite(command.side)
           queue == levels[side][p]
           front == Head(queue)
           quantity == TradeQuantity(front.remaining)
           e == emit_trade_event(command, next_event_sequence, front, next_trade_id, p,
                                 quantity, incoming - quantity)
           maker == front.order_id
<1>1. /\ incoming > 0 /\ events' = Append(events, e)
      /\ IsBest(side, p) /\ Crosses(command, p)
    BY SMTT(30) DEF MatchFront
<1>2. /\ front \in RestingOrder /\ quantity \in Nat /\ p \in Int /\ front = queue[1]
      /\ QueueOK(queue, p, side, active_orders, rested_at)
      /\ maker \in DOMAIN active_orders
      /\ active_orders[maker] = front
      /\ front.side = side /\ front.price_ticks = p
    BY <1>1, MatchFacts
<1>3. /\ command \in Command /\ next_event_sequence \in Nat /\ next_trade_id \in Nat
      /\ incoming - quantity \in Int /\ quantity \in Int /\ events \in Seq(Event)
    BY <1>2 DEF IInv, TypeOK
<1>4. e.contra_order_id = maker /\ e.price_ticks = p
    BY DEF emit_trade_event, emit_order_event
<1> HIDE DEF front, quantity
<1>5. e \in Event
    BY <1>2, <1>3, TradeEventType
<1> HIDE DEF e
<1>6. events'[Len(events')] = e
    BY <1>1, <1>3, <1>5, AppendProperties
<1>7. ~Before(side, command.price_ticks, p)
    BY <1>1 DEF Crosses
<1>8. ASSUME NEW id \in DOMAIN active_orders \ {maker}, active_orders[id].side = side
      PROVE  \/ Before(side, p, active_orders[id].price_ticks)
             \/ p = active_orders[id].price_ticks /\ rested_at[maker] < rested_at[id]
  <2> DEFINE q == active_orders[id].price_ticks
  <2>1. /\ q \in DOMAIN levels[side]
        /\ active_orders[id].order_id = id
        /\ \E k \in 1..Len(levels[side][q]) : levels[side][q][k] = active_orders[id]
      BY <1>8, IndexedOrder DEF IInv, TypeOK
  <2>2. q = p \/ Before(side, p, q)
      BY <1>1, <2>1 DEF IsBest
  <2>3. CASE q = p
    <3>1. PICK k \in 1..Len(queue) : queue[k] = active_orders[id]
        BY <2>1, <2>3, SMTT(30)
    <3>2. queue \in Seq(RestingOrder) /\ Len(queue) \in Nat
        BY <1>2, LenProperties DEF QueueOK
    <3>3. k # 1 /\ queue[k].order_id = id /\ queue[1].order_id = maker
        BY <1>2, <2>1, <3>1
    <3>4. 1 \in 1..Len(queue) /\ 1 < k
        BY <3>1, <3>2, <3>3, SMTT(30)
    <3>5. rested_at[queue[1].order_id] < rested_at[queue[k].order_id]
        BY <1>2, <3>4 DEF QueueOK
    <3> QED BY <2>3, <3>3, <3>5
  <2> QED BY <2>2, <2>3
<1> HIDE DEF side, maker
<1>9. LET trade == events'[Len(events')]
      IN trade.contra_order_id = maker /\ trade.price_ticks = p
    BY <1>4, <1>6
<1>10. active_orders[maker].side = side /\ active_orders[maker].price_ticks = p
    BY <1>2
<1> QED BY <1>2, <1>7, <1>8, <1>9, <1>10, SMTT(30) DEF side

\* Every trade goes to the order that has price-time priority on its side.
THEOREM TradesHavePriority == Spec => TradesFollowPriority
<1> DEFINE Priority ==
        LET trade == events'[Len(events')]
            maker == trade.contra_order_id
            side == Opposite(command.side)
        IN /\ maker \in DOMAIN active_orders
           /\ active_orders[maker].side = side
           /\ trade.price_ticks = active_orders[maker].price_ticks
           /\ ~Before(side, command.price_ticks, trade.price_ticks)
           /\ \A id \in DOMAIN active_orders \ {maker} :
                 active_orders[id].side = side =>
                    \/ Before(side, trade.price_ticks, active_orders[id].price_ticks)
                    \/ /\ trade.price_ticks = active_orders[id].price_ticks
                       /\ rested_at[maker] < rested_at[id]
<1>1. IInv /\ [Next]_vars => [next_trade_id' # next_trade_id => Priority]_vars
  <2> SUFFICES ASSUME IInv, [Next]_vars, next_trade_id' # next_trade_id PROVE Priority
      OBVIOUS
  <2>1. /\ pc = "matching"
        /\ \E p \in DOMAIN levels[Opposite(command.side)] : MatchFront(p)
      BY TradeIdStep
  <2> QED BY <2>1, PriorityStep
<1> QED BY <1>1, IInvAlways, PTL DEF Spec, TradesFollowPriority
-----------------------------------------------------------------------------
\* The events of a call.

\* What EventsAccountForOrder says of the events ev of a call that has returned.
Accounted(ev, n, orders) ==
    LET last == ev[Len(ev)]
        first == IF Len(ev) > 1 /\ ev[1].event_type = "OrderCancelled" THEN 2 ELSE 1
    IN /\ \A i \in 1..Len(ev) : ev[i].event_sequence = n - Len(ev) + i - 1
       /\ \/ Len(ev) = 1 /\ last.event_type \in {"OrderRejected", "OrderCancelled"}
          \/ /\ Len(ev) > first
             /\ ev[first].event_type = "OrderAccepted"
             /\ \A i \in (first + 1)..Len(ev) : ev[i].order_id = ev[first].order_id
             /\ \A i \in (first + 1)..(Len(ev) - 1) :
                   /\ ev[i].event_type = "TradeExecuted"
                   /\ ev[i].quantity_lots > 0
                   /\ ev[i].remaining = ev[i - 1].remaining - ev[i].quantity_lots
             /\ last.remaining = ev[Len(ev) - 1].remaining
             /\ last.quantity_lots = ev[first].quantity_lots - last.remaining
             /\ last.event_type = IF last.remaining = 0 THEN "OrderFullyFilled"
                                  ELSE IF Len(ev) = first + 1 THEN "OrderRested"
                                  ELSE "OrderPartiallyFilled"
             /\ IF last.remaining = 0
                THEN last.order_id \notin DOMAIN orders
                ELSE /\ last.order_id \in DOMAIN orders
                     /\ orders[last.order_id].remaining = last.remaining

\* The events ev of a call in the loop, with the acceptance of the order c at
\* place first, number up to n and leave rest of the order to trade.
CallEvents(ev, c, first, n, rest) ==
    /\ first \in 1..2 /\ first <= Len(ev)
    /\ first = 2 <=> ev[1].event_type = "OrderCancelled"
    /\ \A i \in 1..Len(ev) : ev[i].event_sequence = n - Len(ev) + i - 1
    /\ ev[first].event_type = "OrderAccepted"
    /\ ev[first].order_id = c.order_id
    /\ ev[first].quantity_lots = c.quantity_lots
    /\ ev[first].remaining = c.quantity_lots
    /\ \A i \in (first + 1)..Len(ev) :
          /\ ev[i].event_type = "TradeExecuted"
          /\ ev[i].order_id = c.order_id
          /\ ev[i].quantity_lots > 0
          /\ ev[i].remaining = ev[i - 1].remaining - ev[i].quantity_lots
    /\ ev[Len(ev)].remaining = rest
    /\ rest <= c.quantity_lots
    /\ first = Len(ev) <=> rest = c.quantity_lots

\* The inductive form of EventsAccountForOrder.
CallInv ==
    IF pc = "idle" THEN events # <<>> => Accounted(events, next_event_sequence, active_orders)
    ELSE \E first : CallEvents(events, command, first, next_event_sequence, incoming)

\* A call that answers with one event only.
LEMMA SingleEvent ==
    ASSUME NEW n \in Nat, NEW orders, NEW e, e.event_sequence = n,
           e.event_type \in {"OrderRejected", "OrderCancelled"}
    PROVE  Accounted(<<e>>, n + 1, orders)
<1> DEFINE ev == <<e>>
<1>1. Len(ev) = 1 /\ ev[1] = e /\ 1..1 = {1}
    OBVIOUS
<1> HIDE DEF ev
<1>2. Accounted(ev, n + 1, orders)
    BY <1>1 DEF Accounted
<1> QED BY <1>2 DEF ev

\* A call whose order has been accepted, alone or in the place of another.
LEMMA OrderAccepted ==
    ASSUME NEW c \in Command, NEW seq \in Nat, NEW n \in Nat, n = seq + 1,
           NEW e, e = emit_order_event(c, seq, "OrderAccepted",
                                       c.quantity_lots, c.quantity_lots),
           NEW ev,
           \/ ev = <<e>>
           \/ \E x : /\ ev = Append(<<x>>, e)
                     /\ x.event_type = "OrderCancelled" /\ x.event_sequence = seq - 1
    PROVE  \E first : CallEvents(ev, c, first, n, c.quantity_lots)
<1>1. /\ e.event_type = "OrderAccepted" /\ e.event_sequence = seq
      /\ e.order_id = c.order_id
      /\ e.quantity_lots = c.quantity_lots /\ e.remaining = c.quantity_lots
      /\ c.quantity_lots \in Int
    BY DEF emit_order_event, Command
<1>2. CASE ev = <<e>>
  <2>1. Len(ev) = 1 /\ ev[1] = e /\ 1..1 = {1} /\ (1 + 1)..1 = {}
      BY <1>2
  <2>2. CallEvents(ev, c, 1, n, c.quantity_lots)
      BY <1>1, <2>1 DEF CallEvents
  <2> QED BY <2>2
<1>3. ASSUME NEW x, ev = Append(<<x>>, e), x.event_type = "OrderCancelled",
             x.event_sequence = seq - 1
      PROVE  \E first : CallEvents(ev, c, first, n, c.quantity_lots)
  <2>1. /\ Len(ev) = 2 /\ ev[1] = x /\ ev[2] = e
        /\ 1..2 = {1, 2} /\ (2 + 1)..2 = {}
      BY <1>3
  <2>2. CallEvents(ev, c, 2, n, c.quantity_lots)
      BY <1>1, <1>3, <2>1 DEF CallEvents
  <2> QED BY <2>2
<1> QED BY <1>2, <1>3

\* A trade takes its quantity from what was left to trade.
LEMMA TradeAppended ==
    ASSUME NEW c, NEW ev \in Seq(Event), NEW first, NEW n \in Nat, NEW rest \in Nat,
           CallEvents(ev, c, first, n, rest), c.quantity_lots \in Int,
           NEW e \in Event, e.event_type = "TradeExecuted", e.event_sequence = n,
           e.order_id = c.order_id, e.quantity_lots > 0,
           e.remaining = rest - e.quantity_lots
    PROVE  CallEvents(Append(ev, e), c, first, n + 1, e.remaining)
<1> DEFINE ev2 == Append(ev, e)
           N == Len(ev)
<1>1. /\ N \in Nat /\ Len(ev2) = N + 1
      /\ \A i \in 1..N : ev2[i] = ev[i]
      /\ ev2[N + 1] = e
    BY AppendProperties, LenProperties
<1> HIDE DEF ev2
<1>2. /\ first \in 1..2 /\ first <= N
      /\ first = 2 <=> ev[1].event_type = "OrderCancelled"
      /\ \A i \in 1..N : ev[i].event_sequence = n - N + i - 1
      /\ ev[first].event_type = "OrderAccepted"
      /\ ev[first].order_id = c.order_id
      /\ ev[first].quantity_lots = c.quantity_lots
      /\ ev[first].remaining = c.quantity_lots
      /\ ev[N].remaining = rest
      /\ rest <= c.quantity_lots
      /\ first = N <=> rest = c.quantity_lots
    BY DEF CallEvents
<1>3. \A i \in (first + 1)..N :
          /\ ev[i].event_type = "TradeExecuted"
          /\ ev[i].order_id = c.order_id
          /\ ev[i].quantity_lots > 0
          /\ ev[i].remaining = ev[i - 1].remaining - ev[i].quantity_lots
    BY DEF CallEvents
<1>4. ev2[first] = ev[first] /\ ev2[1] = ev[1]
    BY <1>1, <1>2
<1>5. ASSUME NEW i \in 1..(N + 1) PROVE ev2[i].event_sequence = n + 1 - (N + 1) + i - 1
  <2>1. n + 1 - (N + 1) + i - 1 = n - N + i - 1
      BY <1>1
  <2>2. CASE i = N + 1
      BY <1>1, <2>1, <2>2
  <2>3. CASE i # N + 1
    <3>1. i \in 1..N
        BY <1>1, <2>3
    <3> QED BY <1>1, <1>2, <2>1, <3>1
  <2> QED BY <2>2, <2>3
<1>6. ASSUME NEW i \in (first + 1)..(N + 1)
      PROVE  /\ ev2[i].event_type = "TradeExecuted"
             /\ ev2[i].order_id = c.order_id
             /\ ev2[i].quantity_lots > 0
             /\ ev2[i].remaining = ev2[i - 1].remaining - ev2[i].quantity_lots
  <2>1. CASE i = N + 1
    <3>1. ev2[i - 1] = ev[N]
        BY <1>1, <1>2, <2>1
    <3> QED BY <1>1, <1>2, <2>1, <3>1
  <2>2. CASE i # N + 1
    <3>1. /\ i \in (first + 1)..N /\ i \in 1..N /\ i - 1 \in 1..N
        BY <1>1, <1>2, <2>2
    <3> QED BY <1>1, <1>3, <3>1
  <2> QED BY <2>1, <2>2
<1>7. /\ e.remaining <= c.quantity_lots
      /\ first = N + 1 <=> e.remaining = c.quantity_lots
  <2>1. e.quantity_lots \in Int
      BY DEF Event
  <2> QED BY <1>1, <1>2, <2>1
<1>8. first <= N + 1 /\ first \in 1..(N + 1)
    BY <1>1, <1>2
<1>9. CallEvents(ev2, c, first, n + 1, e.remaining)
    BY <1>1, <1>2, <1>4, <1>5, <1>6, <1>7, <1>8 DEF CallEvents
<1> QED BY <1>9 DEF ev2

\* The terminal event closes the account.
LEMMA TerminalAppended ==
    ASSUME NEW c, NEW ev \in Seq(Event), NEW first, NEW n \in Nat, NEW rest \in Nat,
           CallEvents(ev, c, first, n, rest), c.quantity_lots \in Int,
           NEW e \in Event, e.event_sequence = n,
           e.order_id = c.order_id, e.remaining = rest,
           e.quantity_lots = c.quantity_lots - rest,
           e.event_type = IF rest = 0 THEN "OrderFullyFilled"
                          ELSE IF rest = c.quantity_lots THEN "OrderRested"
                          ELSE "OrderPartiallyFilled",
           NEW orders,
           IF rest = 0 THEN e.order_id \notin DOMAIN orders
           ELSE e.order_id \in DOMAIN orders /\ orders[e.order_id].remaining = rest
    PROVE  Accounted(Append(ev, e), n + 1, orders)
<1> DEFINE N == Len(ev)
           ev2 == Append(ev, e)
           start == IF Len(ev2) > 1 /\ ev2[1].event_type = "OrderCancelled" THEN 2 ELSE 1
<1>1. /\ N \in Nat /\ Len(ev2) = N + 1
      /\ \A i \in 1..N : ev2[i] = ev[i]
      /\ ev2[N + 1] = e
    BY AppendProperties, LenProperties
<1> HIDE DEF ev2
<1>2. /\ first \in 1..2 /\ first <= N
      /\ first = 2 <=> ev[1].event_type = "OrderCancelled"
      /\ \A i \in 1..N : ev[i].event_sequence = n - N + i - 1
      /\ ev[first].event_type = "OrderAccepted"
      /\ ev[first].order_id = c.order_id
      /\ ev[first].quantity_lots = c.quantity_lots
      /\ ev[N].remaining = rest
      /\ first = N <=> rest = c.quantity_lots
    BY DEF CallEvents
<1>3. \A i \in (first + 1)..N :
          /\ ev[i].event_type = "TradeExecuted"
          /\ ev[i].order_id = c.order_id
          /\ ev[i].quantity_lots > 0
          /\ ev[i].remaining = ev[i - 1].remaining - ev[i].quantity_lots
    BY DEF CallEvents
<1>4. ev2[first] = ev[first] /\ ev2[1] = ev[1] /\ Len(ev2) > 1
    BY <1>1, <1>2
<1>5. start = first
  <2>1. first = 1 \/ first = 2
      BY <1>2
  <2> QED BY <1>2, <1>4, <2>1
<1> HIDE DEF start
<1>6. ASSUME NEW i \in 1..(N + 1) PROVE ev2[i].event_sequence = n + 1 - (N + 1) + i - 1
  <2>1. n + 1 - (N + 1) + i - 1 = n - N + i - 1
      BY <1>1
  <2>2. CASE i = N + 1
      BY <1>1, <2>1, <2>2
  <2>3. CASE i # N + 1
    <3>1. i \in 1..N
        BY <1>1, <2>3
    <3> QED BY <1>1, <1>2, <2>1, <3>1
  <2> QED BY <2>2, <2>3
<1>7. ASSUME NEW i \in (first + 1)..N
      PROVE  /\ ev2[i].event_type = "TradeExecuted"
             /\ ev2[i].order_id = ev2[first].order_id
             /\ ev2[i].quantity_lots > 0
             /\ ev2[i].remaining = ev2[i - 1].remaining - ev2[i].quantity_lots
  <2>1. i \in 1..N /\ i - 1 \in 1..N
      BY <1>1, <1>2
  <2> QED BY <1>1, <1>2, <1>3, <1>4, <2>1
<1>8. N + 1 - 1 = N /\ ev2[N] = ev[N] /\ N + 1 > first
    BY <1>1, <1>2
<1>9. e.event_type = IF e.remaining = 0 THEN "OrderFullyFilled"
                     ELSE IF N + 1 = first + 1 THEN "OrderRested"
                     ELSE "OrderPartiallyFilled"
    BY <1>1, <1>2
<1>10. ASSUME NEW i \in (first + 1)..(N + 1) PROVE ev2[i].order_id = ev2[first].order_id
  <2>1. CASE i = N + 1
      BY <1>1, <1>2, <1>4, <2>1
  <2>2. CASE i # N + 1
    <3>1. i \in (first + 1)..N
        BY <1>1, <1>2, <2>2
    <3> QED BY <1>7, <3>1
  <2> QED BY <2>1, <2>2
<1>11. e.quantity_lots = ev2[first].quantity_lots - e.remaining
    BY <1>2, <1>4
<1>12. /\ Len(ev2) > first
       /\ ev2[first].event_type = "OrderAccepted"
       /\ e.remaining = ev2[N + 1 - 1].remaining
    BY <1>1, <1>2, <1>4, <1>8
<1>13. Accounted(ev2, n + 1, orders)
  <2>1. /\ \A i \in 1..Len(ev2) : ev2[i].event_sequence = n + 1 - Len(ev2) + i - 1
        /\ Len(ev2) > start
        /\ ev2[start].event_type = "OrderAccepted"
        /\ ev2[Len(ev2)] = e
      BY <1>1, <1>5, <1>6, <1>12
  <2>2. /\ \A i \in (start + 1)..Len(ev2) : ev2[i].order_id = ev2[start].order_id
        /\ e.remaining = ev2[Len(ev2) - 1].remaining
        /\ e.quantity_lots = ev2[start].quantity_lots - e.remaining
      BY <1>1, <1>5, <1>10, <1>11, <1>12
  <2>3. \A i \in (start + 1)..(Len(ev2) - 1) :
           /\ ev2[i].event_type = "TradeExecuted"
           /\ ev2[i].quantity_lots > 0
           /\ ev2[i].remaining = ev2[i - 1].remaining - ev2[i].quantity_lots
    <3>1. Len(ev2) - 1 = N
        BY <1>1
    <3> QED BY <1>5, <1>7, <3>1
  <2>4. e.event_type = IF e.remaining = 0 THEN "OrderFullyFilled"
                       ELSE IF Len(ev2) = start + 1 THEN "OrderRested"
                       ELSE "OrderPartiallyFilled"
      BY <1>1, <1>5, <1>9
  <2> QED BY <2>1, <2>2, <2>3, <2>4 DEF Accounted, start
<1> QED BY <1>13 DEF ev2

LEMMA ApplyAccounts ==
    ASSUME IInv, NEW c \in Command, Apply(c)
    PROVE  CallInv'
<1>1. c \in Command /\ pc = "idle" /\ next_event_sequence \in Nat
    BY DEF Apply, IInv, TypeOK
<1>2. ASSUME NEW reason, Reject(c, reason) PROVE CallInv'
  <2> DEFINE e == emit_rejection_event(c, next_event_sequence, reason)
  <2>1. /\ events' = <<e>> /\ next_event_sequence' = next_event_sequence + 1
        /\ pc' = "idle"
      BY <1>1, <1>2 DEF Reject, callvars
  <2>2. e.event_type = "OrderRejected" /\ e.event_sequence = next_event_sequence
      BY DEF emit_rejection_event, emit_order_event
  <2> HIDE DEF e
  <2>3. Accounted(<<e>>, next_event_sequence + 1, active_orders')
      BY <1>1, <2>2, SingleEvent
  <2> QED BY <2>1, <2>3 DEF CallInv
<1>3. CASE apply_new_order(c)
  <2> DEFINE reason == validate_new_order(c, active_orders, instrument_id)
             x == emit_rejection_event(c, next_event_sequence, reason)
             e == emit_order_event(c, next_event_sequence, "OrderAccepted",
                                   c.quantity_lots, c.quantity_lots)
  <2>1. next_event_sequence + Len(<<>>) = next_event_sequence
      BY <1>1, EmptySeq
  <2>2. next_event_sequence' = next_event_sequence + 1
      BY <1>3, <2>1 DEF apply_new_order, SubmitNewOrder
  <2>3. CASE reason # "None"
    <3>1. events' = <<x>> /\ pc' = "idle"
        BY <1>1, <1>3, <2>1, <2>3 DEF apply_new_order, SubmitNewOrder, callvars
    <3>2. x.event_type = "OrderRejected" /\ x.event_sequence = next_event_sequence
        BY DEF emit_rejection_event, emit_order_event
    <3> HIDE DEF x
    <3>3. Accounted(<<x>>, next_event_sequence + 1, active_orders')
        BY <1>1, <3>2, SingleEvent
    <3> QED BY <2>2, <3>1, <3>3 DEF CallInv
  <2>4. CASE reason = "None"
    <3>1. /\ events' = <<e>> /\ pc' = "matching" /\ command' = c
          /\ incoming' = c.quantity_lots
        BY <1>3, <2>1, <2>4 DEF apply_new_order, SubmitNewOrder
    <3>2. next_event_sequence + 1 \in Nat
        BY <1>1
    <3> HIDE DEF reason
    <3>3. \E first : CallEvents(<<e>>, c, first, next_event_sequence + 1, c.quantity_lots)
        BY <1>1, <3>2, OrderAccepted
    <3> HIDE DEF e
    <3> QED BY <2>2, <3>1, <3>3 DEF CallInv
  <2> QED BY <2>3, <2>4
<1>4. CASE apply_cancel_order(c)
  <2> DEFINE e == emit_cancel_event(c, next_event_sequence, active_orders[c.order_id])
  <2>1. CASE validate_cancel_order(c, active_orders) # "None"
      BY <1>2, <1>4, <2>1 DEF apply_cancel_order
  <2>2. CASE validate_cancel_order(c, active_orders) = "None"
    <3>1. /\ events' = <<e>> /\ next_event_sequence' = next_event_sequence + 1
          /\ pc' = "idle"
        BY <1>1, <1>4, <2>2 DEF apply_cancel_order, callvars
    <3>2. e.event_type = "OrderCancelled" /\ e.event_sequence = next_event_sequence
        BY DEF emit_cancel_event, emit_order_event
    <3> HIDE DEF e
    <3>3. Accounted(<<e>>, next_event_sequence + 1, active_orders')
        BY <1>1, <3>2, SingleEvent
    <3> QED BY <3>1, <3>3 DEF CallInv
  <2> QED BY <2>1, <2>2
<1>5. CASE apply_replace_order(c)
  <2> DEFINE r == [c EXCEPT !.command_type = "NewOrder",
                            !.order_id = c.replacement_order_id]
             x == emit_cancel_event(c, next_event_sequence, active_orders[c.order_id])
             seq == next_event_sequence + Len(<<x>>)
             e == emit_order_event(r, seq, "OrderAccepted", r.quantity_lots,
                                   r.quantity_lots)
  <2>1. CASE validate_replace_order(c, active_orders) # "None"
      BY <1>2, <1>5, <2>1 DEF apply_replace_order
  <2>2. CASE validate_replace_order(c, active_orders) = "None"
    <3>1. validate_new_order(r, Erase(active_orders, c.order_id), instrument_id) = "None"
        BY <1>1, <2>2, ReplacementAccepted
    <3>2. SubmitNewOrder(r, Erase(active_orders, c.order_id), <<x>>)
        BY <1>5, <2>2 DEF apply_replace_order
    <3>3. x.event_type = "OrderCancelled" /\ x.event_sequence = next_event_sequence
        BY DEF emit_cancel_event, emit_order_event
    <3>4. r \in Command
        BY <1>1 DEF Command, CommandType
    <3> HIDE DEF r, x
    <3>5. seq = next_event_sequence + 1 /\ seq \in Nat /\ seq + 1 \in Nat
          /\ next_event_sequence = seq - 1
        BY <1>1
    <3>6. /\ next_event_sequence' = seq + 1
          /\ events' = Append(<<x>>, e) /\ pc' = "matching" /\ command' = r
          /\ incoming' = r.quantity_lots
        BY <3>1, <3>2 DEF SubmitNewOrder
    <3> HIDE DEF seq
    <3>7. \E first : CallEvents(Append(<<x>>, e), r, first, seq + 1, r.quantity_lots)
        BY <3>3, <3>4, <3>5, OrderAccepted
    <3> HIDE DEF e
    <3> QED BY <3>6, <3>7 DEF CallInv
  <2> QED BY <2>1, <2>2
<1>6. CASE reject_unsupported_command(c)
    BY <1>2, <1>6 DEF reject_unsupported_command
<1> QED BY <1>3, <1>4, <1>5, <1>6 DEF Apply

LEMMA LoopAccounts ==
    ASSUME IInv, CallInv, pc = "matching", Continue
    PROVE  CallInv'
<1>1. /\ command \in Command /\ next_event_sequence \in Nat /\ incoming \in Nat
      /\ next_trade_id \in Nat /\ events \in Seq(Event)
      /\ command.order_id \notin DOMAIN active_orders
    BY DEF IInv, TypeOK, CallOK
<1>2. command.quantity_lots \in Int /\ command.price_ticks \in Int
    BY <1>1 DEF Command
<1>3. PICK first : CallEvents(events, command, first, next_event_sequence, incoming)
    BY DEF CallInv
<1>4. ASSUME NEW type \in EventType, Return(type, command.quantity_lots - incoming, incoming),
             type = IF incoming = 0 THEN "OrderFullyFilled"
                    ELSE IF incoming = command.quantity_lots THEN "OrderRested"
                    ELSE "OrderPartiallyFilled",
             IF incoming = 0 THEN command.order_id \notin DOMAIN active_orders'
             ELSE /\ command.order_id \in DOMAIN active_orders'
                  /\ active_orders'[command.order_id].remaining = incoming
      PROVE  CallInv'
  <2> DEFINE e == emit_order_event(command, next_event_sequence, type,
                                   command.quantity_lots - incoming, incoming)
  <2>1. e \in Event
    <3>1. command.quantity_lots - incoming \in Int /\ incoming \in Int
        BY <1>1, <1>2
    <3> QED BY <1>1, <1>4, <3>1, OrderEventType
  <2>2. /\ events' = Append(events, e) /\ pc' = "idle"
        /\ next_event_sequence' = next_event_sequence + 1
      BY <1>4 DEF Return
  <2>3. /\ e.event_type = type /\ e.event_sequence = next_event_sequence
        /\ e.order_id = command.order_id /\ e.remaining = incoming
        /\ e.quantity_lots = command.quantity_lots - incoming
      BY DEF emit_order_event
  <2> HIDE DEF e
  <2>4. Accounted(Append(events, e), next_event_sequence + 1, active_orders')
      BY <1>1, <1>2, <1>3, <1>4, <2>1, <2>3, TerminalAppended
  <2> QED BY <2>2, <2>4 DEF CallInv
<1>5. CASE FillIncoming
  <2>1. /\ incoming = 0 /\ active_orders' = active_orders
        /\ Return("OrderFullyFilled", command.quantity_lots, 0)
      BY <1>5 DEF FillIncoming
  <2>2. command.quantity_lots - incoming = command.quantity_lots
      BY <1>2, <2>1
  <2> QED BY <1>1, <1>4, <2>1, <2>2 DEF EventType
<1>6. CASE RestIncoming
  <2> DEFINE type == IF incoming # command.quantity_lots THEN "OrderPartiallyFilled"
                                                         ELSE "OrderRested"
             resting == [order_id |-> command.order_id,
                         instrument_id |-> command.instrument_id,
                         side |-> command.side,
                         price_ticks |-> command.price_ticks,
                         remaining |-> incoming]
  <2>1. /\ incoming # 0
        /\ active_orders' = Put(active_orders, command.order_id, resting)
        /\ Return(type, command.quantity_lots - incoming, incoming)
      BY <1>6 DEF RestIncoming, rest_order
  <2>2. /\ command.order_id \in DOMAIN active_orders'
        /\ active_orders'[command.order_id].remaining = incoming
      BY <2>1 DEF Put
  <2>3. type \in EventType
      BY DEF EventType
  <2> QED BY <1>4, <2>1, <2>2, <2>3
<1>7. ASSUME NEW p \in DOMAIN levels[Opposite(command.side)], MatchFront(p)
      PROVE  CallInv'
  <2> DEFINE front == Head(levels[Opposite(command.side)][p])
             quantity == TradeQuantity(front.remaining)
             e == emit_trade_event(command, next_event_sequence, front, next_trade_id, p,
                                   quantity, incoming - quantity)
  <2>1. /\ incoming > 0 /\ events' = Append(events, e)
        /\ incoming' = incoming - quantity /\ pc' = pc /\ command' = command
        /\ next_event_sequence' = next_event_sequence + 1
      BY <1>7, SMTT(30) DEF MatchFront
  <2>2. front \in RestingOrder /\ quantity \in Nat /\ quantity > 0 /\ p \in Int
      BY <2>1, MatchFacts
  <2>3. quantity \in Int /\ incoming - quantity \in Int
      BY <1>1, <2>2
  <2> HIDE DEF front, quantity
  <2>4. e \in Event
      BY <1>1, <2>2, <2>3, TradeEventType
  <2>5. /\ e.event_type = "TradeExecuted" /\ e.event_sequence = next_event_sequence
        /\ e.order_id = command.order_id /\ e.quantity_lots = quantity
        /\ e.remaining = incoming - quantity
      BY DEF emit_trade_event, emit_order_event
  <2> HIDE DEF e
  <2>6. CallEvents(Append(events, e), command, first, next_event_sequence + 1, e.remaining)
      BY <1>1, <1>2, <1>3, <2>2, <2>4, <2>5, TradeAppended
  <2> QED BY <2>1, <2>5, <2>6 DEF CallInv
<1> QED BY <1>5, <1>6, <1>7 DEF Continue

\* The events of every call account for every lot of the order that the call
\* accepted, up to the terminal event, which names what the index then holds.
THEOREM EventsAlwaysAccount == Spec => []EventsAccountForOrder
<1>1. Init => CallInv
    BY DEF Init, CallInv
<1>2. IInv /\ CallInv /\ [Next]_vars => CallInv'
  <2> SUFFICES ASSUME IInv, CallInv, [Next]_vars PROVE CallInv'
      OBVIOUS
  <2>1. CASE \E c \in Commands : Apply(c)
      BY <2>1, ApplyAccounts, CommandsAssumption
  <2>2. CASE pc = "matching" /\ Continue
      BY <2>2, LoopAccounts
  <2>3. CASE UNCHANGED vars
      BY <2>3 DEF vars, CallInv
  <2> QED BY <2>1, <2>2, <2>3 DEF Next
<1>3. IInv /\ CallInv => EventsAccountForOrder
    BY DEF CallInv, Accounted, EventsAccountForOrder
<1> QED BY <1>1, <1>2, <1>3, IInvAlways, PTL DEF Spec
-----------------------------------------------------------------------------
(* The market that the book implements: how the views of the refinement    *)
(* mapping change.                                                         *)

\* The market's picture of the event just emitted.
TradeOf(e) ==
    IF e.event_type = "TradeExecuted"
    THEN [maker |-> e.contra_order_id, price_ticks |-> e.price_ticks,
          quantity_lots |-> e.quantity_lots]
    ELSE Market!NoTrade

\* The last event of a call decides the view of the last trade.
LEMMA TradeViewAfter ==
    ASSUME NEW emitted \in Seq(Event), NEW e \in Event, events' = Append(emitted, e)
    PROVE  TradeView' = TradeOf(e)
<1>1. /\ Len(events') = Len(emitted) + 1 /\ Len(emitted) \in Nat
      /\ events' \in Seq(Event)
      /\ events'[Len(emitted) + 1] = e
    BY AppendProperties, LenProperties
<1>2. events' # <<>> /\ events'[Len(events')] = e
    BY <1>1, EmptySeq
<1> QED BY <1>2 DEF TradeView, TradeOf, Market!NoTrade

\* Taking an order out of the index takes it out of the market.
LEMMA EraseView ==
    ASSUME NEW id, DOMAIN rested_at = DOMAIN active_orders,
           active_orders' = Erase(active_orders, id), rested_at' = Erase(rested_at, id)
    PROVE  RestingView' = Erase(RestingView, id)
    BY DEF RestingView, Erase

\* An index and times of rest that stay leave the resting orders as they are.
LEMMA SameView ==
    ASSUME UNCHANGED <<active_orders, rested_at>>
    PROVE  RestingView' = RestingView
    BY DEF RestingView

\* A resting order of the market, field by field.
LEMMA ViewFields ==
    ASSUME NEW id \in DOMAIN active_orders
    PROVE  /\ id \in DOMAIN RestingView
           /\ RestingView[id].side = active_orders[id].side
           /\ RestingView[id].price_ticks = active_orders[id].price_ticks
           /\ RestingView[id].remaining = active_orders[id].remaining
           /\ RestingView[id].arrival = rested_at[id]
    BY DEF RestingView

\* The order in the matching loop is a taker, and not the absent one.
LEMMA TakerFields ==
    ASSUME IInv, pc = "matching"
    PROVE  /\ TakerView # Market!NoTaker
           /\ TakerView.side = command.side
           /\ TakerView.price_ticks = command.price_ticks
           /\ TakerView.remaining = incoming
           /\ TakerView.order_id = command.order_id
<1>1. pc # "idle" /\ command.side \in Side
    BY DEF IInv, TypeOK
<1>2. /\ TakerView.side = command.side
      /\ TakerView.price_ticks = command.price_ticks
      /\ TakerView.remaining = incoming
      /\ TakerView.order_id = command.order_id
    BY <1>1 DEF TakerView
<1>3. Market!NoTaker.side = "None" /\ "None" \notin Side
    BY DEF Market!NoTaker, Side
<1> QED BY <1>1, <1>2, <1>3

-----------------------------------------------------------------------------
\* The steps.

LEMMA InitRefines == Init => Market!MarketInit
<1> SUFFICES ASSUME Init PROVE Market!MarketInit
    OBVIOUS
<1>1. RestingView = NoEntries
  <2>1. DOMAIN active_orders = {}
      BY DEF Init, NoEntries
  <2> QED BY <2>1 DEF RestingView, NoEntries
<1>2. TakerView = Market!NoTaker /\ TradeView = Market!NoTrade
    BY DEF Init, TakerView, TradeView, Market!NoTaker, Market!NoTrade
<1>3. next_event_sequence \in Nat
    BY SequenceAssumption DEF Init
<1> QED BY <1>1, <1>2, <1>3 DEF Market!MarketInit, Market!NoEntries, NoEntries

LEMMA RejectRefines ==
    ASSUME IInv, pc = "idle", NEW c \in Command, NEW reason \in RejectionReason,
           Reject(c, reason)
    PROVE  Market!Refuse
<1> DEFINE e == emit_rejection_event(c, next_event_sequence, reason)
<1>1. next_event_sequence \in Nat
    BY DEF IInv, TypeOK
<1>2. e \in Event /\ e.event_type = "OrderRejected"
    BY <1>1, RejectionEventType DEF emit_rejection_event, emit_order_event
<1>3. /\ events' = <<e>>
      /\ next_event_sequence' = next_event_sequence + 1
      /\ UNCHANGED <<active_orders, rested_at, pc, command, incoming>>
    BY DEF Reject, bookvars, callvars
<1> HIDE DEF e
<1>4. events' = Append(<<>>, e) /\ <<>> \in Seq(Event)
    BY <1>3
<1>5. TradeView' = Market!NoTrade
    BY <1>2, <1>4, TradeViewAfter DEF TradeOf
<1>6. TakerView' = TakerView /\ TakerView = Market!NoTaker
    BY <1>3 DEF TakerView, Market!NoTaker
<1>7. Market!Tick
    BY <1>1, <1>3 DEF Market!Tick
<1> QED BY <1>3, <1>5, <1>6, <1>7, SameView DEF Market!Refuse

\* An accepted order enters the market, on whatever book it finds.
LEMMA AcceptRefines ==
    ASSUME IInv, pc = "idle", NEW c \in Command, NEW emitted \in Seq(Event),
           SubmitNewOrder(c, active_orders', emitted),
           validate_new_order(c, active_orders', instrument_id) = "None"
    PROVE  Market!Enter
<1> DEFINE seq == next_event_sequence + Len(emitted)
           e == emit_order_event(c, seq, "OrderAccepted", c.quantity_lots, c.quantity_lots)
<1>1. next_event_sequence \in Nat /\ Len(emitted) \in Nat /\ seq \in Nat
    BY LenProperties DEF IInv, TypeOK
<1>2. c.quantity_lots \in Int /\ c.price_ticks \in Int /\ c.order_id \in OrderId
    BY DEF Command
<1>3. e \in Event /\ e.event_type = "OrderAccepted"
    BY <1>1, <1>2, OrderEventType DEF emit_order_event, EventType
<1>4. /\ c.side \in Side
      /\ ~(c.price_ticks <= 0) /\ ~(c.quantity_lots <= 0)
      /\ c.order_id \notin DOMAIN active_orders'
    BY DEF validate_new_order
<1>5. /\ next_event_sequence' = seq + 1
      /\ events' = Append(emitted, e)
      /\ pc' = "matching" /\ command' = c /\ incoming' = c.quantity_lots
    BY DEF SubmitNewOrder
<1> HIDE DEF e, seq
<1>6. TradeView' = Market!NoTrade
    BY <1>3, <1>5, TradeViewAfter DEF TradeOf
<1>7. TakerView = Market!NoTaker
    BY DEF TakerView, Market!NoTaker
<1>8. /\ TakerView'.order_id = c.order_id
      /\ TakerView'.side = c.side
      /\ TakerView'.price_ticks = c.price_ticks
      /\ TakerView'.remaining = c.quantity_lots
    BY <1>5 DEF TakerView
<1>9. TakerView'.order_id \notin DOMAIN RestingView'
    BY <1>4, <1>8 DEF RestingView
<1>10. Market!Tick
    BY <1>1, <1>5 DEF Market!Tick, seq
<1>11. Market!IsTaker(TakerView')
    BY <1>2, <1>4, <1>8 DEF Market!IsTaker, Market!Side, Side
<1> QED BY <1>6, <1>7, <1>9, <1>10, <1>11 DEF Market!Enter

LEMMA NewOrderRefines ==
    ASSUME IInv, pc = "idle", NEW c \in Command, apply_new_order(c)
    PROVE  Market!Submit \/ Market!Refuse
<1> DEFINE reason == validate_new_order(c, active_orders, instrument_id)
<1>1. /\ SubmitNewOrder(c, active_orders, <<>>)
      /\ UNCHANGED <<levels, active_orders, rested_at>>
    BY DEF apply_new_order
<1>2. CASE reason = "None"
  <2>1. /\ SubmitNewOrder(c, active_orders', <<>>)
        /\ validate_new_order(c, active_orders', instrument_id) = "None"
        /\ <<>> \in Seq(Event)
      BY <1>1, <1>2
  <2>2. Market!Enter
      BY <2>1, AcceptRefines
  <2> QED BY <1>1, <2>2, SameView DEF Market!Submit
<1>3. CASE reason # "None"
  <2>1. reason \in RejectionReason
      BY <1>3, ReasonTypes
  <2>2. Reject(c, reason)
    <3>1. next_event_sequence \in Nat
        BY DEF IInv, TypeOK
    <3>2. next_event_sequence + Len(<<>>) = next_event_sequence
        BY <3>1
    <3>3. Append(<<>>, emit_rejection_event(c, next_event_sequence, reason))
            = <<emit_rejection_event(c, next_event_sequence, reason)>>
        OBVIOUS
    <3> HIDE DEF reason
    <3> QED BY <1>1, <1>3, <3>2, <3>3 DEF SubmitNewOrder, Reject, bookvars, callvars, reason
  <2> QED BY <2>1, <2>2, RejectRefines
<1> QED BY <1>2, <1>3

LEMMA CancelRefines ==
    ASSUME IInv, pc = "idle", NEW c \in Command, apply_cancel_order(c)
    PROVE  Market!Cancel \/ Market!Refuse
<1> DEFINE reason == validate_cancel_order(c, active_orders)
           o == active_orders[c.order_id]
           e == emit_cancel_event(c, next_event_sequence, o)
<1>1. CASE reason # "None"
  <2>1. reason \in RejectionReason
      BY <1>1, ReasonTypes
  <2>2. Reject(c, reason)
      BY <1>1 DEF apply_cancel_order
  <2> QED BY <2>1, <2>2, RejectRefines
<1>2. CASE reason = "None"
  <2>1. c.order_id \in DOMAIN active_orders
      BY <1>2 DEF validate_cancel_order
  <2>2. /\ remove_cancelled_order(o)
        /\ events' = <<e>>
        /\ next_event_sequence' = next_event_sequence + 1
        /\ UNCHANGED <<pc, command, incoming>>
      BY <1>2 DEF apply_cancel_order, callvars
  <2>3. next_event_sequence \in Nat /\ o \in RestingOrder /\ o.order_id = c.order_id
      BY <2>1, IndexedOrder DEF IInv, TypeOK
  <2>4. e \in Event /\ e.event_type = "OrderCancelled"
      BY <2>3, CancelEventType DEF emit_cancel_event, emit_order_event
  <2> HIDE DEF e
  <2>5. events' = Append(<<>>, e) /\ <<>> \in Seq(Event)
      BY <2>2
  <2>6. TradeView' = Market!NoTrade
      BY <2>4, <2>5, TradeViewAfter DEF TradeOf
  <2>7. TakerView' = TakerView /\ TakerView = Market!NoTaker
      BY <2>2 DEF TakerView, Market!NoTaker
  <2>8. Market!Tick
      BY <2>2, <2>3 DEF Market!Tick
  <2>9. RestingView' = Erase(RestingView, c.order_id)
    <3>1. DOMAIN rested_at = DOMAIN active_orders
        BY DEF IInv, TypeOK
    <3> QED BY <2>2, <2>3, <3>1, EraseView DEF remove_cancelled_order
  <2>10. c.order_id \in DOMAIN RestingView
      BY <2>1, ViewFields
  <2> QED BY <2>6, <2>7, <2>8, <2>9, <2>10 DEF Market!Cancel, Market!Erase, Erase
<1> QED BY <1>1, <1>2

LEMMA ReplaceRefines ==
    ASSUME IInv, pc = "idle", NEW c \in Command, apply_replace_order(c)
    PROVE  Market!Replace \/ Market!Refuse
<1> DEFINE reason == validate_replace_order(c, active_orders)
           o == active_orders[c.order_id]
           x == emit_cancel_event(c, next_event_sequence, o)
           r == [c EXCEPT !.command_type = "NewOrder", !.order_id = c.replacement_order_id]
<1>1. CASE reason # "None"
  <2>1. reason \in RejectionReason
      BY <1>1, ReasonTypes
  <2>2. Reject(c, reason)
      BY <1>1 DEF apply_replace_order
  <2> QED BY <2>1, <2>2, RejectRefines
<1>2. CASE reason = "None"
  <2>1. c.order_id \in DOMAIN active_orders
      BY <1>2 DEF validate_replace_order
  <2>2. /\ remove_cancelled_order(o)
        /\ SubmitNewOrder(r, Erase(active_orders, c.order_id), <<x>>)
      BY <1>2 DEF apply_replace_order
  <2>3. next_event_sequence \in Nat /\ o \in RestingOrder /\ o.order_id = c.order_id
      BY <2>1, IndexedOrder DEF IInv, TypeOK
  <2>4. /\ active_orders' = Erase(active_orders, c.order_id)
        /\ rested_at' = Erase(rested_at, c.order_id)
      BY <2>2, <2>3 DEF remove_cancelled_order
  <2>5. validate_new_order(r, active_orders', instrument_id) = "None"
      BY <1>2, <2>4, ReplacementAccepted
  <2>6. x \in Event /\ r \in Command
      BY <2>3, CancelEventType DEF Command, CommandType
  <2> HIDE DEF x, r
  <2>7. <<x>> \in Seq(Event)
      BY <2>6
  <2>8. Market!Enter
      BY <2>2, <2>4, <2>5, <2>6, <2>7, AcceptRefines
  <2>9. RestingView' = Erase(RestingView, c.order_id)
    <3>1. DOMAIN rested_at = DOMAIN active_orders
        BY DEF IInv, TypeOK
    <3> QED BY <2>4, <3>1, EraseView
  <2>10. c.order_id \in DOMAIN RestingView
      BY <2>1, ViewFields
  <2> QED BY <2>8, <2>9, <2>10 DEF Market!Replace, Market!Erase, Erase
<1> QED BY <1>1, <1>2

\* A trade of the matching loop is a trade of the market: the front of the best
\* level is the order with priority.
LEMMA MatchRefines ==
    ASSUME IInv, pc = "matching",
           NEW p \in DOMAIN levels[Opposite(command.side)], MatchFront(p)
    PROVE  Market!Trade
<1> DEFINE side == Opposite(command.side)
           front == Head(levels[side][p])
           quantity == TradeQuantity(front.remaining)
           left == [front EXCEPT !.remaining = @ - quantity]
           e == emit_trade_event(command, next_event_sequence, front, next_trade_id, p,
                                 quantity, incoming - quantity)
           maker == front.order_id
<1>1. /\ incoming > 0 /\ events' = Append(events, e)
      /\ incoming' = incoming - quantity
      /\ next_event_sequence' = next_event_sequence + 1
      /\ UNCHANGED <<pc, command>>
      /\ active_orders' = IF left.remaining = 0 THEN Erase(active_orders, maker)
                          ELSE Put(active_orders, maker, left)
      /\ rested_at' = IF left.remaining = 0 THEN Erase(rested_at, maker) ELSE rested_at
    BY Zenon DEF MatchFront
<1>2. /\ front \in RestingOrder /\ quantity \in Nat /\ p \in Int
      /\ maker \in DOMAIN active_orders
      /\ active_orders[maker] = front
      /\ front.side = side /\ front.price_ticks = p
    BY <1>1, MatchFacts, Zenon
<1>3. /\ command \in Command /\ next_event_sequence \in Nat /\ next_trade_id \in Nat
      /\ incoming \in Nat /\ incoming - quantity \in Int /\ quantity \in Int
      /\ events \in Seq(Event) /\ DOMAIN rested_at = DOMAIN active_orders
    BY <1>2 DEF IInv, TypeOK
<1>4. /\ front.remaining \in Int
      /\ left.remaining = front.remaining - quantity
      /\ left.side = front.side /\ left.price_ticks = front.price_ticks
      /\ quantity = IF incoming < front.remaining THEN incoming ELSE front.remaining
    BY <1>2 DEF RestingOrder, TradeQuantity
<1>5. /\ e.event_type = "TradeExecuted" /\ e.contra_order_id = maker
      /\ e.price_ticks = p /\ e.quantity_lots = quantity
    BY DEF emit_trade_event, emit_order_event
<1>6. /\ ~Before(side, command.price_ticks, p)
      /\ \A id \in DOMAIN active_orders \ {maker} :
            active_orders[id].side = side =>
               \/ Before(side, p, active_orders[id].price_ticks)
               \/ p = active_orders[id].price_ticks /\ rested_at[maker] < rested_at[id]
  <2>1. events'[Len(events')] = e
    <3>1. e \in Event
        BY <1>2, <1>3, TradeEventType
    <3> HIDE DEF e
    <3> QED BY <1>1, <1>3, <3>1, AppendProperties
  <2> HIDE DEF e, maker, front
  <2> QED BY <1>5, <2>1, PriorityStep
<1> HIDE DEF front, quantity, left
<1>7. e \in Event
    BY <1>2, <1>3, TradeEventType
<1> HIDE DEF e, maker
<1>8. TradeView' = [maker |-> maker, price_ticks |-> p, quantity_lots |-> quantity]
    BY <1>1, <1>3, <1>5, <1>7, TradeViewAfter DEF TradeOf
<1>9. Market!Tick
    BY <1>1, <1>3 DEF Market!Tick
<1>10. TakerView' = [TakerView EXCEPT !.remaining = @ - quantity]
    BY <1>1 DEF TakerView
<1>11. /\ maker \in DOMAIN RestingView
       /\ RestingView[maker].side = side
       /\ RestingView[maker].price_ticks = p
       /\ RestingView[maker].remaining = front.remaining
       /\ RestingView[maker].arrival = rested_at[maker]
    BY <1>2, ViewFields
<1>12. /\ TakerView # Market!NoTaker
       /\ TakerView.side = command.side
       /\ TakerView.price_ticks = command.price_ticks
       /\ TakerView.remaining = incoming
    BY TakerFields
<1>13. RestingView' = IF RestingView[maker].remaining = quantity
                     THEN Erase(RestingView, maker)
                     ELSE Put(RestingView, maker,
                              [RestingView[maker] EXCEPT !.remaining = @ - quantity])
  <2>1. CASE left.remaining = 0
    <3>1. RestingView[maker].remaining = quantity
        BY <1>3, <1>4, <1>11, <2>1
    <3>2. RestingView' = Erase(RestingView, maker)
        BY <1>1, <1>3, <2>1, EraseView
    <3> QED BY <3>1, <3>2
  <2>2. CASE left.remaining # 0
    <3>1. RestingView[maker].remaining # quantity
        BY <1>3, <1>4, <1>11, <2>2
    <3>2. active_orders' = Put(active_orders, maker, left) /\ rested_at' = rested_at
        BY <1>1, <2>2
    <3>3. /\ DOMAIN active_orders' = DOMAIN active_orders
          /\ active_orders'[maker] = left
          /\ \A id \in DOMAIN active_orders \ {maker} : active_orders'[id] = active_orders[id]
        BY <1>2, <3>2 DEF Put
    <3>4. [RestingView[maker] EXCEPT !.remaining = @ - quantity]
            = [side |-> left.side, price_ticks |-> left.price_ticks,
               remaining |-> left.remaining, arrival |-> rested_at[maker]]
        BY <1>2, <1>4 DEF RestingView
    <3>5. RestingView' = Put(RestingView, maker,
                             [RestingView[maker] EXCEPT !.remaining = @ - quantity])
        BY <1>2, <3>2, <3>3, <3>4 DEF RestingView, Put
    <3> QED BY <3>1, <3>5
  <2> QED BY <2>1, <2>2
<1>14. Market!Marketable(RestingView[maker])
    BY <1>6, <1>11, <1>12 DEF Market!Marketable, Market!Opposite, Opposite, Market!Before, Before
<1>15. ASSUME NEW other \in DOMAIN RestingView \ {maker},
              RestingView[other].side = RestingView[maker].side
       PROVE  Market!HasPriority(RestingView[maker], RestingView[other])
  <2>1. other \in DOMAIN active_orders \ {maker}
      BY DEF RestingView
  <2>2. /\ RestingView[other].side = active_orders[other].side
        /\ RestingView[other].price_ticks = active_orders[other].price_ticks
        /\ RestingView[other].arrival = rested_at[other]
      BY <2>1, ViewFields
  <2> HIDE DEF side
  <2> QED BY <1>6, <1>11, <1>15, <2>1, <2>2 DEF Market!HasPriority, Market!Before, Before
<1>16. quantity = IF TakerView.remaining < RestingView[maker].remaining
                  THEN TakerView.remaining ELSE RestingView[maker].remaining
    BY <1>4, <1>11, <1>12
<1>17. Market!TradeWith(maker, quantity)
    BY <1>8, <1>9, <1>10, <1>11, <1>13 DEF Market!TradeWith, Market!Erase, Market!Put, Erase, Put
<1> HIDE DEF side
<1> QED BY <1>1, <1>11, <1>12, <1>14, <1>15, <1>16, <1>17 DEF Market!Trade

\* What apply_new_order does on its way out, seen from the market.
LEMMA ReturnRefines ==
    ASSUME IInv, pc = "matching",
           NEW type \in EventType \ {"TradeExecuted"}, NEW quantity \in Int,
           NEW remaining \in Int, Return(type, quantity, remaining)
    PROVE  /\ TakerView' = Market!NoTaker
           /\ TradeView' = Market!NoTrade
           /\ Market!Tick
<1> DEFINE e == emit_order_event(command, next_event_sequence, type, quantity, remaining)
<1>1. command \in Command /\ next_event_sequence \in Nat /\ events \in Seq(Event)
    BY DEF IInv, TypeOK
<1>2. e \in Event /\ e.event_type = type
    BY <1>1, OrderEventType DEF emit_order_event
<1>3. /\ events' = Append(events, e)
      /\ next_event_sequence' = next_event_sequence + 1
      /\ pc' = "idle"
    BY DEF Return
<1> HIDE DEF e
<1>4. TradeView' = Market!NoTrade
    BY <1>1, <1>2, <1>3, TradeViewAfter DEF TradeOf
<1>5. TakerView' = Market!NoTaker
    BY <1>3 DEF TakerView, Market!NoTaker
<1> QED BY <1>1, <1>3, <1>4, <1>5 DEF Market!Tick

LEMMA FillRefines ==
    ASSUME IInv, FillIncoming
    PROVE  Market!Fill
<1>1. /\ pc = "matching" /\ incoming = 0
      /\ Return("OrderFullyFilled", command.quantity_lots, 0)
      /\ UNCHANGED <<active_orders, rested_at>>
    BY DEF FillIncoming
<1>2. command.quantity_lots \in Int
    BY <1>1 DEF IInv, TypeOK, Command
<1>3. /\ TakerView' = Market!NoTaker /\ TradeView' = Market!NoTrade /\ Market!Tick
    BY <1>1, <1>2, ReturnRefines DEF EventType
<1>4. TakerView # Market!NoTaker /\ TakerView.remaining = 0
    BY <1>1, TakerFields
<1>5. RestingView' = RestingView
    BY <1>1, SameView
<1> QED BY <1>3, <1>4, <1>5 DEF Market!Fill

\* An order that comes to rest crosses nothing that rests.
LEMMA RestRefines ==
    ASSUME IInv, RestIncoming
    PROVE  Market!Rest
<1> DEFINE r == [order_id |-> command.order_id,
                 instrument_id |-> command.instrument_id,
                 side |-> command.side,
                 price_ticks |-> command.price_ticks,
                 remaining |-> incoming]
<1>1. /\ pc = "matching" /\ incoming # 0 /\ LoopEnds
      /\ active_orders' = Put(active_orders, command.order_id, r)
      /\ rested_at' = Put(rested_at, command.order_id, next_event_sequence)
      /\ \E type \in EventType \ {"TradeExecuted"} :
            Return(type, command.quantity_lots - incoming, incoming)
    BY DEF RestIncoming, rest_order, EventType
<1>2. /\ incoming \in Nat /\ command.quantity_lots \in Int
      /\ DOMAIN rested_at = DOMAIN active_orders
      /\ command.order_id \notin DOMAIN active_orders
      /\ command.side \in Side
    BY <1>1 DEF IInv, TypeOK, Command, CallOK
<1>3. /\ TakerView' = Market!NoTaker /\ TradeView' = Market!NoTrade /\ Market!Tick
  <2>1. PICK type \in EventType \ {"TradeExecuted"} :
              Return(type, command.quantity_lots - incoming, incoming)
      BY <1>1
  <2>2. command.quantity_lots - incoming \in Int /\ incoming \in Int
      BY <1>2
  <2> QED BY <1>1, <2>1, <2>2, ReturnRefines
<1>4. /\ TakerView # Market!NoTaker
      /\ TakerView.side = command.side
      /\ TakerView.price_ticks = command.price_ticks
      /\ TakerView.remaining = incoming
      /\ TakerView.order_id = command.order_id
    BY <1>1, TakerFields
<1>5. incoming > 0
    BY <1>1, <1>2
<1>6. ASSUME NEW id \in DOMAIN RestingView PROVE ~Market!Marketable(RestingView[id])
  <2>1. /\ id \in DOMAIN active_orders
        /\ RestingView[id].side = active_orders[id].side
        /\ RestingView[id].price_ticks = active_orders[id].price_ticks
      BY ViewFields DEF RestingView
  <2>2. CASE active_orders[id].side = Opposite(command.side)
    <3>1. active_orders[id].price_ticks \in DOMAIN levels[Opposite(command.side)]
        BY <2>1, <2>2, IndexedOrder DEF IInv, TypeOK
    <3>2. Before(Opposite(command.side), command.price_ticks, active_orders[id].price_ticks)
        BY <1>1, <3>1, LoopEndsUncrossed
    <3> QED BY <1>4, <2>1, <2>2, <3>2
            DEF Market!Marketable, Market!Before, Before, Market!Opposite, Opposite
  <2>3. CASE active_orders[id].side # Opposite(command.side)
      BY <1>4, <2>1, <2>3 DEF Market!Marketable, Market!Opposite, Opposite
  <2> QED BY <2>2, <2>3
<1>7. RestingView' = Put(RestingView, command.order_id,
                         [side |-> command.side, price_ticks |-> command.price_ticks,
                          remaining |-> incoming, arrival |-> next_event_sequence])
  <2>1. /\ DOMAIN active_orders' = DOMAIN active_orders \cup {command.order_id}
        /\ active_orders'[command.order_id] = r
        /\ rested_at'[command.order_id] = next_event_sequence
        /\ \A id \in DOMAIN active_orders \ {command.order_id} :
              active_orders'[id] = active_orders[id] /\ rested_at'[id] = rested_at[id]
      BY <1>1, <1>2 DEF Put
  <2>2. /\ r.side = command.side /\ r.price_ticks = command.price_ticks
        /\ r.remaining = incoming
      OBVIOUS
  <2> HIDE DEF r
  <2> QED BY <1>2, <2>1, <2>2 DEF RestingView, Put
<1> QED BY <1>3, <1>4, <1>5, <1>6, <1>7 DEF Market!Rest, Market!Put, Put

LEMMA StepRefines ==
    ASSUME IInv, [Next]_vars
    PROVE  [Market!MarketNext]_(Market!marketvars)
<1>1. CASE \E c \in Commands : Apply(c)
  <2>1. PICK c \in Commands : Apply(c)
      BY <1>1
  <2>2. c \in Command /\ pc = "idle" /\ "UnsupportedCommand" \in RejectionReason
      BY <2>1, CommandsAssumption DEF Apply, RejectionReason
  <2>3. CASE apply_new_order(c)
      BY <2>2, <2>3, NewOrderRefines DEF Market!MarketNext
  <2>4. CASE apply_cancel_order(c)
      BY <2>2, <2>4, CancelRefines DEF Market!MarketNext
  <2>5. CASE apply_replace_order(c)
      BY <2>2, <2>5, ReplaceRefines DEF Market!MarketNext
  <2>6. CASE reject_unsupported_command(c)
      BY <2>2, <2>6, RejectRefines DEF Market!MarketNext, reject_unsupported_command
  <2> QED BY <2>1, <2>3, <2>4, <2>5, <2>6 DEF Apply
<1>2. CASE pc = "matching" /\ Continue
  <2>1. CASE \E p \in DOMAIN levels[Opposite(command.side)] : MatchFront(p)
      BY <1>2, <2>1, MatchRefines DEF Market!MarketNext
  <2>2. CASE FillIncoming
      BY <2>2, FillRefines DEF Market!MarketNext
  <2>3. CASE RestIncoming
      BY <2>3, RestRefines DEF Market!MarketNext
  <2> QED BY <1>2, <2>1, <2>2, <2>3 DEF Continue
<1>3. CASE UNCHANGED vars
  <2>1. UNCHANGED <<active_orders, rested_at, pc, command, incoming, events,
                    next_event_sequence>>
      BY <1>3 DEF vars
  <2> QED BY <2>1, SameView DEF Market!marketvars, TakerView, TradeView
<1> QED BY <1>1, <1>2, <1>3 DEF Next

\* InstrumentEngine::apply implements a market with strict price-time priority.
THEOREM BookRefinesMarket == Spec => ImplementsPriceTimePriority
<1>1. IInv /\ [Next]_vars => [Market!MarketNext]_(Market!marketvars)
    BY StepRefines
<1> QED BY <1>1, InitRefines, IInvAlways, PTL
        DEF Spec, ImplementsPriceTimePriority, Market!MarketSpec
-----------------------------------------------------------------------------
(* The engine is a function of its view and its commands.                  *)

\* A view, field by field.
ViewOf(i, s, t, o, r, p, c, n, ev) ==
    [instrument |-> i, sequence |-> s, trade |-> t, orders |-> o, rested |-> r,
     pc |-> p, command |-> c, incoming |-> n, events |-> ev]

LEMMA ViewFieldsOf ==
    ASSUME NEW i, NEW s, NEW t, NEW o, NEW r, NEW p, NEW c, NEW n, NEW ev
    PROVE  LET v == ViewOf(i, s, t, o, r, p, c, n, ev)
           IN /\ v.instrument = i /\ v.sequence = s /\ v.trade = t /\ v.orders = o
              /\ v.rested = r /\ v.pc = p /\ v.command = c /\ v.incoming = n
              /\ v.events = ev
BY DEF ViewOf

LEMMA ViewWithEvent ==
    ASSUME NEW i, NEW s, NEW t, NEW o, NEW r, NEW p, NEW c, NEW n, NEW ev, NEW e
    PROVE  WithEvent(ViewOf(i, s, t, o, r, p, c, n, ev), e)
             = ViewOf(i, s + 1, t, o, r, p, c, n, Append(ev, e))
<1> DEFINE v == ViewOf(i, s, t, o, r, p, c, n, ev)
           x == Append(ev, e)
           s2 == s + 1
<1>0. v.sequence + 1 = s2 /\ Append(v.events, e) = x
    BY DEF ViewOf
<1>2. [v EXCEPT !.sequence = s2] = ViewOf(i, s2, t, o, r, p, c, n, ev)
    BY DEF ViewOf
<1>3. [ViewOf(i, s2, t, o, r, p, c, n, ev) EXCEPT !.events = x]
        = ViewOf(i, s2, t, o, r, p, c, n, x)
    BY DEF ViewOf
<1> HIDE DEF v, s2, x
<1>1. WithEvent(v, e) = [v EXCEPT !.sequence = s2, !.events = x]
    BY <1>0 DEF WithEvent
<1>4. [v EXCEPT !.sequence = s2, !.events = x]
        = [[v EXCEPT !.sequence = s2] EXCEPT !.events = x]
    OBVIOUS
<1>5. WithEvent(v, e) = ViewOf(i, s2, t, o, r, p, c, n, x)
    BY <1>1, <1>2, <1>3, <1>4
<1> QED BY <1>5 DEF v, s2, x

LEMMA ViewWithout ==
    ASSUME NEW i, NEW s, NEW t, NEW o, NEW r, NEW p, NEW c, NEW n, NEW ev, NEW id
    PROVE  Without(ViewOf(i, s, t, o, r, p, c, n, ev), id)
             = ViewOf(i, s, t, Erase(o, id), Erase(r, id), p, c, n, ev)
<1> DEFINE v == ViewOf(i, s, t, o, r, p, c, n, ev)
           x == Erase(o, id)
           y == Erase(r, id)
<1>0. Erase(v.orders, id) = x /\ Erase(v.rested, id) = y
    BY DEF ViewOf
<1>2. [v EXCEPT !.orders = x] = ViewOf(i, s, t, x, r, p, c, n, ev)
    BY DEF ViewOf
<1>3. [ViewOf(i, s, t, x, r, p, c, n, ev) EXCEPT !.rested = y]
        = ViewOf(i, s, t, x, y, p, c, n, ev)
    BY DEF ViewOf
<1> HIDE DEF v, x, y
<1>1. Without(v, id) = [v EXCEPT !.orders = x, !.rested = y]
    BY <1>0 DEF Without
<1>4. [v EXCEPT !.orders = x, !.rested = y]
        = [[v EXCEPT !.orders = x] EXCEPT !.rested = y]
    OBVIOUS
<1>5. Without(v, id) = ViewOf(i, s, t, x, y, p, c, n, ev)
    BY <1>1, <1>2, <1>3, <1>4
<1> QED BY <1>5 DEF v, x, y

LEMMA ViewInLoop ==
    ASSUME NEW i, NEW s, NEW t, NEW o, NEW r, NEW p, NEW c, NEW n, NEW ev, NEW d
    PROVE  InLoop(ViewOf(i, s, t, o, r, p, c, n, ev), d)
             = ViewOf(IF i = NoInstrument THEN d.instrument_id ELSE i, s, t, o, r,
                      "matching", d, d.quantity_lots, ev)
<1> DEFINE v == ViewOf(i, s, t, o, r, p, c, n, ev)
           x == IF i = NoInstrument THEN d.instrument_id ELSE i
           y == "matching"
           m == d.quantity_lots
<1>1. v.instrument = i
    BY DEF ViewOf
<1>2. InLoop(v, d) = [v EXCEPT !.instrument = x, !.pc = y, !.command = d, !.incoming = m]
    BY <1>1 DEF InLoop
<1> HIDE DEF x, y, m
<1>3. [v EXCEPT !.instrument = x] = ViewOf(x, s, t, o, r, p, c, n, ev)
    BY DEF ViewOf
<1>4. [ViewOf(x, s, t, o, r, p, c, n, ev) EXCEPT !.pc = y]
        = ViewOf(x, s, t, o, r, y, c, n, ev)
    BY DEF ViewOf
<1>5. [ViewOf(x, s, t, o, r, y, c, n, ev) EXCEPT !.command = d]
        = ViewOf(x, s, t, o, r, y, d, n, ev)
    BY DEF ViewOf
<1>6. [ViewOf(x, s, t, o, r, y, d, n, ev) EXCEPT !.incoming = m]
        = ViewOf(x, s, t, o, r, y, d, m, ev)
    BY DEF ViewOf
<1> HIDE DEF v
<1>7. [v EXCEPT !.instrument = x, !.pc = y, !.command = d, !.incoming = m]
        = [[[[v EXCEPT !.instrument = x] EXCEPT !.pc = y] EXCEPT !.command = d]
             EXCEPT !.incoming = m]
    OBVIOUS
<1>8. InLoop(v, d) = ViewOf(x, s, t, o, r, y, d, m, ev)
    BY <1>2, <1>3, <1>4, <1>5, <1>6, <1>7
<1> QED BY <1>8 DEF v, x, y, m

LEMMA ViewOutOfLoop ==
    ASSUME NEW i, NEW s, NEW t, NEW o, NEW r, NEW p, NEW c, NEW n, NEW ev
    PROVE  OutOfLoop(ViewOf(i, s, t, o, r, p, c, n, ev))
             = ViewOf(i, s, t, o, r, "idle", NoCommand, 0, ev)
<1> DEFINE v == ViewOf(i, s, t, o, r, p, c, n, ev)
           x == "idle"
           m == 0
<1>1. OutOfLoop(v) = [v EXCEPT !.pc = x, !.command = NoCommand, !.incoming = m]
    BY DEF OutOfLoop
<1> HIDE DEF x, m
<1>2. [v EXCEPT !.pc = x] = ViewOf(i, s, t, o, r, x, c, n, ev)
    BY DEF ViewOf
<1>3. [ViewOf(i, s, t, o, r, x, c, n, ev) EXCEPT !.command = NoCommand]
        = ViewOf(i, s, t, o, r, x, NoCommand, n, ev)
    BY DEF ViewOf
<1>4. [ViewOf(i, s, t, o, r, x, NoCommand, n, ev) EXCEPT !.incoming = m]
        = ViewOf(i, s, t, o, r, x, NoCommand, m, ev)
    BY DEF ViewOf
<1> HIDE DEF v
<1>5. [v EXCEPT !.pc = x, !.command = NoCommand, !.incoming = m]
        = [[[v EXCEPT !.pc = x] EXCEPT !.command = NoCommand] EXCEPT !.incoming = m]
    OBVIOUS
<1>6. OutOfLoop(v) = ViewOf(i, s, t, o, r, x, NoCommand, m, ev)
    BY <1>1, <1>2, <1>3, <1>4, <1>5
<1> QED BY <1>6 DEF v, x, m

LEMMA ViewLess ==
    ASSUME NEW i, NEW s, NEW t, NEW o, NEW r, NEW p, NEW c, NEW n, NEW ev, NEW q
    PROVE  Less(ViewOf(i, s, t, o, r, p, c, n, ev), q)
             = ViewOf(i, s, t + 1, o, r, p, c, n - q, ev)
<1> DEFINE v == ViewOf(i, s, t, o, r, p, c, n, ev)
           x == n - q
           y == t + 1
<1>1. v.incoming = n /\ v.trade = t
    BY DEF ViewOf
<1>2. Less(v, q) = [v EXCEPT !.incoming = x, !.trade = y]
    BY <1>1 DEF Less
<1> HIDE DEF x, y
<1>3. [v EXCEPT !.incoming = x] = ViewOf(i, s, t, o, r, p, c, x, ev)
    BY DEF ViewOf
<1>4. [ViewOf(i, s, t, o, r, p, c, x, ev) EXCEPT !.trade = y]
        = ViewOf(i, s, y, o, r, p, c, x, ev)
    BY DEF ViewOf
<1> HIDE DEF v
<1>5. [v EXCEPT !.incoming = x, !.trade = y]
        = [[v EXCEPT !.incoming = x] EXCEPT !.trade = y]
    OBVIOUS
<1>6. Less(v, q) = ViewOf(i, s, y, o, r, p, c, x, ev)
    BY <1>2, <1>3, <1>4, <1>5
<1> QED BY <1>6 DEF v, x, y

LEMMA ViewWithOrder ==
    ASSUME NEW i, NEW s, NEW t, NEW o, NEW r, NEW p, NEW c, NEW n, NEW ev,
           NEW id, NEW resting
    PROVE  WithOrder(ViewOf(i, s, t, o, r, p, c, n, ev), id, resting)
             = ViewOf(i, s, t, Put(o, id, resting), r, p, c, n, ev)
<1> DEFINE v == ViewOf(i, s, t, o, r, p, c, n, ev)
           x == Put(o, id, resting)
<1>1. v.orders = o
    BY DEF ViewOf
<1>2. WithOrder(v, id, resting) = [v EXCEPT !.orders = x]
    BY <1>1 DEF WithOrder
<1> HIDE DEF x
<1>3. [v EXCEPT !.orders = x] = ViewOf(i, s, t, x, r, p, c, n, ev)
    BY DEF ViewOf
<1> HIDE DEF v
<1>4. WithOrder(v, id, resting) = ViewOf(i, s, t, x, r, p, c, n, ev)
    BY <1>2, <1>3
<1> QED BY <1>4 DEF v, x

LEMMA ViewAtRest ==
    ASSUME NEW i, NEW s, NEW t, NEW o, NEW r, NEW p, NEW c, NEW n, NEW ev,
           NEW id, NEW resting
    PROVE  AtRest(ViewOf(i, s, t, o, r, p, c, n, ev), id, resting)
             = ViewOf(i, s, t, Put(o, id, resting), Put(r, id, s), p, c, n, ev)
<1> DEFINE v == ViewOf(i, s, t, o, r, p, c, n, ev)
           x == Put(o, id, resting)
           y == Put(r, id, s)
<1>1. v.orders = o /\ v.rested = r /\ v.sequence = s
    BY DEF ViewOf
<1>2. AtRest(v, id, resting) = [v EXCEPT !.orders = x, !.rested = y]
    BY <1>1 DEF AtRest
<1> HIDE DEF x, y
<1>3. [v EXCEPT !.orders = x] = ViewOf(i, s, t, x, r, p, c, n, ev)
    BY DEF ViewOf
<1>4. [ViewOf(i, s, t, x, r, p, c, n, ev) EXCEPT !.rested = y]
        = ViewOf(i, s, t, x, y, p, c, n, ev)
    BY DEF ViewOf
<1> HIDE DEF v
<1>5. [v EXCEPT !.orders = x, !.rested = y]
        = [[v EXCEPT !.orders = x] EXCEPT !.rested = y]
    OBVIOUS
<1>6. AtRest(v, id, resting) = ViewOf(i, s, t, x, y, p, c, n, ev)
    BY <1>2, <1>3, <1>4, <1>5
<1> QED BY <1>6 DEF v, x, y

LEMMA ViewIs ==
    /\ View = ViewOf(instrument_id, next_event_sequence, next_trade_id, active_orders,
                     rested_at, pc, command, incoming, events)
    /\ View' = ViewOf(instrument_id', next_event_sequence', next_trade_id',
                      active_orders', rested_at', pc', command', incoming', events')
BY DEF View, ViewOf

\* The view of a call that has emitted some events and left an index.
ViewAfter(ac, st, emitted) ==
    ViewOf(instrument_id, next_event_sequence + Len(emitted), next_trade_id, ac, st,
           pc, command, incoming, emitted)

LEMMA EmptySum ==
    ASSUME IInv
    PROVE  next_event_sequence + Len(<<>>) = next_event_sequence
BY DEF IInv, TypeOK

LEMMA EmptiedView ==
    ASSUME IInv
    PROVE  [View EXCEPT !.events = <<>>] = ViewAfter(active_orders, rested_at, <<>>)
BY EmptySum DEF View, ViewAfter, ViewOf

LEMMA RejectIsFunction ==
    ASSUME IInv, NEW c, NEW reason, Reject(c, reason)
    PROVE  View' = Rejected(ViewAfter(active_orders, rested_at, <<>>), c, reason)
<1> DEFINE v == ViewAfter(active_orders, rested_at, <<>>)
           e == emit_rejection_event(c, next_event_sequence, reason)
<1>1. next_event_sequence \in Nat /\ Len(<<>>) = 0
    BY DEF IInv, TypeOK
<1>2. /\ events' = <<e>> /\ next_event_sequence' = next_event_sequence + 1
      /\ UNCHANGED <<instrument_id, next_trade_id, active_orders, rested_at, pc,
                     command, incoming>>
    BY DEF Reject, bookvars, callvars
<1>3. v.sequence = next_event_sequence
    BY <1>1, ViewFieldsOf DEF ViewAfter
<1> HIDE DEF e
<1>4. View' = WithEvent(v, e)
  <2>1. events' = Append(<<>>, e)
      BY <1>2
  <2>2. View' = ViewOf(instrument_id, next_event_sequence + 1, next_trade_id,
                       active_orders, rested_at, pc, command, incoming, events')
      BY <1>2, ViewIs
  <2> DEFINE none == <<>>
  <2>3. v = ViewOf(instrument_id, next_event_sequence, next_trade_id, active_orders,
                   rested_at, pc, command, incoming, none)
      BY EmptySum DEF ViewAfter
  <2>4. events' = Append(none, e)
      BY <2>1
  <2> HIDE DEF none
  <2>5. WithEvent(v, e)
          = ViewOf(instrument_id, next_event_sequence + 1, next_trade_id, active_orders,
                   rested_at, pc, command, incoming, Append(none, e))
      BY <2>3, ViewWithEvent
  <2> QED BY <2>2, <2>4, <2>5
<1> QED BY <1>3, <1>4 DEF Rejected, e

\* What apply_new_order does after the events emitted so far in the call.
LEMMA SubmitIsFunction ==
    ASSUME NEW c, NEW ac, NEW emitted, SubmitNewOrder(c, ac, emitted),
           active_orders' = ac
    PROVE  View' = Submitted(ViewAfter(ac, rested_at', emitted), c)
<1> DEFINE v == ViewAfter(ac, rested_at', emitted)
           seq == next_event_sequence + Len(emitted)
           reason == validate_new_order(c, ac, instrument_id)
           refused == emit_rejection_event(c, seq, reason)
           accepted == emit_order_event(c, seq, "OrderAccepted", c.quantity_lots,
                                        c.quantity_lots)
<1>1. /\ v.sequence = seq /\ v.orders = ac /\ v.instrument = instrument_id
    BY ViewFieldsOf DEF ViewAfter
<1>2. next_event_sequence' = seq + 1 /\ next_trade_id' = next_trade_id
    BY DEF SubmitNewOrder
<1>3. CASE reason # "None"
  <2>1. /\ events' = Append(emitted, refused)
        /\ UNCHANGED <<instrument_id, pc, command, incoming>>
      BY <1>3 DEF SubmitNewOrder, callvars
  <2>2. Submitted(v, c) = WithEvent(v, refused)
      BY <1>1, <1>3 DEF Submitted, Rejected
  <2> HIDE DEF refused, reason
  <2>3. View' = WithEvent(v, refused)
      BY <1>2, <2>1, ViewIs, ViewWithEvent DEF ViewAfter
  <2> QED BY <2>2, <2>3
<1>4. CASE reason = "None"
  <2>1. /\ instrument_id' = IF instrument_id = NoInstrument
                            THEN c.instrument_id ELSE instrument_id
        /\ events' = Append(emitted, accepted)
        /\ pc' = "matching" /\ command' = c /\ incoming' = c.quantity_lots
      BY <1>4 DEF SubmitNewOrder
  <2>2. Submitted(v, c) = InLoop(WithEvent(v, accepted), c)
      BY <1>1, <1>4 DEF Submitted
  <2>3. WithEvent(v, accepted)
          = ViewOf(instrument_id, seq + 1, next_trade_id, ac, rested_at', pc, command,
                   incoming, events')
      BY <2>1, ViewWithEvent DEF ViewAfter
  <2>4. Submitted(v, c) = ViewOf(instrument_id', seq + 1, next_trade_id, ac, rested_at',
                                 "matching", c, c.quantity_lots, events')
      BY <2>1, <2>2, <2>3, ViewInLoop
  <2>5. View' = ViewOf(instrument_id', seq + 1, next_trade_id, ac, rested_at',
                       "matching", c, c.quantity_lots, events')
      BY <1>2, <2>1, ViewIs
  <2> QED BY <2>4, <2>5
<1> QED BY <1>3, <1>4

\* The first event of a cancel, or of a replace, and the index behind it.
LEMMA CancelIsFunction ==
    ASSUME IInv, NEW c, c.order_id \in DOMAIN active_orders,
           remove_cancelled_order(active_orders[c.order_id])
    PROVE  LET e == emit_cancel_event(c, next_event_sequence, active_orders[c.order_id])
           IN /\ active_orders' = Erase(active_orders, c.order_id)
              /\ Cancelled(ViewAfter(active_orders, rested_at, <<>>), c)
                    = ViewAfter(active_orders', rested_at', <<e>>)
<1> DEFINE v == ViewAfter(active_orders, rested_at, <<>>)
           e == emit_cancel_event(c, next_event_sequence, active_orders[c.order_id])
<1>1. next_event_sequence \in Nat /\ Len(<<>>) = 0
    BY DEF IInv, TypeOK
<1>2. active_orders[c.order_id].order_id = c.order_id
    BY <1>1, IndexedOrder DEF IInv
<1>3. /\ active_orders' = Erase(active_orders, c.order_id)
      /\ rested_at' = Erase(rested_at, c.order_id)
    BY <1>2 DEF remove_cancelled_order
<1>4. v.sequence = next_event_sequence /\ v.orders = active_orders
    BY <1>1, ViewFieldsOf DEF ViewAfter
<1>5. Cancelled(v, c) = WithEvent(Without(v, c.order_id), e)
    BY <1>4 DEF Cancelled
<1> HIDE DEF e
<1>6. Append(<<>>, e) = <<e>> /\ Len(<<e>>) = 1
    OBVIOUS
<1>7. WithEvent(Without(v, c.order_id), e)
        = ViewAfter(Erase(active_orders, c.order_id), Erase(rested_at, c.order_id), <<e>>)
  <2> DEFINE ac == Erase(active_orders, c.order_id)
             st == Erase(rested_at, c.order_id)
             none == <<>>
  <2>1. v = ViewOf(instrument_id, next_event_sequence, next_trade_id, active_orders,
                   rested_at, pc, command, incoming, none)
      BY EmptySum DEF ViewAfter
  <2>2. Append(none, e) = <<e>>
      BY <1>6
  <2> HIDE DEF none
  <2>3. Without(v, c.order_id)
          = ViewOf(instrument_id, next_event_sequence, next_trade_id, ac, st, pc,
                   command, incoming, none)
      BY <2>1, ViewWithout
  <2>4. WithEvent(Without(v, c.order_id), e)
          = ViewOf(instrument_id, next_event_sequence + 1, next_trade_id, ac, st, pc,
                   command, incoming, Append(none, e))
      BY <2>3, ViewWithEvent
  <2> QED BY <1>6, <2>2, <2>4 DEF ViewAfter
<1> QED BY <1>3, <1>5, <1>7 DEF e

LEMMA CallIsFunction ==
    ASSUME IInv, NEW c \in Command, Apply(c)
    PROVE  View' = Called(View, c)
<1> DEFINE v == ViewAfter(active_orders, rested_at, <<>>)
           cancel == validate_cancel_order(c, active_orders)
           replace == validate_replace_order(c, active_orders)
           resting == active_orders[c.order_id]
           e == emit_cancel_event(c, next_event_sequence, resting)
           r == [c EXCEPT !.command_type = "NewOrder",
                          !.order_id = c.replacement_order_id]
<1>1. /\ [View EXCEPT !.events = <<>>] = v /\ v.orders = active_orders
      /\ next_event_sequence \in Nat /\ Len(<<>>) = 0
    BY EmptiedView, ViewFieldsOf DEF ViewAfter, IInv, TypeOK
<1>2. CASE c.command_type = "NewOrder"
  <2>1. apply_new_order(c)
      BY <1>2 DEF Apply, CommandType
  <2>2. View' = Submitted(ViewAfter(active_orders, rested_at', <<>>), c)
      BY <2>1, SubmitIsFunction DEF apply_new_order
  <2>3. rested_at' = rested_at
      BY <2>1 DEF apply_new_order
  <2> QED BY <1>1, <1>2, <2>2, <2>3 DEF Called
<1>3. CASE c.command_type = "CancelOrder"
  <2>1. apply_cancel_order(c)
      BY <1>3 DEF Apply, CommandType
  <2>2. CASE cancel # "None"
    <3>1. Reject(c, cancel)
        BY <2>1, <2>2 DEF apply_cancel_order
    <3>2. View' = Rejected(v, c, cancel)
        BY <3>1, RejectIsFunction
    <3>3. Called(View, c) = Rejected(v, c, cancel)
        BY <1>1, <1>3, <2>2 DEF Called
    <3> QED BY <3>2, <3>3
  <2>3. CASE cancel = "None"
    <3>1. /\ remove_cancelled_order(resting) /\ events' = <<e>>
          /\ next_event_sequence' = next_event_sequence + 1
          /\ UNCHANGED <<instrument_id, next_trade_id, pc, command, incoming>>
        BY <2>1, <2>3 DEF apply_cancel_order, callvars
    <3>2. c.order_id \in DOMAIN active_orders
        BY <1>3, <2>3 DEF validate_cancel_order
    <3>3. Cancelled(v, c) = ViewAfter(active_orders', rested_at', <<e>>)
        BY <3>1, <3>2, CancelIsFunction
    <3>4. Called(View, c) = Cancelled(v, c)
        BY <1>1, <1>3, <2>3 DEF Called
    <3> HIDE DEF e
    <3>5. Len(<<e>>) = 1
        OBVIOUS
    <3>6. View' = ViewAfter(active_orders', rested_at', <<e>>)
        BY <3>1, <3>5, ViewIs DEF ViewAfter
    <3> QED BY <3>3, <3>4, <3>6
  <2> QED BY <2>2, <2>3
<1>4. CASE c.command_type = "ReplaceOrder"
  <2>1. apply_replace_order(c)
      BY <1>4 DEF Apply, CommandType
  <2>2. CASE replace # "None"
    <3>1. Reject(c, replace)
        BY <2>1, <2>2 DEF apply_replace_order
    <3>2. View' = Rejected(v, c, replace)
        BY <3>1, RejectIsFunction
    <3>3. Called(View, c) = Rejected(v, c, replace)
        BY <1>1, <1>4, <2>2 DEF Called
    <3> QED BY <3>2, <3>3
  <2>3. CASE replace = "None"
    <3>1. /\ remove_cancelled_order(resting)
          /\ SubmitNewOrder(r, Erase(active_orders, c.order_id), <<e>>)
        BY <2>1, <2>3 DEF apply_replace_order
    <3>2. c.order_id \in DOMAIN active_orders
        BY <1>4, <2>3 DEF validate_replace_order
    <3>3. /\ active_orders' = Erase(active_orders, c.order_id)
          /\ Cancelled(v, c) = ViewAfter(active_orders', rested_at', <<e>>)
        BY <3>1, <3>2, CancelIsFunction
    <3>4. Called(View, c) = Submitted(Cancelled(v, c), r)
        BY <1>1, <1>4, <2>3 DEF Called, Replaced
    <3> HIDE DEF e, r
    <3>5. View' = Submitted(ViewAfter(active_orders', rested_at', <<e>>), r)
        BY <3>1, <3>3, SubmitIsFunction
    <3> QED BY <3>3, <3>4, <3>5
  <2> QED BY <2>2, <2>3
<1>5. CASE c.command_type \notin CommandType
  <2>1. Reject(c, "UnsupportedCommand")
      BY <1>5 DEF Apply, reject_unsupported_command, CommandType
  <2>2. View' = Rejected(v, c, "UnsupportedCommand")
      BY <2>1, RejectIsFunction
  <2>3. Called(View, c) = Rejected(v, c, "UnsupportedCommand")
      BY <1>1, <1>5 DEF Called, CommandType
  <2> QED BY <2>2, <2>3
<1> QED BY <1>2, <1>3, <1>4, <1>5 DEF CommandType

\* The fields of the view, and what a return makes of one.
LEMMA ViewHas ==
    /\ View.instrument = instrument_id /\ View.sequence = next_event_sequence
    /\ View.trade = next_trade_id /\ View.orders = active_orders
    /\ View.rested = rested_at /\ View.pc = pc /\ View.command = command
    /\ View.incoming = incoming /\ View.events = events
BY ViewIs, ViewFieldsOf

LEMMA ReturnIsFunction ==
    ASSUME NEW type, NEW quantity, NEW remaining, Return(type, quantity, remaining)
    PROVE  View' = Returned(ViewOf(instrument_id, next_event_sequence, next_trade_id,
                                   active_orders', rested_at', pc, command, incoming,
                                   events),
                            type, quantity, remaining)
<1> DEFINE v == ViewOf(instrument_id, next_event_sequence, next_trade_id,
                       active_orders', rested_at', pc, command, incoming, events)
           e == emit_order_event(command, next_event_sequence, type, quantity, remaining)
<1>1. /\ events' = Append(events, e)
      /\ next_event_sequence' = next_event_sequence + 1
      /\ pc' = "idle" /\ command' = NoCommand /\ incoming' = 0
      /\ UNCHANGED <<instrument_id, next_trade_id>>
    BY DEF Return
<1>2. Returned(v, type, quantity, remaining) = OutOfLoop(WithEvent(v, e))
    BY ViewFieldsOf DEF Returned
<1> HIDE DEF e
<1>3. WithEvent(v, e)
        = ViewOf(instrument_id, next_event_sequence + 1, next_trade_id, active_orders',
                 rested_at', pc, command, incoming, Append(events, e))
    BY ViewWithEvent
<1>4. OutOfLoop(WithEvent(v, e))
        = ViewOf(instrument_id, next_event_sequence + 1, next_trade_id, active_orders',
                 rested_at', "idle", NoCommand, 0, Append(events, e))
    BY <1>3, ViewOutOfLoop
<1>5. View' = ViewOf(instrument_id, next_event_sequence + 1, next_trade_id,
                     active_orders', rested_at', "idle", NoCommand, 0,
                     Append(events, e))
    BY <1>1, ViewIs
<1> QED BY <1>2, <1>4, <1>5

LEMMA FillIsFunction ==
    ASSUME IInv, FillIncoming
    PROVE  View' = Continued(View)
<1>1. /\ incoming = 0 /\ UNCHANGED <<active_orders, rested_at>>
      /\ Return("OrderFullyFilled", command.quantity_lots, 0)
    BY DEF FillIncoming
<1>2. Continued(View) = Returned(View, "OrderFullyFilled", command.quantity_lots, 0)
    BY <1>1, ViewHas DEF Continued
<1> QED BY <1>1, <1>2, ReturnIsFunction, ViewIs

\* An order comes to rest when no order of the index is marketable for it.
LEMMA RestIsFunction ==
    ASSUME IInv, RestIncoming
    PROVE  View' = Continued(View)
<1> DEFINE r == [order_id |-> command.order_id,
                 instrument_id |-> command.instrument_id,
                 side |-> command.side,
                 price_ticks |-> command.price_ticks,
                 remaining |-> incoming]
           type == IF incoming # command.quantity_lots THEN "OrderPartiallyFilled"
                                                       ELSE "OrderRested"
           v == ViewOf(instrument_id, next_event_sequence, next_trade_id,
                       active_orders', rested_at', pc, command, incoming, events)
<1>1. /\ pc = "matching" /\ incoming # 0 /\ LoopEnds
      /\ active_orders' = Put(active_orders, command.order_id, r)
      /\ rested_at' = Put(rested_at, command.order_id, next_event_sequence)
      /\ Return(type, command.quantity_lots - incoming, incoming)
    BY DEF RestIncoming, rest_order
<1>2. Makers(View) = {}
  <2> SUFFICES ASSUME NEW id \in Makers(View) PROVE FALSE
      OBVIOUS
  <2>1. /\ id \in DOMAIN active_orders
        /\ active_orders[id].side = Opposite(command.side)
        /\ Crosses(command, active_orders[id].price_ticks)
      BY ViewHas DEF Makers
  <2>2. active_orders[id].price_ticks \in DOMAIN levels[Opposite(command.side)]
      BY <2>1, IndexedOrder DEF IInv, TypeOK
  <2>3. Before(Opposite(command.side), command.price_ticks, active_orders[id].price_ticks)
      BY <1>1, <2>2, LoopEndsUncrossed
  <2> QED BY <2>1, <2>3 DEF Crosses
<1>3. AtRest(View, command.order_id, r) = v
    BY <1>1, ViewIs, ViewAtRest
<1>4. Rested(View) = Returned(AtRest(View, command.order_id, r), type,
                              command.quantity_lots - incoming, incoming)
    BY ViewHas DEF Rested
<1> HIDE DEF r, type
<1>5. Continued(View) = Rested(View)
    BY <1>1, <1>2, ViewHas DEF Continued
<1>6. View' = Returned(v, type, command.quantity_lots - incoming, incoming)
    BY <1>1, ReturnIsFunction
<1> QED BY <1>3, <1>4, <1>5, <1>6

\* The front order is the only one that has priority over the other makers.
LEMMA FrontIsBestMaker ==
    ASSUME IInv, pc = "matching",
           NEW p \in DOMAIN levels[Opposite(command.side)], MatchFront(p)
    PROVE  LET maker == Head(levels[Opposite(command.side)][p]).order_id
           IN maker \in Makers(View) /\ BestMaker(View) = maker
<1> DEFINE side == Opposite(command.side)
           front == Head(levels[side][p])
           quantity == TradeQuantity(front.remaining)
           e == emit_trade_event(command, next_event_sequence, front, next_trade_id, p,
                                 quantity, incoming - quantity)
           maker == front.order_id
<1>1. /\ incoming > 0 /\ events' = Append(events, e) /\ Crosses(command, p)
    BY Zenon DEF MatchFront
<1>2. /\ front \in RestingOrder /\ quantity \in Nat /\ p \in Int
      /\ maker \in DOMAIN active_orders
      /\ active_orders[maker] = front
      /\ front.side = side /\ front.price_ticks = p
    BY <1>1, MatchFacts, Zenon
<1>3. /\ command \in Command /\ next_event_sequence \in Nat /\ next_trade_id \in Nat
      /\ incoming - quantity \in Int /\ quantity \in Int /\ events \in Seq(Event)
    BY <1>2 DEF IInv, TypeOK
<1>4. events'[Len(events')] = e
  <2>1. e \in Event
      BY <1>2, <1>3, TradeEventType
  <2> HIDE DEF e
  <2> QED BY <1>1, <1>3, <2>1, AppendProperties
<1>5. e.contra_order_id = maker /\ e.price_ticks = p
    BY DEF emit_trade_event, emit_order_event
<1> HIDE DEF front, e
<1>6. \A id \in DOMAIN active_orders \ {maker} :
         active_orders[id].side = side =>
            \/ Before(side, p, active_orders[id].price_ticks)
            \/ p = active_orders[id].price_ticks /\ rested_at[maker] < rested_at[id]
    BY <1>4, <1>5, PriorityStep
<1>7. maker \in Makers(View)
    BY <1>1, <1>2, ViewHas DEF Makers
<1>8. \A other \in Makers(View) \ {maker} : HasPriority(View, maker, other)
    BY <1>2, <1>6, ViewHas DEF Makers, HasPriority
<1>9. ASSUME NEW id \in Makers(View), id # maker,
             \A other \in Makers(View) \ {id} : HasPriority(View, id, other)
      PROVE  FALSE
  <2>1. HasPriority(View, id, maker) /\ HasPriority(View, maker, id)
      BY <1>7, <1>8, <1>9
  <2>2. /\ id \in DOMAIN active_orders /\ active_orders[id].side = side
        /\ active_orders[id].price_ticks \in Int
        /\ rested_at[id] \in Nat /\ rested_at[maker] \in Nat
      BY <1>2, <1>9, ViewHas DEF Makers, IInv, TypeOK, RestingOrder
  <2> QED BY <1>2, <2>1, <2>2, ViewHas DEF HasPriority, Before
<1>10. BestMaker(View) = maker
    BY <1>7, <1>8, <1>9 DEF BestMaker
<1> QED BY <1>7, <1>10 DEF front

LEMMA MatchIsFunction ==
    ASSUME IInv, pc = "matching",
           NEW p \in DOMAIN levels[Opposite(command.side)], MatchFront(p)
    PROVE  View' = Continued(View)
<1> DEFINE side == Opposite(command.side)
           front == Head(levels[side][p])
           quantity == TradeQuantity(front.remaining)
           left == [front EXCEPT !.remaining = @ - quantity]
           e == emit_trade_event(command, next_event_sequence, front, next_trade_id, p,
                                 quantity, incoming - quantity)
           maker == front.order_id
           w == ViewOf(instrument_id, next_event_sequence + 1, next_trade_id + 1,
                       active_orders, rested_at, pc, command, incoming - quantity,
                       Append(events, e))
<1>1. /\ incoming > 0 /\ events' = Append(events, e)
      /\ incoming' = incoming - quantity
      /\ next_event_sequence' = next_event_sequence + 1
      /\ next_trade_id' = next_trade_id + 1
      /\ UNCHANGED <<instrument_id, pc, command>>
      /\ active_orders' = IF left.remaining = 0 THEN Erase(active_orders, maker)
                          ELSE Put(active_orders, maker, left)
      /\ rested_at' = IF left.remaining = 0 THEN Erase(rested_at, maker) ELSE rested_at
    BY Zenon DEF MatchFront
<1>2. /\ front \in RestingOrder /\ quantity \in Nat
      /\ active_orders[maker] = front /\ front.price_ticks = p
    BY <1>1, MatchFacts, Zenon
<1>3. maker \in Makers(View) /\ BestMaker(View) = maker
    BY FrontIsBestMaker
<1>4. Continued(View) = Traded(View)
    BY <1>1, <1>3, ViewHas DEF Continued
<1>5. left.remaining = front.remaining - quantity
    BY <1>2 DEF RestingOrder
<1>6. Traded(View)
        = IF front.remaining - quantity = 0
          THEN Without(Less(WithEvent(View, e), quantity), maker)
          ELSE WithOrder(Less(WithEvent(View, e), quantity), maker,
                         [front EXCEPT !.remaining = front.remaining - quantity])
    BY <1>2, <1>3, ViewHas DEF Traded, TradeQuantity
<1> HIDE DEF e, quantity, front
<1>7. WithEvent(View, e)
        = ViewOf(instrument_id, next_event_sequence + 1, next_trade_id, active_orders,
                 rested_at, pc, command, incoming, Append(events, e))
    BY ViewIs, ViewWithEvent
<1>8. Less(WithEvent(View, e), quantity) = w
    BY <1>7, ViewLess
<1>9. CASE left.remaining = 0
  <2>1. Continued(View) = Without(w, maker)
      BY <1>4, <1>5, <1>6, <1>8, <1>9
  <2>2. View' = ViewOf(instrument_id, next_event_sequence + 1, next_trade_id + 1,
                       Erase(active_orders, maker), Erase(rested_at, maker), pc, command,
                       incoming - quantity, Append(events, e))
      BY <1>1, <1>9, ViewIs
  <2> QED BY <2>1, <2>2, ViewWithout
<1>10. CASE left.remaining # 0
  <2>1. Continued(View) = WithOrder(w, maker, left)
      BY <1>4, <1>5, <1>6, <1>8, <1>10
  <2>2. View' = ViewOf(instrument_id, next_event_sequence + 1, next_trade_id + 1,
                       Put(active_orders, maker, left), rested_at, pc, command,
                       incoming - quantity, Append(events, e))
      BY <1>1, <1>10, ViewIs
  <2> QED BY <2>1, <2>2, ViewWithOrder
<1> QED BY <1>9, <1>10

LEMMA ContinueIsFunction ==
    ASSUME IInv, pc = "matching", Continue
    PROVE  View' = Continued(View)
BY FillIsFunction, RestIsFunction, MatchIsFunction DEF Continue

\* InstrumentEngine::apply is deterministic: the events it emits and the orders it
\* leaves are a function of the command and of the orders that were at rest.
THEOREM EngineIsAFunction == Spec => EngineIsFunction
<1>1. ASSUME IInv, [Next]_vars
      PROVE  [/\ \A c \in Commands : Apply(c) => View' = Called(View, c)
              /\ pc = "matching" => View' = Continued(View)]_vars
  <2>1. ASSUME NEW c \in Commands, Apply(c) PROVE View' = Called(View, c)
      BY <1>1, <2>1, CallIsFunction, CommandsAssumption
  <2>2. ASSUME pc = "matching", Next PROVE View' = Continued(View)
      BY <1>1, <2>2, ContinueIsFunction DEF Next, Apply
  <2> QED BY <1>1, <2>1, <2>2
<1> QED BY <1>1, IInvAlways, PTL DEF Spec, EngineIsFunction
=============================================================================
