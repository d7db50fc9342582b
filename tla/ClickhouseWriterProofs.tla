----------------------- MODULE ClickhouseWriterProofs -----------------------
(***************************************************************************)
(* Proofs about ClickhouseWriter for every set of tables and rows, every   *)
(* batch size and every number of attempts: its types, its safety          *)
(* invariants, and that it implements WriterContract.                      *)
(*                                                                         *)
(* First comes what an outcome of a flush does to the rows as a set: none  *)
(* gets lost. Then what it does to each of them: OnePlace puts an item in  *)
(* one queue or one flush, once, and Charges counts its failed flushes.    *)
(* The other invariants and the refinement follow from the two.            *)
(***************************************************************************)
EXTENDS ClickhouseWriter, FiniteSetTheorems, TLAPS

USE DEF RowsOf

(* The items a table's queue and a flush's batch consist of.               *)
Batches == Seq(Items)

-----------------------------------------------------------------------------
(* Lemmas on the list operations of the code.                              *)

(* Concatenating two lists of items puts their rows together.              *)
LEMMA RowsOfConcat ==
    ASSUME NEW s \in Seq(Items), NEW t \in Seq(Items)
    PROVE  /\ s \o t \in Seq(Items)
           /\ RowsOf(s \o t) = RowsOf(s) \cup RowsOf(t)
<1>1. s \o t \in Seq(Items) /\ Len(s \o t) = Len(s) + Len(t)
  OBVIOUS
<1>2. \A i \in DOMAIN s : (s \o t)[i] = s[i] /\ i \in DOMAIN (s \o t)
  OBVIOUS
<1>3. \A i \in DOMAIN t : (s \o t)[Len(s) + i] = t[i] /\ Len(s) + i \in DOMAIN (s \o t)
  OBVIOUS
<1>4. \A i \in DOMAIN (s \o t) :
        \/ i \in DOMAIN s
        \/ i - Len(s) \in DOMAIN t /\ i = Len(s) + (i - Len(s))
  OBVIOUS
<1>5. RowsOf(s) \cup RowsOf(t) \subseteq RowsOf(s \o t)
  BY <1>2, <1>3
<1>6. RowsOf(s \o t) \subseteq RowsOf(s) \cup RowsOf(t)
  BY <1>2, <1>3, <1>4
<1> QED
  BY <1>1, <1>5, <1>6

(* push adds one row at the back.                                          *)
LEMMA RowsOfAppend ==
    ASSUME NEW s \in Seq(Items), NEW item \in Items
    PROVE  /\ Append(s, item) \in Seq(Items)
           /\ RowsOf(Append(s, item)) = RowsOf(s) \cup {item.row}
<1> DEFINE q == Append(s, item)
<1>1. /\ q \in Seq(Items) /\ Len(q) = Len(s) + 1 /\ q[Len(s) + 1] = item
      /\ \A i \in 1..Len(s) : q[i] = s[i]
  OBVIOUS
<1> HIDE DEF q
<1>2. \A i \in DOMAIN q : i \in DOMAIN s \/ i = Len(s) + 1
  BY <1>1
<1>3. \A i \in DOMAIN s : i \in DOMAIN q /\ q[i] = s[i]
  BY <1>1
<1>4. Len(s) + 1 \in DOMAIN q
  BY <1>1
<1>5. RowsOf(q) = RowsOf(s) \cup {item.row}
  BY <1>1, <1>2, <1>3, <1>4
<1> QED
  BY <1>1, <1>5 DEF q

(* A splice loses no item: what it takes and what it leaves are the whole. *)
LEMMA SpliceKeepsRows ==
    ASSUME NEW q \in Seq(Items), NEW n \in 0..Len(q)
    PROVE  /\ Taken(q, n) \in Seq(Items)
           /\ Remaining(q, n) \in Seq(Items)
           /\ RowsOf(q) = RowsOf(Taken(q, n)) \cup RowsOf(Remaining(q, n))
<1> DEFINE a == Taken(q, n)
           b == Remaining(q, n)
<1>1. a \in Seq(Items) /\ Len(a) = n /\ \A i \in 1..n : a[i] = q[i]
  BY DEF Taken
<1>2. b \in Seq(Items) /\ Len(b) = Len(q) - n /\ \A i \in 1..(Len(q) - n) : b[i] = q[n + i]
  BY DEF Remaining
<1> HIDE DEF a, b
<1>3. \A i \in DOMAIN q : i \in 1..n \/ (i - n \in 1..(Len(q) - n) /\ i = n + (i - n))
  OBVIOUS
<1>4. RowsOf(q) \subseteq RowsOf(a) \cup RowsOf(b)
  <2> SUFFICES ASSUME NEW i \in DOMAIN q
               PROVE  q[i].row \in RowsOf(a) \cup RowsOf(b)
    OBVIOUS
  <2>1. CASE i \in 1..n
    BY <2>1, <1>1
  <2>2. CASE i - n \in 1..(Len(q) - n) /\ i = n + (i - n)
    <3>1. b[i - n] = q[i] /\ i - n \in DOMAIN b
      BY <2>2, <1>2
    <3> QED
      BY <3>1
  <2> QED
    BY <2>1, <2>2, <1>3
<1>5. RowsOf(a) \cup RowsOf(b) \subseteq RowsOf(q)
  <2>1. \A i \in DOMAIN a : i \in DOMAIN q /\ a[i] = q[i]
    BY <1>1
  <2>2. \A i \in DOMAIN b : n + i \in DOMAIN q /\ b[i] = q[n + i]
    BY <1>2
  <2> QED
    BY <2>1, <2>2
<1> QED
  BY <1>1, <1>2, <1>4, <1>5 DEF a, b

(* A flush never asks for more items than its queue has.                   *)
LEMMA TakeCountBounded ==
    ASSUME NEW q \in Seq(Items), NEW full \in BOOLEAN
    PROVE  TakeCount(q, full) \in 0..Len(q)
  BY BatchSizeAssumption DEF TakeCount

(* A split leaves the flush a part of its batch.                           *)
LEMMA SplitPointBounded ==
    ASSUME NEW n \in Nat
    PROVE  SplitPoint(n) \in 0..n
<1>1. n \div 2 \in 0..n
  OBVIOUS
<1>2. CASE n = 1
  BY <1>2 DEF SplitPoint
<1>3. CASE n # 1
  BY <1>1, <1>3 DEF SplitPoint
<1> QED
  BY <1>2, <1>3

(* The requeued items of a failed flush are exactly the retriable ones.    *)
LEMMA RetriedRows ==
    ASSUME NEW batch \in Seq(Items), NEW pos \in RetryOrders(batch)
    PROVE  LET again == [i \in DOMAIN pos |->
                            Requeued(batch[pos[i]], batch[pos[i]].attempts + 1)]
           IN  /\ again \in Seq(Items)
               /\ RowsOf(again) =
                    {batch[i].row : i \in {j \in DOMAIN batch : batch[j].attempts < MaxAttempts}}
<1> DEFINE retriable == {i \in DOMAIN batch : batch[i].attempts < MaxAttempts}
           n == Cardinality(retriable)
           again == [i \in DOMAIN pos |->
                        Requeued(batch[pos[i]], batch[pos[i]].attempts + 1)]
<1>1. IsFiniteSet(retriable) /\ n \in Nat
  <2>1. IsFiniteSet(DOMAIN batch)
    <3>1. DOMAIN batch = 1..Len(batch) /\ Len(batch) \in Int
      OBVIOUS
    <3> QED
      BY <3>1, FS_Interval
  <2>2. IsFiniteSet(retriable)
    BY <2>1, FS_Subset
  <2> QED
    BY <2>2, FS_CardinalityType
<1>2. /\ pos \in [1..n -> retriable]
      /\ {pos[i] : i \in 1..n} = retriable
  BY DEF RetryOrders
<1>3. DOMAIN again = 1..n
  BY <1>2
<1>4. \A i \in 1..n : pos[i] \in retriable /\ batch[pos[i]] \in Items
  BY <1>2
<1>5. ASSUME NEW i \in 1..n
      PROVE  again[i] \in Items /\ again[i].row = batch[pos[i]].row
  <2>1. again[i] = Requeued(batch[pos[i]], batch[pos[i]].attempts + 1)
    BY <1>2
  <2>2. PICK item \in Items : item = batch[pos[i]] /\ item.attempts < MaxAttempts
    BY <1>4
  <2>3. item.attempts + 1 \in 1..MaxAttempts /\ item.row \in Rows
    BY <2>2, MaxAttemptsAssumption DEF Items
  <2> HIDE DEF n, again
  <2>4. again[i] = Requeued(item, item.attempts + 1)
    BY <2>1, <2>2
  <2>5. Requeued(item, item.attempts + 1) \in Items
    BY <2>3 DEF Requeued, Items
  <2>6. Requeued(item, item.attempts + 1).row = item.row
    BY DEF Requeued
  <2> QED
    BY <2>2, <2>4, <2>5, <2>6
<1> HIDE DEF n, again
<1>6. again \in Seq(Items)
  <2>1. again \in [1..n -> Items]
    <3>1. again = [i \in 1..n |-> again[i]]
      BY <1>2 DEF again
    <3> QED
      BY <3>1, <1>5
  <2> QED
    BY <2>1, <1>1
<1>7. RowsOf(again) = {batch[i].row : i \in retriable}
  BY <1>2, <1>3, <1>5
<1> QED
  BY <1>6, <1>7 DEF again

-----------------------------------------------------------------------------
(* What the steps do to the rows in the writer's hands.                    *)

(* The variables a flush works on, and their types.                        *)
FlushTypeOK ==
    /\ queue \in [Tables -> Seq(Items)]
    /\ flights \subseteq Flights
    /\ dropped \subseteq Rows
    /\ failures \in [Rows -> Nat]

(* The catch block keeps every row of the batch or counts it as dropped,   *)
(* and touches no row of another table or another flush.                   *)
LEMMA GiveUpKeepsRows ==
    ASSUME FlushTypeOK, NEW f \in flights, NEW batch \in Seq(Items),
           NEW q \in Seq(Items), GiveUp(f, batch, q)
    PROVE  /\ FlushTypeOK'
           /\ dropped \subseteq dropped'
           /\ flights' = flights \ {f}
           /\ \A t \in Tables \ {f.table} : queue'[t] = queue[t]
           /\ RowsOf(batch) \cup RowsOf(q) \subseteq RowsOf(queue'[f.table]) \cup dropped'
<1> DEFINE gone == {j \in DOMAIN batch : batch[j].attempts >= MaxAttempts}
           back == {j \in DOMAIN batch : batch[j].attempts < MaxAttempts}
<1>1. f.table \in Tables
  BY DEF FlushTypeOK, Flights
<1>2. \A i \in DOMAIN batch : batch[i] \in Items /\ batch[i].row \in Rows
                               /\ batch[i].attempts \in Int
  <2>1. \A item \in Items : item.row \in Rows /\ item.attempts \in Int
    BY MaxAttemptsAssumption DEF Items
  <2>2. \A i \in DOMAIN batch : batch[i] \in Items
    OBVIOUS
  <2> QED
    BY <2>1, <2>2
<1>3. PICK pos \in RetryOrders(batch) :
        queue' = [queue EXCEPT ![f.table] =
                    q \o [i \in DOMAIN pos |->
                            Requeued(batch[pos[i]], batch[pos[i]].attempts + 1)]]
  BY DEF GiveUp
<1> DEFINE again == [i \in DOMAIN pos |->
                        Requeued(batch[pos[i]], batch[pos[i]].attempts + 1)]
<1>4. again \in Seq(Items) /\ RowsOf(again) = {batch[i].row : i \in back}
  BY RetriedRows
<1> HIDE DEF again
<1>5. q \o again \in Seq(Items) /\ RowsOf(q \o again) = RowsOf(q) \cup RowsOf(again)
  BY <1>4, RowsOfConcat
<1>6. queue' = [queue EXCEPT ![f.table] = q \o again]
  BY <1>3 DEF again
<1>7. queue'[f.table] = q \o again /\ queue' \in [Tables -> Seq(Items)]
  BY <1>1, <1>5, <1>6 DEF FlushTypeOK
<1>8. dropped' = dropped \cup {batch[i].row : i \in gone}
  BY DEF GiveUp
<1>9. dropped' \subseteq Rows
  BY <1>2, <1>8 DEF FlushTypeOK
<1>10. failures' \in [Rows -> Nat]
  BY DEF GiveUp, FlushTypeOK
<1>11. flights' = flights \ {f}
  BY DEF GiveUp
<1>12. DOMAIN batch = back \cup gone
  <2>1. MaxAttempts \in Int
    BY MaxAttemptsAssumption
  <2>2. \A i \in DOMAIN batch :
          batch[i].attempts < MaxAttempts \/ batch[i].attempts >= MaxAttempts
    BY <1>2, <2>1
  <2> QED
    BY <2>2
<1>13. RowsOf(batch) \subseteq RowsOf(again) \cup dropped'
  BY <1>4, <1>8, <1>12
<1>14. FlushTypeOK'
  BY <1>7, <1>9, <1>10, <1>11 DEF FlushTypeOK
<1>15. RowsOf(batch) \cup RowsOf(q) \subseteq RowsOf(queue'[f.table]) \cup dropped'
  <2>1. RowsOf(queue'[f.table]) = RowsOf(q) \cup RowsOf(again)
    BY <1>5, <1>7
  <2> QED
    BY <1>13, <2>1
<1>16. \A t \in Tables \ {f.table} : queue'[t] = queue[t]
  BY <1>1, <1>6 DEF FlushTypeOK
<1> QED
  BY <1>8, <1>11, <1>14, <1>15, <1>16

(* A failed try keeps every row it was given, in the next try, in the      *)
(* queue or among the dropped, whatever the split between batch and q.     *)
LEMMA TryAgainKeepsRows ==
    ASSUME FlushTypeOK, NEW f \in flights, NEW batch \in Seq(Items),
           NEW q \in Seq(Items), NEW truncated \in BOOLEAN,
           TryAgain(f, batch, truncated, q),
           RowsOf(f.batch) \cup RowsOf(queue[f.table]) \subseteq RowsOf(batch) \cup RowsOf(q)
    PROVE  /\ FlushTypeOK'
           /\ Held \subseteq Held' \cup dropped'
           /\ dropped \subseteq dropped'
<1>1. f \in Flights /\ f.table \in Tables /\ f.tries \in 0..(MaxAttempts - 1)
  BY DEF FlushTypeOK, Flights
<1>2. CASE f.tries + 1 < MaxAttempts
  <2> DEFINE g == NextTry(f, batch, truncated)
  <2>1. /\ flights' = (flights \ {f}) \cup {g}
        /\ queue' = [queue EXCEPT ![f.table] = q]
        /\ dropped' = dropped /\ failures' = failures
    BY <1>2 DEF TryAgain
  <2>2. g \in Flights /\ g.batch = batch
    <3>1. f.tries + 1 \in 0..(MaxAttempts - 1)
      BY <1>1, <1>2, MaxAttemptsAssumption
    <3>2. f.origin \in Origins
      BY <1>1 DEF Flights
    <3> QED
      BY <1>1, <3>1, <3>2 DEF Flights, NextTry
  <2> HIDE DEF g
  <2>3. FlushTypeOK'
    BY <1>1, <2>1, <2>2 DEF FlushTypeOK
  <2>4. queue'[f.table] = q /\ \A t \in Tables \ {f.table} : queue'[t] = queue[t]
    BY <1>1, <2>1 DEF FlushTypeOK
  <2>5. Queued \subseteq Queued' \cup RowsOf(queue[f.table])
    BY <2>4 DEF Queued
  <2>6. InFlight \subseteq InFlight' \cup RowsOf(f.batch)
    BY <2>1 DEF InFlight
  <2>7. RowsOf(batch) \subseteq InFlight' /\ RowsOf(q) \subseteq Queued'
    BY <1>1, <2>1, <2>2, <2>4 DEF InFlight, Queued
  <2> QED
    BY <2>1, <2>3, <2>5, <2>6, <2>7 DEF Held
<1>3. CASE ~(f.tries + 1 < MaxAttempts)
  <2>1. GiveUp(f, batch, q)
    BY <1>3 DEF TryAgain
  <2>2. /\ FlushTypeOK'
        /\ dropped \subseteq dropped'
        /\ flights' = flights \ {f}
        /\ \A t \in Tables \ {f.table} : queue'[t] = queue[t]
        /\ RowsOf(batch) \cup RowsOf(q) \subseteq RowsOf(queue'[f.table]) \cup dropped'
    BY <2>1, GiveUpKeepsRows
  <2>3. Queued \subseteq Queued' \cup RowsOf(queue[f.table])
    BY <2>2 DEF Queued
  <2>4. InFlight \subseteq InFlight' \cup RowsOf(f.batch)
    BY <2>2 DEF InFlight
  <2>5. RowsOf(queue'[f.table]) \subseteq Queued'
    BY <1>1 DEF Queued
  <2> QED
    BY <2>2, <2>3, <2>4, <2>5 DEF Held
<1> QED
  BY <1>2, <1>3

(* flushAll moves rows from the queues to the flights and loses none.      *)
LEMMA FlushAllKeepsRows ==
    ASSUME FlushTypeOK, NEW full \in BOOLEAN, NEW origin \in Origins,
           FlushAll(full, origin)
    PROVE  /\ queue' \in [Tables -> Seq(Items)]
           /\ flights' \subseteq Flights
           /\ Held \subseteq Held'
<1> DEFINE new == {Flight(t, queue[t], full, origin) : t \in {u \in Tables : queue[u] # <<>>}}
<1>1. /\ queue' = [t \in Tables |-> Remaining(queue[t], TakeCount(queue[t], full))]
      /\ flights' = flights \cup new
  BY DEF FlushAll
<1>2. ASSUME NEW t \in Tables
      PROVE  /\ queue[t] \in Seq(Items)
             /\ Taken(queue[t], TakeCount(queue[t], full)) \in Seq(Items)
             /\ Remaining(queue[t], TakeCount(queue[t], full)) \in Seq(Items)
             /\ RowsOf(queue[t]) =
                  RowsOf(Taken(queue[t], TakeCount(queue[t], full)))
                    \cup RowsOf(Remaining(queue[t], TakeCount(queue[t], full)))
  <2>1. queue[t] \in Seq(Items)
    BY DEF FlushTypeOK
  <2> QED
    BY <2>1, TakeCountBounded, SpliceKeepsRows
<1>3. ASSUME NEW t \in Tables
      PROVE  /\ Flight(t, queue[t], full, origin) \in Flights
             /\ Flight(t, queue[t], full, origin).batch =
                  Taken(queue[t], TakeCount(queue[t], full))
  <2>1. 0 \in 0..(MaxAttempts - 1)
    BY MaxAttemptsAssumption
  <2> QED
    BY <1>2, <2>1 DEF Flight, Flights
<1>4. new \subseteq Flights
  BY <1>3
<1>5. queue' \in [Tables -> Seq(Items)]
  BY <1>1, <1>2
<1>6. ASSUME NEW t \in Tables
      PROVE  RowsOf(queue[t]) \subseteq Queued' \cup InFlight'
  <2>1. queue'[t] = Remaining(queue[t], TakeCount(queue[t], full))
    BY <1>1
  <2>2. RowsOf(queue'[t]) \subseteq Queued'
    BY DEF Queued
  <2>3. CASE queue[t] = <<>>
    BY <2>3
  <2>4. CASE queue[t] # <<>>
    <3>1. Flight(t, queue[t], full, origin) \in flights'
      BY <1>1, <2>4
    <3>2. RowsOf(Flight(t, queue[t], full, origin).batch) \subseteq InFlight'
      BY <3>1 DEF InFlight
    <3>3. RowsOf(Taken(queue[t], TakeCount(queue[t], full))) \subseteq InFlight'
      BY <1>3, <3>2
    <3>4. RowsOf(Remaining(queue[t], TakeCount(queue[t], full))) \subseteq Queued'
      BY <2>1, <2>2
    <3> HIDE DEF RowsOf
    <3> QED
      BY <1>2, <3>3, <3>4
  <2> QED
    BY <2>3, <2>4
<1>7. Queued \subseteq Queued' \cup InFlight'
  BY <1>6 DEF Queued
<1>8. InFlight \subseteq InFlight'
  BY <1>1 DEF InFlight
<1> QED
  BY <1>1, <1>4, <1>5, <1>7, <1>8 DEF Held, FlushTypeOK

-----------------------------------------------------------------------------
(* One lemma per action: it keeps the types, and a row leaves the writer's *)
(* hands only into ClickHouse or into the dropped rows.                    *)

(* What every step owes the rows.                                          *)
RowsKept ==
    /\ Held \subseteq Held' \cup stored' \cup dropped'
    /\ stored \subseteq stored'
    /\ dropped \subseteq dropped'
    /\ accepted' \subseteq accepted \cup Held'

LEMMA AddToQueueStep ==
    ASSUME TypeOK, NEW r \in Rows, NEW t \in Tables, AddToQueue(r, t)
    PROVE  TypeOK' /\ RowsKept
<1> DEFINE item == [row |-> r, attempts |-> 1, requeued |-> FALSE]
           q == Append(queue[t], item)
           n == TakeCount(q, FALSE)
<1>1. item \in Items
  BY MaxAttemptsAssumption DEF Items
<1>2. queue[t] \in Seq(Items)
  BY DEF TypeOK
<1>3. item.row = r
  OBVIOUS
<1> HIDE DEF item
<1>4. q \in Seq(Items) /\ RowsOf(q) = RowsOf(queue[t]) \cup {r}
  BY <1>1, <1>2, <1>3, RowsOfAppend
<1>5. /\ accepted' = accepted \cup {r}
      /\ UNCHANGED <<phase, stored, dropped, failures, doubtful, repeated>>
  BY DEF AddToQueue
<1>6. accepted' = accepted \cup {r} /\ accepted' \subseteq Rows
  BY <1>5 DEF TypeOK
<1>7. UNCHANGED <<phase, stored, dropped, failures, doubtful, repeated>>
  BY <1>5
<1>8. CASE Len(q) >= BatchSize
  <2> DEFINE g == Flight(t, q, FALSE, "direct")
  <2>1. /\ queue' = [queue EXCEPT ![t] = Remaining(q, n)]
        /\ flights' = flights \cup {g}
    BY <1>8 DEF AddToQueue, item
  <2>2. n \in 0..Len(q)
    BY <1>4, TakeCountBounded
  <2>3. /\ Taken(q, n) \in Seq(Items)
        /\ Remaining(q, n) \in Seq(Items)
        /\ RowsOf(q) = RowsOf(Taken(q, n)) \cup RowsOf(Remaining(q, n))
    BY <1>4, <2>2, SpliceKeepsRows
  <2>4. 0 \in 0..(MaxAttempts - 1)
    BY MaxAttemptsAssumption
  <2>5. g \in Flights /\ g.batch = Taken(q, n)
    BY <2>3, <2>4 DEF Flight, Flights, Origins
  <2> HIDE DEF g, n, q, item
  <2>6. TypeOK'
    BY <1>6, <1>7, <2>1, <2>3, <2>5 DEF TypeOK
  <2>7. queue'[t] = Remaining(q, n) /\ \A u \in Tables \ {t} : queue'[u] = queue[u]
    BY <2>1 DEF TypeOK
  <2>8. InFlight \subseteq InFlight' /\ RowsOf(Taken(q, n)) \subseteq InFlight'
    BY <2>1, <2>5 DEF InFlight
  <2>9. RowsOf(Remaining(q, n)) \subseteq Queued'
    BY <2>7 DEF Queued
  <2>10. Queued \subseteq Queued' \cup RowsOf(queue[t])
    BY <2>7 DEF Queued
  <2> HIDE DEF RowsOf
  <2>11. Held \cup {r} \subseteq Held'
    BY <1>4, <2>3, <2>8, <2>9, <2>10 DEF Held
  <2> QED
    BY <1>6, <1>7, <2>6, <2>11 DEF RowsKept
<1>9. CASE ~(Len(q) >= BatchSize)
  <2>1. queue' = [queue EXCEPT ![t] = q] /\ flights' = flights
    BY <1>9 DEF AddToQueue, item
  <2> HIDE DEF q, item
  <2>2. TypeOK'
    BY <1>4, <1>6, <1>7, <2>1 DEF TypeOK
  <2>3. queue'[t] = q /\ \A u \in Tables \ {t} : queue'[u] = queue[u]
    BY <2>1 DEF TypeOK
  <2>4. InFlight' = InFlight
    BY <2>1 DEF InFlight
  <2>5. RowsOf(q) \subseteq Queued' /\ Queued \subseteq Queued' \cup RowsOf(queue[t])
    BY <2>3 DEF Queued
  <2> HIDE DEF RowsOf
  <2>6. Held \cup {r} \subseteq Held'
    BY <1>4, <2>4, <2>5 DEF Held
  <2> QED
    BY <1>6, <1>7, <2>2, <2>6 DEF RowsKept
<1> QED
  BY <1>8, <1>9

(* A flushAll, whether the interval's or the final one.                    *)
LEMMA FlushAllStep ==
    ASSUME TypeOK, NEW full \in BOOLEAN, NEW origin \in Origins,
           FlushAll(full, origin), UNCHANGED history,
           phase' \in {"running", "draining", "final", "closed"}
    PROVE  TypeOK' /\ RowsKept
<1>1. FlushTypeOK
  BY DEF TypeOK, FlushTypeOK
<1>2. queue' \in [Tables -> Seq(Items)] /\ flights' \subseteq Flights /\ Held \subseteq Held'
  BY <1>1, FlushAllKeepsRows
<1> QED
  BY <1>2 DEF TypeOK, RowsKept, history

LEMMA InsertSucceedsStep ==
    ASSUME TypeOK, NEW f \in flights, InsertSucceeds(f)
    PROVE  TypeOK' /\ RowsKept
<1>1. f \in Flights /\ f.batch \in Seq(Items)
  BY DEF TypeOK, Flights
<1>2. RowsOf(f.batch) \subseteq Rows
  <2>1. \A item \in Items : item.row \in Rows
    BY DEF Items
  <2> QED
    BY <1>1, <2>1
<1>3. /\ stored' = stored \cup RowsOf(f.batch)
      /\ repeated' = repeated \cup (RowsOf(f.batch) \cap stored)
      /\ flights' = flights \ {f}
      /\ UNCHANGED <<queue, phase, accepted, dropped, failures, doubtful>>
  BY DEF InsertSucceeds, Insert
<1>4. TypeOK'
  BY <1>2, <1>3 DEF TypeOK
<1>5. Queued' = Queued
  BY <1>3 DEF Queued
<1>6. InFlight \subseteq InFlight' \cup RowsOf(f.batch)
  BY <1>3 DEF InFlight
<1> QED
  BY <1>3, <1>4, <1>5, <1>6 DEF RowsKept, Held

(* A failed insert, given what the handler hands to the next try.          *)
LEMMA FailureStep ==
    ASSUME TypeOK, NEW f \in flights, NEW batch \in Seq(Items),
           NEW q \in Seq(Items), NEW truncated \in BOOLEAN,
           TryAgain(f, batch, truncated, q),
           RowsOf(f.batch) \cup RowsOf(queue[f.table]) \subseteq RowsOf(batch) \cup RowsOf(q),
           stored \subseteq stored', stored' \subseteq Rows, doubtful' \subseteq Rows,
           repeated' \subseteq Rows, UNCHANGED <<phase, accepted>>
    PROVE  TypeOK' /\ RowsKept
<1>1. FlushTypeOK
  BY DEF TypeOK, FlushTypeOK
<1>2. FlushTypeOK' /\ Held \subseteq Held' \cup dropped' /\ dropped \subseteq dropped'
  BY <1>1, TryAgainKeepsRows
<1> QED
  BY <1>2 DEF TypeOK, FlushTypeOK, RowsKept

LEMMA ResolveStep ==
    ASSUME TypeOK, NEW f \in flights, Resolve(f)
    PROVE  TypeOK' /\ RowsKept
<1>1. /\ f.batch \in Seq(Items) /\ f.truncated \in BOOLEAN
      /\ f.table \in Tables /\ queue[f.table] \in Seq(Items)
  BY DEF TypeOK, Flights
<1>2. RowsOf(f.batch) \subseteq Rows
  <2>1. \A item \in Items : item.row \in Rows
    BY DEF Items
  <2> QED
    BY <1>1, <2>1
<1>3. CASE InsertSucceeds(f)
  BY <1>3, InsertSucceedsStep
<1>4. CASE TransientFailure(f)
  <2>1. PICK applied \in SUBSET RowsOf(f.batch) :
          /\ Insert(applied)
          /\ doubtful' = doubtful \cup applied
    BY <1>4 DEF TransientFailure
  <2>2. /\ TryAgain(f, f.batch, f.truncated, queue[f.table])
        /\ UNCHANGED <<phase, accepted>>
    BY <1>4 DEF TransientFailure
  <2>3. /\ stored \subseteq stored' /\ stored' \subseteq Rows
        /\ doubtful' \subseteq Rows /\ repeated' \subseteq Rows
    BY <1>2, <2>1 DEF Insert, TypeOK
  <2> QED
    BY <1>1, <2>2, <2>3, FailureStep
<1>5. CASE StringLengthFailure(f)
  <2> DEFINE split == SplitPoint(Len(f.batch))
             kept == Taken(f.batch, split)
             rest == Remaining(f.batch, split)
             back == [i \in DOMAIN rest |-> Requeued(rest[i], rest[i].attempts)]
  <2>1. /\ TryAgain(f, kept, f.truncated, back \o queue[f.table])
        /\ UNCHANGED <<phase, accepted, stored, doubtful, repeated>>
    BY <1>5 DEF StringLengthFailure
  <2>2. split \in 0..Len(f.batch)
    <3>1. Len(f.batch) \in Nat
      BY <1>1
    <3> QED
      BY <3>1, SplitPointBounded
  <2>3. /\ kept \in Seq(Items) /\ rest \in Seq(Items)
        /\ RowsOf(f.batch) = RowsOf(kept) \cup RowsOf(rest)
    BY <1>1, <2>2, SpliceKeepsRows
  <2> HIDE DEF split, kept, rest
  <2>4. \A item \in Items : /\ Requeued(item, item.attempts) \in Items
                            /\ Requeued(item, item.attempts).row = item.row
    BY DEF Items, Requeued
  <2>5. back \in Seq(Items) /\ RowsOf(back) = RowsOf(rest)
    BY <2>3, <2>4
  <2> HIDE DEF back
  <2>6. /\ back \o queue[f.table] \in Seq(Items)
        /\ RowsOf(back \o queue[f.table]) = RowsOf(back) \cup RowsOf(queue[f.table])
    BY <1>1, <2>5, RowsOfConcat
  <2> HIDE DEF RowsOf
  <2>7. RowsOf(f.batch) \cup RowsOf(queue[f.table])
          \subseteq RowsOf(kept) \cup RowsOf(back \o queue[f.table])
    BY <2>3, <2>5, <2>6
  <2>8. /\ stored \subseteq stored' /\ stored' \subseteq Rows
        /\ doubtful' \subseteq Rows /\ repeated' \subseteq Rows
    BY <2>1 DEF TypeOK
  <2> QED
    BY <1>1, <2>1, <2>3, <2>6, <2>7, <2>8, FailureStep
<1>6. CASE SizeFailure(f)
  <2>1. /\ TryAgain(f, f.batch, TRUE, queue[f.table])
        /\ UNCHANGED <<phase, accepted, stored, doubtful, repeated>>
    BY <1>6 DEF SizeFailure
  <2>2. /\ stored \subseteq stored' /\ stored' \subseteq Rows
        /\ doubtful' \subseteq Rows /\ repeated' \subseteq Rows
    BY <2>1 DEF TypeOK
  <2> QED
    BY <1>1, <2>1, <2>2, FailureStep
<1>7. CASE FatalFailure(f)
  <2>1. /\ GiveUp(f, f.batch, queue[f.table])
        /\ UNCHANGED <<phase, accepted, stored, doubtful, repeated>>
    BY <1>7 DEF FatalFailure
  <2>2. FlushTypeOK
    BY DEF TypeOK, FlushTypeOK
  <2>3. /\ FlushTypeOK'
        /\ dropped \subseteq dropped'
        /\ flights' = flights \ {f}
        /\ \A t \in Tables \ {f.table} : queue'[t] = queue[t]
        /\ RowsOf(f.batch) \cup RowsOf(queue[f.table])
             \subseteq RowsOf(queue'[f.table]) \cup dropped'
    BY <1>1, <2>1, <2>2, GiveUpKeepsRows
  <2>4. Queued \subseteq Queued' \cup dropped'
    BY <1>1, <2>3 DEF Queued
  <2>5. InFlight \subseteq InFlight' \cup RowsOf(f.batch)
    BY <2>3 DEF InFlight
  <2>6. RowsOf(queue'[f.table]) \subseteq Queued'
    BY <1>1 DEF Queued
  <2> HIDE DEF RowsOf
  <2> QED
    BY <2>1, <2>3, <2>4, <2>5, <2>6 DEF TypeOK, FlushTypeOK, RowsKept, Held
<1> QED
  BY <1>3, <1>4, <1>5, <1>6, <1>7 DEF Resolve

LEMMA NextStep == TypeOK /\ [Next]_vars => TypeOK' /\ RowsKept
<1> SUFFICES ASSUME TypeOK, [Next]_vars
             PROVE  TypeOK' /\ RowsKept
  OBVIOUS
<1>1. ASSUME NEW r \in Rows, NEW t \in Tables, AddToQueue(r, t)
      PROVE  TypeOK' /\ RowsKept
  BY <1>1, AddToQueueStep
<1>2. CASE IntervalFlush
  <2>1. /\ FlushAll(FALSE, "interval")
        /\ UNCHANGED history
        /\ phase' \in {"running", "draining", "final", "closed"}
    BY <1>2 DEF IntervalFlush, TypeOK
  <2> QED
    BY <2>1, FlushAllStep DEF Origins
<1>3. ASSUME NEW f \in flights, Resolve(f)
      PROVE  TypeOK' /\ RowsKept
  BY <1>3, ResolveStep
<1>4. CASE FinalFlush
  <2>1. /\ FlushAll(TRUE, "final")
        /\ UNCHANGED history
        /\ phase' \in {"running", "draining", "final", "closed"}
    BY <1>4 DEF FinalFlush
  <2> QED
    BY <2>1, FlushAllStep DEF Origins
<1>5. CASE Shutdown \/ ShutdownComplete
  BY <1>5 DEF Shutdown, ShutdownComplete, history, TypeOK, RowsKept, Held, Queued, InFlight
<1>6. CASE UNCHANGED vars
  BY <1>6 DEF vars, TypeOK, RowsKept, Held, Queued, InFlight
<1> QED
  BY <1>1, <1>2, <1>3, <1>4, <1>5, <1>6 DEF Next, Closed

-----------------------------------------------------------------------------
(* The theorems.                                                           *)

(* The queues, the flushes and the counters of the writer always have the  *)
(* shape the code relies on: in particular no item is ever tried with more *)
(* than MaxAttempts attempts and no flush makes more than MaxAttempts.     *)
THEOREM Typing == Spec => []TypeOK
<1>1. Init => TypeOK
  BY DEF Init, TypeOK
<1>2. TypeOK /\ [Next]_vars => TypeOK'
  BY NextStep
<1> QED
  BY <1>1, <1>2, PTL DEF Spec

(* No row handed to addToQueue vanishes, for every number of tables, rows, *)
(* attempts and every batch size: splices, splits, retries and requeues    *)
(* keep it until it is in ClickHouse or counted as dropped.                *)
THEOREM NoRowLostHolds == Spec => []NoRowLost
<1>1. Init => NoRowLost
  BY DEF Init, NoRowLost
<1>2. TypeOK /\ NoRowLost /\ [Next]_vars => NoRowLost'
  BY NextStep DEF NoRowLost, RowsKept
<1> QED
  BY <1>1, <1>2, Typing, PTL DEF Spec
-----------------------------------------------------------------------------
(* One place per row.  The items of a list as a set, a list that carries   *)
(* no row twice, and what the list operations do to both.                  *)

ItemsOf(s) == {s[i] : i \in DOMAIN s}

Distinct(s) == \A i, j \in DOMAIN s : s[i].row = s[j].row => i = j

LEMMA RowsOfItems ==
    ASSUME NEW s \in Seq(Items)
    PROVE  RowsOf(s) = {x.row : x \in ItemsOf(s)} /\ ItemsOf(s) \subseteq Items
  BY DEF ItemsOf

LEMMA ConcatPlaces ==
    ASSUME NEW s \in Seq(Items), NEW t \in Seq(Items)
    PROVE  /\ ItemsOf(s \o t) = ItemsOf(s) \cup ItemsOf(t)
           /\ Distinct(s) /\ Distinct(t) /\ RowsOf(s) \cap RowsOf(t) = {} => Distinct(s \o t)
<1> DEFINE q == s \o t
<1>1. Len(s) \in Nat /\ Len(t) \in Nat /\ DOMAIN s = 1..Len(s) /\ DOMAIN t = 1..Len(t)
  OBVIOUS
<1>2. \A i \in DOMAIN s : q[i] = s[i] /\ i \in DOMAIN q
  OBVIOUS
<1>3. \A i \in DOMAIN t : q[Len(s) + i] = t[i] /\ Len(s) + i \in DOMAIN q
  OBVIOUS
<1>4. \A i \in DOMAIN q :
        \/ i \in DOMAIN s
        \/ i - Len(s) \in DOMAIN t /\ i = Len(s) + (i - Len(s))
  OBVIOUS
<1> HIDE DEF q
<1>5. ItemsOf(q) = ItemsOf(s) \cup ItemsOf(t)
  <2>1. ItemsOf(s) \cup ItemsOf(t) \subseteq ItemsOf(q)
    BY <1>2, <1>3 DEF ItemsOf
  <2>2. ItemsOf(q) \subseteq ItemsOf(s) \cup ItemsOf(t)
    BY <1>2, <1>3, <1>4 DEF ItemsOf
  <2> QED
    BY <2>1, <2>2
<1>6. ASSUME Distinct(s), Distinct(t), RowsOf(s) \cap RowsOf(t) = {}
      PROVE  Distinct(q)
  <2> SUFFICES ASSUME NEW i \in DOMAIN q, NEW j \in DOMAIN q, q[i].row = q[j].row
               PROVE  i = j
    BY DEF Distinct
  <2>1. \A k \in DOMAIN s : s[k].row \in RowsOf(s)
    OBVIOUS
  <2>2. \A k \in DOMAIN t : t[k].row \in RowsOf(t)
    OBVIOUS
  <2>3. CASE i \in DOMAIN s /\ j \in DOMAIN s
    BY <1>2, <1>6, <2>3 DEF Distinct
  <2>4. CASE i \in DOMAIN s /\ j - Len(s) \in DOMAIN t /\ j = Len(s) + (j - Len(s))
    <3>1. q[i] = s[i] /\ q[j] = t[j - Len(s)]
      BY <1>2, <1>3, <2>4
    <3> QED
      BY <1>6, <2>1, <2>2, <2>4, <3>1
  <2>5. CASE j \in DOMAIN s /\ i - Len(s) \in DOMAIN t /\ i = Len(s) + (i - Len(s))
    <3>1. q[j] = s[j] /\ q[i] = t[i - Len(s)]
      BY <1>2, <1>3, <2>5
    <3> QED
      BY <1>6, <2>1, <2>2, <2>5, <3>1
  <2>6. CASE /\ i - Len(s) \in DOMAIN t /\ i = Len(s) + (i - Len(s))
             /\ j - Len(s) \in DOMAIN t /\ j = Len(s) + (j - Len(s))
    <3>1. q[i] = t[i - Len(s)] /\ q[j] = t[j - Len(s)]
      BY <1>3, <2>6
    <3>2. i - Len(s) = j - Len(s)
      BY <1>6, <2>6, <3>1 DEF Distinct
    <3> QED
      BY <2>6, <3>2
  <2> QED
    BY <1>4, <2>3, <2>4, <2>5, <2>6
<1> QED
  BY <1>5, <1>6 DEF q

LEMMA AppendPlaces ==
    ASSUME NEW s \in Seq(Items), NEW item \in Items
    PROVE  /\ ItemsOf(Append(s, item)) = ItemsOf(s) \cup {item}
           /\ Distinct(s) /\ item.row \notin RowsOf(s) => Distinct(Append(s, item))
<1> DEFINE one == <<item>>
<1>1. Append(s, item) = s \o one /\ one \in Seq(Items)
  OBVIOUS
<1>2. DOMAIN one = {1} /\ one[1] = item
  OBVIOUS
<1> HIDE DEF one
<1>3. ItemsOf(one) = {item}
  BY <1>2 DEF ItemsOf
<1>4. RowsOf(one) = {item.row}
  BY <1>2
<1>5. Distinct(one)
  BY <1>2 DEF Distinct
<1> HIDE DEF RowsOf
<1>6. /\ ItemsOf(s \o one) = ItemsOf(s) \cup ItemsOf(one)
      /\ Distinct(s) /\ Distinct(one) /\ RowsOf(s) \cap RowsOf(one) = {} => Distinct(s \o one)
  BY <1>1, ConcatPlaces
<1>7. item.row \notin RowsOf(s) => RowsOf(s) \cap RowsOf(one) = {}
  BY <1>4
<1> QED
  BY <1>1, <1>3, <1>5, <1>6, <1>7

(* The two parts of a splice hold the same items as the whole, and, if it  *)
(* carries no row twice, share no row.                                     *)
LEMMA SplicePlaces ==
    ASSUME NEW q \in Seq(Items), NEW n \in 0..Len(q)
    PROVE  /\ ItemsOf(q) = ItemsOf(Taken(q, n)) \cup ItemsOf(Remaining(q, n))
           /\ Distinct(q) => /\ Distinct(Taken(q, n)) /\ Distinct(Remaining(q, n))
                             /\ RowsOf(Taken(q, n)) \cap RowsOf(Remaining(q, n)) = {}
<1> DEFINE a == Taken(q, n)
           b == Remaining(q, n)
<1>1. a \in Seq(Items) /\ Len(a) = n /\ \A i \in 1..n : a[i] = q[i]
  BY DEF Taken
<1>2. b \in Seq(Items) /\ Len(b) = Len(q) - n /\ \A i \in 1..(Len(q) - n) : b[i] = q[n + i]
  BY DEF Remaining
<1> HIDE DEF a, b
<1>3. \A i \in DOMAIN a : i \in DOMAIN q /\ i \in 1..n /\ a[i] = q[i]
  BY <1>1
<1>4. \A i \in DOMAIN b : i \in Nat /\ n + i \in DOMAIN q /\ n + i \notin 1..n /\ b[i] = q[n + i]
  BY <1>2
<1>5. ItemsOf(q) \subseteq ItemsOf(a) \cup ItemsOf(b)
  <2> SUFFICES ASSUME NEW i \in DOMAIN q
               PROVE  q[i] \in ItemsOf(a) \cup ItemsOf(b)
    BY DEF ItemsOf
  <2>1. CASE i \in 1..n
    <3>1. a[i] = q[i] /\ i \in DOMAIN a
      BY <2>1, <1>1
    <3> QED
      BY <3>1 DEF ItemsOf
  <2>2. CASE i \notin 1..n
    <3>1. b[i - n] = q[i] /\ i - n \in DOMAIN b
      BY <2>2, <1>2
    <3> QED
      BY <3>1 DEF ItemsOf
  <2> QED
    BY <2>1, <2>2
<1>6. ItemsOf(a) \cup ItemsOf(b) \subseteq ItemsOf(q)
  BY <1>3, <1>4 DEF ItemsOf
<1>7. ASSUME Distinct(q)
      PROVE  Distinct(a) /\ Distinct(b) /\ RowsOf(a) \cap RowsOf(b) = {}
  <2>1. Distinct(a)
    BY <1>3, <1>7 DEF Distinct
  <2>2. ASSUME NEW i \in DOMAIN b, NEW j \in DOMAIN b, b[i].row = b[j].row
        PROVE  i = j
    <3>1. n + i = n + j
      BY <1>4, <1>7, <2>2 DEF Distinct
    <3> QED
      BY <1>4, <3>1
  <2>3. ASSUME NEW i \in DOMAIN a, NEW j \in DOMAIN b
        PROVE  a[i].row # b[j].row
    BY <1>3, <1>4, <1>7 DEF Distinct
  <2> QED
    BY <2>1, <2>2, <2>3 DEF Distinct
<1> QED
  BY <1>5, <1>6, <1>7 DEF a, b

(* Items put back unchanged but for their mark and attempts keep their     *)
(* places.                                                                 *)
Back(s) == [i \in DOMAIN s |-> Requeued(s[i], s[i].attempts)]

LEMMA BackPlaces ==
    ASSUME NEW s \in Seq(Items)
    PROVE  /\ Back(s) \in Seq(Items) /\ RowsOf(Back(s)) = RowsOf(s)
           /\ Distinct(s) => Distinct(Back(s))
           /\ \A x \in ItemsOf(Back(s)) :
                 x.requeued /\ \E y \in ItemsOf(s) : y.row = x.row /\ y.attempts = x.attempts
<1>1. \A item \in Items : /\ Requeued(item, item.attempts) \in Items
                          /\ Requeued(item, item.attempts).row = item.row
                          /\ Requeued(item, item.attempts).attempts = item.attempts
                          /\ Requeued(item, item.attempts).requeued = TRUE
  BY DEF Items, Requeued
<1>2. Back(s) \in Seq(Items) /\ DOMAIN Back(s) = DOMAIN s
  BY <1>1 DEF Back
<1>3. \A i \in DOMAIN s : /\ Back(s)[i].row = s[i].row /\ Back(s)[i].attempts = s[i].attempts
                          /\ Back(s)[i].requeued = TRUE
  BY <1>1 DEF Back
<1>4. RowsOf(Back(s)) = RowsOf(s)
  BY <1>2, <1>3
<1>5. Distinct(s) => Distinct(Back(s))
  BY <1>2, <1>3 DEF Distinct
<1>6. \A x \in ItemsOf(Back(s)) :
          x.requeued /\ \E y \in ItemsOf(s) : y.row = x.row /\ y.attempts = x.attempts
  BY <1>2, <1>3 DEF ItemsOf
<1> QED
  BY <1>2, <1>4, <1>5, <1>6

(* The items a failed flush puts back: once each, with one more attempt.   *)
Again(batch, pos) ==
    [i \in DOMAIN pos |-> Requeued(batch[pos[i]], batch[pos[i]].attempts + 1)]

LEMMA AgainPlaces ==
    ASSUME NEW batch \in Seq(Items), NEW pos \in RetryOrders(batch)
    PROVE  /\ Distinct(batch) => Distinct(Again(batch, pos))
           /\ \A x \in ItemsOf(Again(batch, pos)) :
                 x.requeued /\ \E y \in ItemsOf(batch) : y.row = x.row /\ y.attempts + 1 = x.attempts
<1> DEFINE retriable == {i \in DOMAIN batch : batch[i].attempts < MaxAttempts}
           n == Cardinality(retriable)
           again == Again(batch, pos)
<1>1. n \in Nat
  <2>1. IsFiniteSet(DOMAIN batch)
    <3>1. DOMAIN batch = 1..Len(batch) /\ Len(batch) \in Int
      OBVIOUS
    <3> QED
      BY <3>1, FS_Interval
  <2>2. IsFiniteSet(retriable)
    BY <2>1, FS_Subset
  <2> QED
    BY <2>2, FS_CardinalityType
<1>2. /\ pos \in [1..n -> retriable]
      /\ \A i, j \in 1..n : i < j => pos[i] < pos[j]
  BY DEF RetryOrders
<1>3. DOMAIN again = 1..n /\ DOMAIN pos = 1..n
  BY <1>2 DEF Again
<1>4. ASSUME NEW i \in 1..n
      PROVE  /\ pos[i] \in DOMAIN batch /\ batch[pos[i]] \in Items
             /\ again[i] = Requeued(batch[pos[i]], batch[pos[i]].attempts + 1)
  BY <1>2, <1>3 DEF Again
<1>5. ASSUME NEW i \in 1..n
      PROVE  /\ again[i].row = batch[pos[i]].row /\ again[i].requeued = TRUE
             /\ again[i].attempts = batch[pos[i]].attempts + 1
  <2>1. \A x, k : /\ Requeued(x, k).row = x.row /\ Requeued(x, k).attempts = k
                  /\ Requeued(x, k).requeued = TRUE
    BY DEF Requeued
  <2> HIDE DEF n, again
  <2> QED
    BY <1>4, <2>1
<1> HIDE DEF n, again
<1>6. ASSUME Distinct(batch), NEW i \in 1..n, NEW j \in 1..n, again[i].row = again[j].row
      PROVE  i = j
  <2>1. pos[i] = pos[j]
    <3>1. pos[i] \in DOMAIN batch /\ pos[j] \in DOMAIN batch /\ batch[pos[i]].row = batch[pos[j]].row
      BY <1>4, <1>5, <1>6
    <3> QED
      BY <1>6, <3>1 DEF Distinct
  <2>3. pos[i] \in Int
    BY <1>4
  <2>2. ~(i < j) /\ ~(j < i)
    BY <1>2, <2>1, <2>3
  <2> QED
    BY <1>1, <2>2
<1>7. Distinct(batch) => Distinct(again)
  BY <1>3, <1>6 DEF Distinct
<1>8. \A x \in ItemsOf(again) :
          x.requeued /\ \E y \in ItemsOf(batch) : y.row = x.row /\ y.attempts + 1 = x.attempts
  <2> SUFFICES ASSUME NEW i \in 1..n
               PROVE  again[i].requeued /\ \E y \in ItemsOf(batch) :
                          y.row = again[i].row /\ y.attempts + 1 = again[i].attempts
    BY <1>3 DEF ItemsOf
  <2>1. batch[pos[i]] \in ItemsOf(batch)
    BY <1>4 DEF ItemsOf
  <2> QED
    BY <1>5, <2>1
<1> QED
  BY <1>7, <1>8 DEF again

-----------------------------------------------------------------------------
(* The invariant behind the remaining properties.                          *)

HIDE DEF RowsOf

(* Every row has one place: in a queue, in a flight, or among the dropped. *)
OnePlace ==
    /\ \A t \in Tables : Distinct(queue[t]) /\ RowsOf(queue[t]) \cap dropped = {}
    /\ \A t, u \in Tables : t # u => RowsOf(queue[t]) \cap RowsOf(queue[u]) = {}
    /\ \A f \in flights : Distinct(f.batch) /\ RowsOf(f.batch) \cap dropped = {}
    /\ \A f, g \in flights : f # g => RowsOf(f.batch) \cap RowsOf(g.batch) = {}
    /\ \A t \in Tables, f \in flights : RowsOf(queue[t]) \cap RowsOf(f.batch) = {}

(* The attempts an item carries count the failures of its row.             *)
Charged(s) == \A x \in ItemsOf(s) : failures[x.row] = x.attempts - 1

Charges ==
    /\ \A t \in Tables : Charged(queue[t])
    /\ \A f \in flights : Charged(f.batch)
    /\ \A r \in dropped : failures[r] = MaxAttempts
    /\ \A r \in Rows \ accepted : failures[r] = 0

OnlyAccepted == Held \cup dropped \cup stored \subseteq accepted

(* A row that is held although ClickHouse has it was reported as failed.   *)
HeldThoughStored == Held \cap stored \subseteq doubtful /\ repeated \subseteq doubtful

(* After the final splice only what a flush put back is in a queue.        *)
LastFlush ==
    /\ phase \in {"final", "closed"} => \A t \in Tables : \A x \in ItemsOf(queue[t]) : x.requeued
    /\ phase = "closed" => flights = {}

IInv == TypeOK /\ OnePlace /\ Charges /\ OnlyAccepted /\ HeldThoughStored /\ LastFlush

(* What one try of the flight f comes to: the flights of N go on with it,  *)
(* the rows of gone leave the writer, those of D by being dropped, and the *)
(* others are in N or in the queue of the table.                           *)
Exchange(f, N, gone, D) ==
    /\ flights' = (flights \ {f}) \cup N /\ \A g, h \in N : g = h
    /\ \A t \in Tables \ {f.table} : queue'[t] = queue[t]
    /\ dropped' = dropped \cup D /\ D \subseteq gone /\ gone \subseteq RowsOf(f.batch)
    /\ Distinct(queue'[f.table]) /\ \A g \in N : Distinct(g.batch)
    /\ \A g \in N : /\ RowsOf(g.batch) \subseteq RowsOf(f.batch)
                    /\ RowsOf(g.batch) \cap RowsOf(queue'[f.table]) = {}
    /\ RowsOf(queue'[f.table]) \cup UNION {RowsOf(g.batch) : g \in N} =
          (RowsOf(queue[f.table]) \cup RowsOf(f.batch)) \ gone
    /\ \A x \in ItemsOf(queue'[f.table]) :
          /\ failures'[x.row] = x.attempts - 1
          /\ x.requeued \/ x \in ItemsOf(queue[f.table])
    /\ \A g \in N : \A x \in ItemsOf(g.batch) : failures'[x.row] = x.attempts - 1
    /\ \A r \in D : failures'[r] = MaxAttempts
    /\ \A r \in Rows \ RowsOf(f.batch) : failures'[r] = failures[r]

(* The catch block deals with every item of the batch, once.               *)
LEMMA GiveUpPlaces ==
    ASSUME FlushTypeOK, NEW f \in flights, NEW batch \in Seq(Items), NEW q \in Seq(Items),
           GiveUp(f, batch, q), Distinct(batch), Distinct(q), RowsOf(batch) \cap RowsOf(q) = {},
           Charged(batch), Charged(q)
    PROVE  \E D \in SUBSET RowsOf(batch) :
              /\ dropped' = dropped \cup D
              /\ Distinct(queue'[f.table])
              /\ RowsOf(queue'[f.table]) = RowsOf(q) \cup (RowsOf(batch) \ D)
              /\ \A x \in ItemsOf(queue'[f.table]) :
                    failures'[x.row] = x.attempts - 1 /\ (x.requeued \/ x \in ItemsOf(q))
              /\ \A r \in D : failures'[r] = MaxAttempts
              /\ \A r \in Rows \ RowsOf(batch) : failures'[r] = failures[r]
<1> DEFINE gone == {j \in DOMAIN batch : batch[j].attempts >= MaxAttempts}
           back == {j \in DOMAIN batch : batch[j].attempts < MaxAttempts}
           D == {batch[i].row : i \in gone}
<1>1. f.table \in Tables /\ MaxAttempts \in Nat
  BY MaxAttemptsAssumption DEF FlushTypeOK, Flights
<1>2. \A item \in Items : item.row \in Rows /\ item.attempts \in 1..MaxAttempts
  BY DEF Items
<1>3. \A i \in DOMAIN batch : batch[i] \in Items /\ batch[i].attempts \in 1..MaxAttempts
  BY <1>2
<1>4. PICK pos \in RetryOrders(batch) :
        queue' = [queue EXCEPT ![f.table] = q \o Again(batch, pos)]
  BY DEF GiveUp, Again
<1> DEFINE again == Again(batch, pos)
<1>5. again \in Seq(Items) /\ RowsOf(again) = {batch[i].row : i \in back}
  BY RetriedRows DEF Again, RowsOf
<1>6. /\ Distinct(again)
      /\ \A x \in ItemsOf(again) :
            x.requeued /\ \E y \in ItemsOf(batch) : y.row = x.row /\ y.attempts + 1 = x.attempts
  BY AgainPlaces
<1> HIDE DEF again
<1>7. queue'[f.table] = q \o again
  BY <1>1, <1>4 DEF FlushTypeOK, again
<1>8. RowsOf(batch) = {batch[i].row : i \in DOMAIN batch}
  BY DEF RowsOf
<1>9. RowsOf(again) = RowsOf(batch) \ D /\ D \subseteq RowsOf(batch)
  <2>1. DOMAIN batch = back \cup gone /\ back \cap gone = {}
    <3>1. \A i \in DOMAIN batch : batch[i].attempts \in Int
      BY <1>3
    <3>2. MaxAttempts \in Int
      BY <1>1
    <3>3. \A i \in DOMAIN batch : /\ batch[i].attempts < MaxAttempts \/ batch[i].attempts >= MaxAttempts
                                  /\ ~(batch[i].attempts < MaxAttempts /\ batch[i].attempts >= MaxAttempts)
      BY <3>1, <3>2
    <3> QED
      BY <3>3
  <2>2. \A i \in back, j \in gone : batch[i].row # batch[j].row
    BY <2>1 DEF Distinct
  <2> HIDE DEF back, gone
  <2> QED
    BY <1>5, <1>8, <2>1, <2>2
<1>10. RowsOf(q) \cap RowsOf(again) = {}
  BY <1>9
<1>11. /\ Distinct(q \o again) /\ ItemsOf(q \o again) = ItemsOf(q) \cup ItemsOf(again)
       /\ RowsOf(q \o again) = RowsOf(q) \cup RowsOf(again)
  BY <1>5, <1>6, <1>10, ConcatPlaces, RowsOfConcat
<1>12. dropped' = dropped \cup D
  BY DEF GiveUp, RowsOf
<1>13. /\ \A r \in RowsOf(batch) : r \in Rows /\ failures'[r] = failures[r] + 1
       /\ \A r \in Rows \ RowsOf(batch) : failures'[r] = failures[r]
  BY <1>2, <1>3, <1>8 DEF GiveUp
<1>14. ASSUME NEW x \in ItemsOf(q)
       PROVE  failures'[x.row] = x.attempts - 1
  <2>1. x.row \in RowsOf(q) /\ x.row \in Rows
    BY <1>2, RowsOfItems
  <2> QED
    BY <1>13, <1>14, <2>1 DEF Charged
<1>15. ASSUME NEW x \in ItemsOf(again)
       PROVE  failures'[x.row] = x.attempts - 1
  <2>1. PICK y \in ItemsOf(batch) : y.row = x.row /\ y.attempts + 1 = x.attempts
    BY <1>6
  <2>2. y.row \in RowsOf(batch) /\ y.attempts \in 1..MaxAttempts
    BY <1>2, RowsOfItems
  <2>3. failures[y.row] = y.attempts - 1
    BY DEF Charged
  <2> QED
    BY <1>1, <1>13, <2>1, <2>2, <2>3
<1>16. ASSUME NEW r \in D
       PROVE  failures'[r] = MaxAttempts
  <2>1. PICK i \in gone : r = batch[i].row
    OBVIOUS
  <2>2. batch[i] \in ItemsOf(batch) /\ batch[i].row \in RowsOf(batch)
    BY <1>8 DEF ItemsOf
  <2>3. failures[r] = batch[i].attempts - 1
    BY <2>1, <2>2 DEF Charged
  <2>4. batch[i].attempts = MaxAttempts
    BY <1>1, <1>3
  <2> QED
    BY <1>1, <1>13, <2>1, <2>2, <2>3, <2>4
<1> HIDE DEF D
<1>17. /\ D \in SUBSET RowsOf(batch) /\ dropped' = dropped \cup D
       /\ Distinct(queue'[f.table])
       /\ RowsOf(queue'[f.table]) = RowsOf(q) \cup (RowsOf(batch) \ D)
  BY <1>7, <1>9, <1>11, <1>12
<1>18. \A x \in ItemsOf(queue'[f.table]) :
          failures'[x.row] = x.attempts - 1 /\ (x.requeued \/ x \in ItemsOf(q))
  BY <1>6, <1>7, <1>11, <1>14, <1>15
<1> QED
  BY <1>13, <1>16, <1>17, <1>18

(* A failed try is an exchange, if batch and q share out what the flight   *)
(* and its queue had.                                                      *)
LEMMA TryAgainExchanges ==
    ASSUME FlushTypeOK, NEW f \in flights, NEW batch \in Seq(Items), NEW q \in Seq(Items),
           NEW truncated \in BOOLEAN,
           \/ TryAgain(f, batch, truncated, q)
           \/ GiveUp(f, batch, q),
           Distinct(batch), Distinct(q), RowsOf(batch) \cap RowsOf(q) = {},
           Charged(batch), Charged(q),
           RowsOf(batch) \cup RowsOf(q) = RowsOf(f.batch) \cup RowsOf(queue[f.table]),
           RowsOf(batch) \subseteq RowsOf(f.batch),
           \A x \in ItemsOf(q) : x.requeued \/ x \in ItemsOf(queue[f.table])
    PROVE  \E N \in SUBSET {NextTry(f, batch, truncated)}, D \in SUBSET Rows : Exchange(f, N, D, D)
<1>1. f.table \in Tables
  BY DEF FlushTypeOK, Flights
<1>2. CASE GiveUp(f, batch, q)
  <2>1. PICK D \in SUBSET RowsOf(batch) :
              /\ dropped' = dropped \cup D
              /\ Distinct(queue'[f.table])
              /\ RowsOf(queue'[f.table]) = RowsOf(q) \cup (RowsOf(batch) \ D)
              /\ \A x \in ItemsOf(queue'[f.table]) :
                    failures'[x.row] = x.attempts - 1 /\ (x.requeued \/ x \in ItemsOf(q))
              /\ \A r \in D : failures'[r] = MaxAttempts
              /\ \A r \in Rows \ RowsOf(batch) : failures'[r] = failures[r]
    BY <1>2, GiveUpPlaces
  <2>2. /\ flights' = flights \ {f}
        /\ \A t \in Tables \ {f.table} : queue'[t] = queue[t]
    BY <1>2, GiveUpKeepsRows
  <2>3. RowsOf(batch) \subseteq Rows
    <3>1. \A item \in Items : item.row \in Rows
      BY DEF Items
    <3> QED
      BY <3>1, RowsOfItems
  <2>4. RowsOf(queue'[f.table]) = (RowsOf(queue[f.table]) \cup RowsOf(f.batch)) \ D
    BY <2>1
  <2>5. Exchange(f, {}, D, D)
    BY <2>1, <2>2, <2>4 DEF Exchange
  <2> QED
    BY <2>3, <2>5
<1>3. CASE TryAgain(f, batch, truncated, q) /\ f.tries + 1 < MaxAttempts
  <2> DEFINE g == NextTry(f, batch, truncated)
  <2>1. /\ flights' = (flights \ {f}) \cup {g}
        /\ queue' = [queue EXCEPT ![f.table] = q]
        /\ dropped' = dropped /\ failures' = failures
    BY <1>3 DEF TryAgain
  <2>2. g.batch = batch
    BY DEF NextTry
  <2>3. queue'[f.table] = q /\ \A t \in Tables \ {f.table} : queue'[t] = queue[t]
    BY <1>1, <2>1 DEF FlushTypeOK
  <2> HIDE DEF g
  <2>4. UNION {RowsOf(h.batch) : h \in {g}} = RowsOf(batch)
    BY <2>2
  <2>5. Exchange(f, {g}, {}, {})
    BY <2>1, <2>2, <2>3, <2>4 DEF Exchange, Charged
  <2> QED
    BY <2>5 DEF g
<1>4. CASE TryAgain(f, batch, truncated, q) /\ ~(f.tries + 1 < MaxAttempts)
  BY <1>2, <1>4 DEF TryAgain
<1> QED
  BY <1>2, <1>3, <1>4

(* An exchange keeps the invariant, and only the rows of gone leave.       *)
LEMMA ExchangeKeeps ==
    ASSUME IInv, NEW f \in flights, NEW N, NEW gone, NEW D, Exchange(f, N, gone, D),
           UNCHANGED <<phase, accepted>>
    PROVE  /\ OnePlace' /\ Charges' /\ LastFlush'
           /\ Held' = Held \ gone /\ gone \subseteq Held
<1> DEFINE u == f.table
<1>1. u \in Tables /\ f \in Flights
  BY DEF IInv, TypeOK, Flights
<1>2. /\ Distinct(queue[u]) /\ RowsOf(queue[u]) \cap dropped = {}
      /\ Distinct(f.batch) /\ RowsOf(f.batch) \cap dropped = {}
      /\ RowsOf(queue[u]) \cap RowsOf(f.batch) = {}
  BY <1>1 DEF IInv, OnePlace
<1>3. ASSUME NEW t \in Tables \ {u}
      PROVE  /\ queue'[t] = queue[t] /\ Distinct(queue[t]) /\ RowsOf(queue[t]) \cap dropped = {}
             /\ RowsOf(queue[t]) \cap RowsOf(queue[u]) = {} /\ RowsOf(queue[t]) \cap RowsOf(f.batch) = {}
  BY <1>1 DEF IInv, OnePlace, Exchange
<1>4. ASSUME NEW g \in flights \ {f}
      PROVE  /\ Distinct(g.batch) /\ RowsOf(g.batch) \cap dropped = {}
             /\ RowsOf(g.batch) \cap RowsOf(f.batch) = {} /\ RowsOf(queue[u]) \cap RowsOf(g.batch) = {}
  BY <1>1 DEF IInv, OnePlace
<1>5. /\ flights' = (flights \ {f}) \cup N /\ \A g, h \in N : g = h
      /\ dropped' = dropped \cup D /\ D \subseteq gone /\ gone \subseteq RowsOf(f.batch)
      /\ Distinct(queue'[u]) /\ \A g \in N : Distinct(g.batch)
      /\ \A g \in N : /\ RowsOf(g.batch) \subseteq RowsOf(f.batch)
                      /\ RowsOf(g.batch) \cap RowsOf(queue'[u]) = {}
  BY DEF Exchange
<1>6. /\ RowsOf(queue'[u]) \cup UNION {RowsOf(g.batch) : g \in N} = (RowsOf(queue[u]) \cup RowsOf(f.batch)) \ gone
  BY DEF Exchange
<1>7. /\ RowsOf(queue'[u]) \subseteq (RowsOf(queue[u]) \cup RowsOf(f.batch)) \ gone
      /\ \A g \in N : RowsOf(g.batch) \cap gone = {}
  BY <1>6
<1> HIDE DEF u
<1>8. OnePlace'
  <2>1. \A t \in Tables : Distinct(queue'[t]) /\ RowsOf(queue'[t]) \cap dropped' = {}
    BY <1>2, <1>3, <1>5, <1>7
  <2>2. \A t, v \in Tables : t # v => RowsOf(queue'[t]) \cap RowsOf(queue'[v]) = {}
    <3>1. \A t \in Tables \ {u} : RowsOf(queue'[t]) \cap RowsOf(queue'[u]) = {}
      BY <1>3, <1>7
    <3>2. \A t, v \in Tables \ {u} : t # v => RowsOf(queue'[t]) \cap RowsOf(queue'[v]) = {}
      BY <1>3 DEF IInv, OnePlace
    <3> QED
      BY <1>1, <3>1, <3>2
  <2>3. \A g \in flights' : Distinct(g.batch) /\ RowsOf(g.batch) \cap dropped' = {}
    BY <1>2, <1>4, <1>5, <1>7
  <2>4. \A g, h \in flights' : g # h => RowsOf(g.batch) \cap RowsOf(h.batch) = {}
    <3>1. \A g, h \in flights \ {f} : g # h => RowsOf(g.batch) \cap RowsOf(h.batch) = {}
      BY DEF IInv, OnePlace
    <3>2. \A g \in flights \ {f}, h \in N : RowsOf(g.batch) \cap RowsOf(h.batch) = {}
      BY <1>4, <1>5
    <3> QED
      BY <1>5, <3>1, <3>2
  <2>5. \A t \in Tables, g \in flights' : RowsOf(queue'[t]) \cap RowsOf(g.batch) = {}
    <3>1. \A t \in Tables, g \in flights : RowsOf(queue[t]) \cap RowsOf(g.batch) = {}
      BY DEF IInv, OnePlace
    <3>2. \A t \in Tables \ {u}, g \in N : RowsOf(queue'[t]) \cap RowsOf(g.batch) = {}
      BY <1>3, <1>5
    <3>3. \A g \in flights \ {f} : RowsOf(queue'[u]) \cap RowsOf(g.batch) = {}
      BY <1>1, <1>4, <1>7, <3>1
    <3> QED
      BY <1>3, <1>5, <3>1, <3>2, <3>3
  <2> QED
    BY <2>1, <2>2, <2>3, <2>4, <2>5 DEF OnePlace
<1>9. Held' = Held \ gone /\ gone \subseteq Held
  <2>1. RowsOf(f.batch) \subseteq InFlight /\ RowsOf(queue[u]) \subseteq Queued
    BY <1>1 DEF InFlight, Queued
  <2>2. \A r : r \in Queued <=> r \in RowsOf(queue[u]) \/ \E t \in Tables \ {u} : r \in RowsOf(queue[t])
    BY <1>1 DEF Queued
  <2>3. \A r : r \in Queued' <=> r \in RowsOf(queue'[u]) \/ \E t \in Tables \ {u} : r \in RowsOf(queue[t])
    BY <1>1, <1>3 DEF Queued
  <2>4. \A r : r \in InFlight <=> r \in RowsOf(f.batch) \/ \E g \in flights \ {f} : r \in RowsOf(g.batch)
    BY DEF InFlight
  <2>5. \A r : r \in InFlight' <=> (\E g \in N : r \in RowsOf(g.batch))
                                    \/ \E g \in flights \ {f} : r \in RowsOf(g.batch)
    BY <1>5 DEF InFlight
  <2>6. \A r : r \in RowsOf(queue'[u]) \/ (\E g \in N : r \in RowsOf(g.batch))
                 <=> (r \in RowsOf(queue[u]) \/ r \in RowsOf(f.batch)) /\ r \notin gone
    BY <1>6
  <2>7. \A r \in gone : /\ \A t \in Tables \ {u} : r \notin RowsOf(queue[t])
                        /\ \A g \in flights \ {f} : r \notin RowsOf(g.batch)
    BY <1>3, <1>4, <1>5
  <2>8. \A r : r \in Held' <=> r \in Held /\ r \notin gone
    BY <2>2, <2>3, <2>4, <2>5, <2>6, <2>7 DEF Held
  <2> QED
    BY <1>5, <2>1, <2>8 DEF Held
<1>10. \A t \in Tables : \A x \in ItemsOf(queue[t]) : x.row \in RowsOf(queue[t]) /\ x.row \in Rows
  <2>1. \A item \in Items : item.row \in Rows
    BY DEF Items
  <2>2. \A t \in Tables : queue[t] \in Seq(Items)
    BY DEF IInv, TypeOK
  <2> QED
    BY <2>1, <2>2, RowsOfItems
<1>11. \A g \in flights : \A x \in ItemsOf(g.batch) : x.row \in RowsOf(g.batch) /\ x.row \in Rows
  <2>1. \A item \in Items : item.row \in Rows
    BY DEF Items
  <2>2. \A g \in flights : g.batch \in Seq(Items)
    BY DEF IInv, TypeOK, Flights
  <2> QED
    BY <2>1, <2>2, RowsOfItems
<1>12. /\ \A x \in ItemsOf(queue'[u]) : failures'[x.row] = x.attempts - 1 /\ (x.requeued \/ x \in ItemsOf(queue[u]))
       /\ \A g \in N : \A x \in ItemsOf(g.batch) : failures'[x.row] = x.attempts - 1
       /\ \A r \in D : failures'[r] = MaxAttempts
       /\ \A r \in Rows \ RowsOf(f.batch) : failures'[r] = failures[r]
  BY DEF Exchange, u
<1>13. /\ \A t \in Tables : \A x \in ItemsOf(queue[t]) : failures[x.row] = x.attempts - 1
       /\ \A g \in flights : \A x \in ItemsOf(g.batch) : failures[x.row] = x.attempts - 1
       /\ \A r \in dropped : failures[r] = MaxAttempts
       /\ \A r \in Rows \ accepted : failures[r] = 0
  BY DEF IInv, Charges, Charged
<1>14. Charges'
  <2>1. \A t \in Tables \ {u} : \A x \in ItemsOf(queue'[t]) : failures'[x.row] = x.attempts - 1
    BY <1>3, <1>10, <1>12, <1>13
  <2>2. \A g \in flights \ {f} : \A x \in ItemsOf(g.batch) : failures'[x.row] = x.attempts - 1
    BY <1>4, <1>11, <1>12, <1>13
  <2>3. \A r \in dropped' : failures'[r] = MaxAttempts
    <3>1. dropped \subseteq Rows
      BY DEF IInv, TypeOK
    <3> QED
      BY <1>2, <1>5, <1>12, <1>13, <3>1
  <2>4. \A r \in Rows \ accepted' : failures'[r] = 0
    <3>1. RowsOf(f.batch) \subseteq accepted
      BY DEF IInv, OnlyAccepted, Held, InFlight
    <3> QED
      BY <1>12, <1>13, <3>1
  <2>5. /\ \A t \in Tables : \A x \in ItemsOf(queue'[t]) : failures'[x.row] = x.attempts - 1
        /\ \A g \in flights' : \A x \in ItemsOf(g.batch) : failures'[x.row] = x.attempts - 1
    BY <1>5, <1>12, <2>1, <2>2
  <2> QED
    BY <2>3, <2>4, <2>5 DEF Charges, Charged
<1>15. LastFlush'
  BY <1>1, <1>3, <1>12 DEF IInv, LastFlush
<1> QED
  BY <1>8, <1>9, <1>14, <1>15

-----------------------------------------------------------------------------
(* Splicing.                                                               *)

(* OnePlace of the queues Q, which a step may splice before it ends.       *)
Placed(Q) ==
    /\ \A t \in Tables : Distinct(Q[t]) /\ RowsOf(Q[t]) \cap dropped = {}
    /\ \A t, u \in Tables : t # u => RowsOf(Q[t]) \cap RowsOf(Q[u]) = {}
    /\ \A f \in flights : Distinct(f.batch) /\ RowsOf(f.batch) \cap dropped = {}
    /\ \A f, g \in flights : f # g => RowsOf(f.batch) \cap RowsOf(g.batch) = {}
    /\ \A t \in Tables, f \in flights : RowsOf(Q[t]) \cap RowsOf(f.batch) = {}

(* The queues of S are spliced at n, and the flights of new take what the  *)
(* splices took, one for each of them.                                     *)
Spliced(Q, S, n, new) ==
    /\ \A t \in S : n[t] \in 0..Len(Q[t])
    /\ \A t \in S : queue'[t] = Remaining(Q[t], n[t])
    /\ \A t \in Tables \ S : queue'[t] = Q[t]
    /\ \A g \in new : g.table \in S /\ g.batch = Taken(Q[g.table], n[g.table])
    /\ \A g, h \in new : g.table = h.table => g = h
    /\ \A t \in S : \E g \in new : g.table = t
    /\ flights' = flights \cup new /\ dropped' = dropped

(* Splicing moves every item to one place and changes none.                *)
LEMMA SpliceKeeps ==
    ASSUME NEW Q \in [Tables -> Seq(Items)], Placed(Q), NEW S \in SUBSET Tables, NEW n, NEW new,
           Spliced(Q, S, n, new)
    PROVE  /\ OnePlace'
           /\ Held' = (UNION {RowsOf(Q[t]) : t \in Tables}) \cup InFlight
           /\ \A t \in Tables : ItemsOf(queue'[t]) \subseteq ItemsOf(Q[t])
           /\ \A g \in new : g.table \in Tables /\ ItemsOf(g.batch) \subseteq ItemsOf(Q[g.table])
<1>1. ASSUME NEW t \in S
      PROVE  /\ RowsOf(Q[t]) = RowsOf(Taken(Q[t], n[t])) \cup RowsOf(queue'[t])
             /\ ItemsOf(Q[t]) = ItemsOf(Taken(Q[t], n[t])) \cup ItemsOf(queue'[t])
             /\ Distinct(Taken(Q[t], n[t])) /\ Distinct(queue'[t])
             /\ RowsOf(Taken(Q[t], n[t])) \cap RowsOf(queue'[t]) = {}
  <2>1. Q[t] \in Seq(Items) /\ n[t] \in 0..Len(Q[t]) /\ queue'[t] = Remaining(Q[t], n[t])
    BY DEF Spliced
  <2>2. Distinct(Q[t])
    BY DEF Placed
  <2> QED
    BY <2>1, <2>2, SpliceKeepsRows, SplicePlaces
<1>2. ASSUME NEW g \in new
      PROVE  /\ g.table \in S /\ g.table \in Tables
             /\ RowsOf(g.batch) \subseteq RowsOf(Q[g.table])
             /\ ItemsOf(g.batch) \subseteq ItemsOf(Q[g.table])
             /\ Distinct(g.batch) /\ RowsOf(g.batch) \cap RowsOf(queue'[g.table]) = {}
  <2>1. g.table \in S /\ g.batch = Taken(Q[g.table], n[g.table])
    BY DEF Spliced
  <2> QED
    BY <1>1, <2>1
<1>3. ASSUME NEW t \in Tables
      PROVE  /\ RowsOf(queue'[t]) \subseteq RowsOf(Q[t])
             /\ ItemsOf(queue'[t]) \subseteq ItemsOf(Q[t]) /\ Distinct(queue'[t])
  <2>1. CASE t \in S
    BY <1>1, <2>1
  <2>2. CASE t \notin S
    <3>1. queue'[t] = Q[t]
      BY <2>2 DEF Spliced
    <3> QED
      BY <3>1 DEF Placed
  <2> QED
    BY <2>1, <2>2
<1>4. flights' = flights \cup new /\ dropped' = dropped /\ \A g, h \in new : g.table = h.table => g = h
  BY DEF Spliced
<1>5. OnePlace'
  <2>1. \A t \in Tables : Distinct(queue'[t]) /\ RowsOf(queue'[t]) \cap dropped' = {}
    BY <1>3, <1>4 DEF Placed
  <2>2. \A t, u \in Tables : t # u => RowsOf(queue'[t]) \cap RowsOf(queue'[u]) = {}
    <3> SUFFICES ASSUME NEW t \in Tables, NEW u \in Tables, t # u
                 PROVE  RowsOf(queue'[t]) \cap RowsOf(queue'[u]) = {}
      OBVIOUS
    <3>1. RowsOf(Q[t]) \cap RowsOf(Q[u]) = {}
      BY DEF Placed
    <3> QED
      BY <1>3, <3>1
  <2>3. \A f \in flights' : Distinct(f.batch) /\ RowsOf(f.batch) \cap dropped' = {}
    <3>1. \A f \in flights : Distinct(f.batch) /\ RowsOf(f.batch) \cap dropped = {}
      BY DEF Placed
    <3>2. \A t \in Tables : RowsOf(Q[t]) \cap dropped = {}
      BY DEF Placed
    <3> QED
      BY <1>2, <1>4, <3>1, <3>2
  <2>4. \A f, g \in flights' : f # g => RowsOf(f.batch) \cap RowsOf(g.batch) = {}
    <3>1. \A f, g \in flights : f # g => RowsOf(f.batch) \cap RowsOf(g.batch) = {}
      BY DEF Placed
    <3>2. \A f \in flights, g \in new : RowsOf(f.batch) \cap RowsOf(g.batch) = {}
      <4> SUFFICES ASSUME NEW f \in flights, NEW g \in new
                   PROVE  RowsOf(f.batch) \cap RowsOf(g.batch) = {}
        OBVIOUS
      <4>1. RowsOf(Q[g.table]) \cap RowsOf(f.batch) = {}
        BY <1>2 DEF Placed
      <4> QED
        BY <1>2, <4>1
    <3>3. \A f, g \in new : f # g => RowsOf(f.batch) \cap RowsOf(g.batch) = {}
      <4> SUFFICES ASSUME NEW f \in new, NEW g \in new, f # g
                   PROVE  RowsOf(f.batch) \cap RowsOf(g.batch) = {}
        OBVIOUS
      <4>1. f.table # g.table
        BY <1>4
      <4>2. RowsOf(Q[f.table]) \cap RowsOf(Q[g.table]) = {}
        BY <1>2, <4>1 DEF Placed
      <4> QED
        BY <1>2, <4>2
    <3> QED
      BY <1>4, <3>1, <3>2, <3>3
  <2>5. \A t \in Tables, f \in flights' : RowsOf(queue'[t]) \cap RowsOf(f.batch) = {}
    <3>1. ASSUME NEW t \in Tables, NEW f \in flights
          PROVE  RowsOf(queue'[t]) \cap RowsOf(f.batch) = {}
      <4>1. RowsOf(Q[t]) \cap RowsOf(f.batch) = {}
        BY DEF Placed
      <4> QED
        BY <1>3, <4>1
    <3>2. ASSUME NEW t \in Tables, NEW g \in new
          PROVE  RowsOf(queue'[t]) \cap RowsOf(g.batch) = {}
      <4>1. t # g.table => RowsOf(Q[t]) \cap RowsOf(Q[g.table]) = {}
        BY <1>2 DEF Placed
      <4> QED
        BY <1>2, <1>3, <4>1
    <3> QED
      BY <1>4, <3>1, <3>2
  <2> QED
    BY <2>1, <2>2, <2>3, <2>4, <2>5 DEF OnePlace
<1>6. Held' = (UNION {RowsOf(Q[t]) : t \in Tables}) \cup InFlight
  <2>1. \A r : r \in Held' <=> (\E t \in Tables : r \in RowsOf(queue'[t]))
                                \/ (\E f \in flights : r \in RowsOf(f.batch))
                                \/ (\E g \in new : r \in RowsOf(g.batch))
    BY <1>4 DEF Held, Queued, InFlight
  <2>2. \A t \in Tables : \A r \in RowsOf(Q[t]) :
            r \in RowsOf(queue'[t]) \/ \E g \in new : r \in RowsOf(g.batch)
    <3> SUFFICES ASSUME NEW t \in Tables, NEW r \in RowsOf(Q[t]), r \notin RowsOf(queue'[t])
                 PROVE  \E g \in new : r \in RowsOf(g.batch)
      OBVIOUS
    <3>1. t \in S
      BY DEF Spliced
    <3>2. PICK g \in new : g.table = t /\ g.batch = Taken(Q[t], n[t])
      BY <3>1 DEF Spliced
    <3> QED
      BY <1>1, <3>1, <3>2
  <2>3. \A r : r \in Held' <=> (\E t \in Tables : r \in RowsOf(Q[t]))
                                \/ (\E f \in flights : r \in RowsOf(f.batch))
    BY <1>2, <1>3, <2>1, <2>2
  <2>4. \A r : r \in (UNION {RowsOf(Q[t]) : t \in Tables}) \cup InFlight
                  <=> (\E t \in Tables : r \in RowsOf(Q[t]))
                       \/ (\E f \in flights : r \in RowsOf(f.batch))
    BY DEF InFlight
  <2> QED
    BY <2>3, <2>4
<1> QED
  BY <1>2, <1>3, <1>5, <1>6

(* What the owners of the rows see of a step: the rows of new are accepted, *)
(* those of gone leave the writer, those of D are dropped.                 *)
Moved(new, gone, D) ==
    /\ accepted' = accepted \cup new /\ new \cap accepted = {}
    /\ Held' = (Held \cup new) \ gone /\ gone \subseteq Held
    /\ dropped' = dropped \cup D

LEMMA AddToQueueKeeps ==
    ASSUME IInv, NEW r \in Rows, NEW t \in Tables, AddToQueue(r, t)
    PROVE  IInv' /\ Moved({r}, {}, {})
<1> DEFINE item == [row |-> r, attempts |-> 1, requeued |-> FALSE]
           q == Append(queue[t], item)
           Q == [queue EXCEPT ![t] = q]
<1>1. TypeOK'
  BY AddToQueueStep DEF IInv
<1>2. item \in Items /\ item.row = r /\ item.attempts = 1
  BY MaxAttemptsAssumption DEF Items
<1>3. queue \in [Tables -> Seq(Items)] /\ queue[t] \in Seq(Items) /\ flights \subseteq Flights
  BY DEF IInv, TypeOK
<1>4. /\ phase = "running" /\ r \notin accepted /\ accepted' = accepted \cup {r}
      /\ UNCHANGED <<phase, stored, dropped, failures, doubtful, repeated>>
  BY DEF AddToQueue
<1>5. r \notin Held /\ r \notin dropped /\ r \notin stored /\ failures[r] = 0
  BY <1>4 DEF IInv, OnlyAccepted, Charges
<1>6. IF Len(q) >= BatchSize
      THEN /\ queue' = [queue EXCEPT ![t] = Remaining(q, TakeCount(q, FALSE))]
           /\ flights' = flights \cup {Flight(t, q, FALSE, "direct")}
      ELSE queue' = Q /\ flights' = flights
  BY DEF AddToQueue
<1> HIDE DEF item
<1>7. /\ q \in Seq(Items) /\ RowsOf(q) = RowsOf(queue[t]) \cup {r}
      /\ ItemsOf(q) = ItemsOf(queue[t]) \cup {item}
      /\ Distinct(queue[t]) /\ r \notin RowsOf(queue[t]) => Distinct(q)
  BY <1>2, <1>3, RowsOfAppend, AppendPlaces
<1> HIDE DEF q
<1>8. Q \in [Tables -> Seq(Items)] /\ Q[t] = q /\ \A u \in Tables \ {t} : Q[u] = queue[u]
  BY <1>3, <1>7
<1>9. /\ \A u \in Tables : r \notin RowsOf(queue[u])
      /\ \A f \in flights : r \notin RowsOf(f.batch)
  BY <1>5 DEF Held, Queued, InFlight
<1> HIDE DEF Q
<1>10. Placed(Q)
  <2>1. \A u \in Tables : Distinct(Q[u]) /\ RowsOf(Q[u]) \cap dropped = {}
    BY <1>5, <1>7, <1>8, <1>9 DEF IInv, OnePlace
  <2>2. \A u, v \in Tables : u # v => RowsOf(Q[u]) \cap RowsOf(Q[v]) = {}
    <3> SUFFICES ASSUME NEW u \in Tables, NEW v \in Tables, u # v
                 PROVE  RowsOf(Q[u]) \cap RowsOf(Q[v]) = {}
      OBVIOUS
    <3>1. RowsOf(queue[u]) \cap RowsOf(queue[v]) = {}
      BY DEF IInv, OnePlace
    <3> QED
      BY <1>7, <1>8, <1>9, <3>1
  <2>3. \A u \in Tables, f \in flights : RowsOf(Q[u]) \cap RowsOf(f.batch) = {}
    <3> SUFFICES ASSUME NEW u \in Tables, NEW f \in flights
                 PROVE  RowsOf(Q[u]) \cap RowsOf(f.batch) = {}
      OBVIOUS
    <3>1. RowsOf(queue[u]) \cap RowsOf(f.batch) = {}
      BY DEF IInv, OnePlace
    <3> QED
      BY <1>7, <1>8, <1>9, <3>1
  <2> QED
    BY <2>1, <2>2, <2>3 DEF Placed, IInv, OnePlace
<1>11. \E S, n, new : S \in SUBSET Tables /\ Spliced(Q, S, n, new) /\ flights' = flights \cup new
  <2>1. CASE Len(q) >= BatchSize
    <3> DEFINE n == [u \in {t} |-> TakeCount(q, FALSE)]
               g == Flight(t, q, FALSE, "direct")
    <3>1. TakeCount(q, FALSE) \in 0..Len(q)
      BY <1>7, TakeCountBounded
    <3>2. g.table = t /\ g.batch = Taken(q, n[t])
      BY DEF Flight
    <3>3. queue'[t] = Remaining(q, n[t]) /\ \A u \in Tables \ {t} : queue'[u] = Q[u]
      BY <1>3, <1>6, <1>8, <2>1
    <3>4. n[t] = TakeCount(q, FALSE)
      OBVIOUS
    <3>5. flights' = flights \cup {g}
      BY <1>6, <2>1
    <3> HIDE DEF g, n
    <3>6. Spliced(Q, {t}, n, {g})
      BY <1>4, <1>8, <3>1, <3>2, <3>3, <3>4, <3>5 DEF Spliced
    <3> QED
      BY <3>5, <3>6
  <2>2. CASE ~(Len(q) >= BatchSize)
    <3>1. Spliced(Q, {}, <<>>, {})
      BY <1>4, <1>6, <2>2 DEF Spliced
    <3> QED
      BY <1>6, <2>2, <3>1
  <2> QED
    BY <2>1, <2>2
<1>12. PICK S, n, new : S \in SUBSET Tables /\ Spliced(Q, S, n, new) /\ flights' = flights \cup new
  BY <1>11
<1>13. /\ OnePlace'
       /\ Held' = (UNION {RowsOf(Q[u]) : u \in Tables}) \cup InFlight
       /\ \A u \in Tables : ItemsOf(queue'[u]) \subseteq ItemsOf(Q[u])
       /\ \A g \in new : g.table \in Tables /\ ItemsOf(g.batch) \subseteq ItemsOf(Q[g.table])
  BY <1>8, <1>10, <1>12, SpliceKeeps
<1>14. Held' = Held \cup {r}
  <2>1. \A x : x \in Queued \cup {r} <=> \E u \in Tables : x \in RowsOf(Q[u])
    BY <1>7, <1>8 DEF Queued
  <2> QED
    BY <1>13, <2>1 DEF Held
<1>15. Charges'
  <2>1. \A u \in Tables : Charged(Q[u])
    BY <1>2, <1>5, <1>7, <1>8 DEF IInv, Charges, Charged
  <2>2. \A u \in Tables : Charged(queue'[u])
    BY <1>13, <2>1 DEF Charged
  <2>3. \A g \in new : Charged(g.batch)
    BY <1>13, <2>1 DEF Charged
  <2>4. \A f \in flights' : Charged(f.batch)
    BY <1>12, <2>3 DEF IInv, Charges
  <2> QED
    BY <1>4, <2>2, <2>4 DEF IInv, Charges, Charged
<1>16. OnlyAccepted'
  BY <1>4, <1>14 DEF IInv, OnlyAccepted
<1>17. HeldThoughStored'
  BY <1>4, <1>5, <1>14 DEF IInv, HeldThoughStored
<1>18. LastFlush'
  BY <1>4 DEF LastFlush
<1>19. Moved({r}, {}, {})
  BY <1>4, <1>14 DEF Moved
<1> QED
  BY <1>1, <1>13, <1>15, <1>16, <1>17, <1>18, <1>19 DEF IInv

(* A flushAll moves items only; the one of the shutdown empties the queues. *)
LEMMA FlushAllKeeps ==
    ASSUME IInv, NEW full \in BOOLEAN, NEW origin \in Origins, FlushAll(full, origin),
           UNCHANGED history,
           \/ phase' = "running"
           \/ phase' = "final" /\ full
    PROVE  IInv' /\ Moved({}, {}, {})
<1> DEFINE S == {u \in Tables : queue[u] # <<>>}
           n == [t \in S |-> TakeCount(queue[t], full)]
           new == {Flight(t, queue[t], full, origin) : t \in S}
<1>1. TypeOK'
  BY FlushAllStep DEF IInv
<1>2. /\ queue \in [Tables -> Seq(Items)]
      /\ UNCHANGED <<accepted, stored, dropped, failures, doubtful, repeated>>
  BY DEF IInv, TypeOK, history
<1>3. /\ queue' = [t \in Tables |-> Remaining(queue[t], TakeCount(queue[t], full))]
      /\ flights' = flights \cup new
  BY DEF FlushAll
<1>4. \A t, q : Flight(t, q, full, origin).table = t
                /\ Flight(t, q, full, origin).batch = Taken(q, TakeCount(q, full))
  BY DEF Flight
<1>5. Spliced(queue, S, n, new)
  <2>1. \A t \in S : n[t] \in 0..Len(queue[t]) /\ n[t] = TakeCount(queue[t], full)
    BY <1>2, TakeCountBounded
  <2>2. \A t \in S : queue'[t] = Remaining(queue[t], n[t])
    BY <1>3
  <2>3. \A t \in Tables \ S : queue'[t] = queue[t]
    <3>1. Remaining(<<>>, TakeCount(<<>>, full)) = <<>>
      <4>1. TakeCount(<<>>, full) = 0
        BY BatchSizeAssumption DEF TakeCount
      <4> QED
        BY <4>1 DEF Remaining
    <3> QED
      BY <1>3, <3>1
  <2>4. \A g \in new : g.table \in S /\ g.batch = Taken(queue[g.table], n[g.table])
    BY <1>4, <2>1
  <2>5. \A g, h \in new : g.table = h.table => g = h
    BY <1>4
  <2>6. \A t \in S : \E g \in new : g.table = t
    <3> SUFFICES ASSUME NEW t \in S
                 PROVE  \E g \in new : g.table = t
      OBVIOUS
    <3>1. Flight(t, queue[t], full, origin) \in new
      OBVIOUS
    <3> QED
      BY <1>4, <3>1
  <2> HIDE DEF S, n, new
  <2> QED
    BY <1>2, <1>3, <2>1, <2>2, <2>3, <2>4, <2>5, <2>6 DEF Spliced
<1>6. S \subseteq Tables
  OBVIOUS
<1> HIDE DEF S, n, new
<1>7. Placed(queue)
  BY DEF IInv, OnePlace, Placed
<1>8. /\ OnePlace'
      /\ Held' = (UNION {RowsOf(queue[t]) : t \in Tables}) \cup InFlight
      /\ \A t \in Tables : ItemsOf(queue'[t]) \subseteq ItemsOf(queue[t])
      /\ \A g \in new : g.table \in Tables /\ ItemsOf(g.batch) \subseteq ItemsOf(queue[g.table])
  BY <1>2, <1>5, <1>6, <1>7, SpliceKeeps
<1>9. Held' = Held
  BY <1>8 DEF Held, Queued
<1>10. Charges'
  <2>1. \A t \in Tables : Charged(queue[t])
    BY DEF IInv, Charges
  <2>2. \A t \in Tables : Charged(queue'[t])
    BY <1>8, <2>1 DEF Charged
  <2>3. \A g \in new : Charged(g.batch)
    BY <1>8, <2>1 DEF Charged
  <2>4. \A f \in flights' : Charged(f.batch)
    BY <1>3, <2>3 DEF IInv, Charges
  <2> QED
    BY <1>2, <2>2, <2>4 DEF IInv, Charges, Charged
<1>11. LastFlush'
  <2>1. CASE phase' = "running"
    BY <2>1 DEF LastFlush
  <2>2. CASE phase' = "final" /\ full
    <3>1. ASSUME NEW t \in Tables
          PROVE  queue'[t] = <<>>
      <4>1. queue[t] \in Seq(Items) /\ TakeCount(queue[t], full) = Len(queue[t])
        BY <1>2, <2>2 DEF TakeCount
      <4>2. queue'[t] = Remaining(queue[t], Len(queue[t]))
        BY <1>3, <4>1
      <4> QED
        BY <4>1, <4>2 DEF Remaining
    <3>2. \A t \in Tables : ItemsOf(queue'[t]) = {}
      BY <3>1 DEF ItemsOf
    <3> QED
      BY <2>2, <3>2 DEF LastFlush
  <2> QED
    BY <2>1, <2>2
<1>12. OnlyAccepted' /\ HeldThoughStored'
  BY <1>2, <1>9 DEF IInv, OnlyAccepted, HeldThoughStored
<1>13. Moved({}, {}, {})
  BY <1>2, <1>9 DEF Moved
<1> QED
  BY <1>1, <1>8, <1>10, <1>11, <1>12, <1>13 DEF IInv

(* The insert of a batch that is stored takes its rows out of the writer.  *)
LEMMA InsertSucceedsKeeps ==
    ASSUME IInv, NEW f \in flights, InsertSucceeds(f)
    PROVE  IInv' /\ \E gone \in SUBSET Rows : Moved({}, gone, {})
<1>1. TypeOK' /\ f.table \in Tables
  BY InsertSucceedsStep DEF IInv, TypeOK, Flights
<1>2. /\ stored' = stored \cup RowsOf(f.batch)
      /\ repeated' = repeated \cup (RowsOf(f.batch) \cap stored)
      /\ flights' = flights \ {f}
      /\ UNCHANGED <<queue, phase, accepted, dropped, failures, doubtful>>
  BY DEF InsertSucceeds, Insert
<1>3. /\ Distinct(queue[f.table]) /\ Charged(queue[f.table])
      /\ RowsOf(queue[f.table]) \cap RowsOf(f.batch) = {}
  BY <1>1 DEF IInv, OnePlace, Charges
<1>4. Exchange(f, {}, RowsOf(f.batch), {})
  <2>1. /\ flights' = (flights \ {f}) \cup {} /\ dropped' = dropped \cup {}
        /\ queue' = queue /\ failures' = failures
    BY <1>2
  <2>2. RowsOf(queue'[f.table]) \cup UNION {RowsOf(g.batch) : g \in {}} =
            (RowsOf(queue[f.table]) \cup RowsOf(f.batch)) \ RowsOf(f.batch)
    BY <1>3, <2>1
  <2> QED
    BY <1>3, <2>1, <2>2 DEF Exchange, Charged
<1>5. /\ OnePlace' /\ Charges' /\ LastFlush'
      /\ Held' = Held \ RowsOf(f.batch) /\ RowsOf(f.batch) \subseteq Held
  BY <1>2, <1>4, ExchangeKeeps
<1>6. Moved({}, RowsOf(f.batch), {})
  BY <1>2, <1>5 DEF Moved
<1>7. OnlyAccepted' /\ HeldThoughStored'
  BY <1>2, <1>5 DEF IInv, OnlyAccepted, HeldThoughStored
<1>8. RowsOf(f.batch) \in SUBSET Rows
  BY <1>5 DEF IInv, TypeOK, OnlyAccepted
<1> QED
  BY <1>1, <1>5, <1>6, <1>7, <1>8 DEF IInv

(* A failed try, of whose rows ClickHouse may have applied those of A.     *)
LEMMA FailureKeeps ==
    ASSUME IInv, TypeOK', NEW f \in flights, NEW batch \in Seq(Items), NEW q \in Seq(Items),
           NEW truncated \in BOOLEAN,
           \/ TryAgain(f, batch, truncated, q)
           \/ GiveUp(f, batch, q),
           Distinct(batch), Distinct(q), RowsOf(batch) \cap RowsOf(q) = {},
           Charged(batch), Charged(q),
           RowsOf(batch) \cup RowsOf(q) = RowsOf(f.batch) \cup RowsOf(queue[f.table]),
           RowsOf(batch) \subseteq RowsOf(f.batch),
           \A x \in ItemsOf(q) : x.requeued \/ x \in ItemsOf(queue[f.table]),
           NEW A \in SUBSET RowsOf(f.batch),
           stored' = stored \cup A, doubtful' = doubtful \cup A,
           repeated' = repeated \cup (A \cap stored), UNCHANGED <<phase, accepted>>
    PROVE  IInv' /\ \E gone \in SUBSET Rows : Moved({}, gone, gone)
<1>1. FlushTypeOK
  BY DEF IInv, TypeOK, FlushTypeOK
<1>2. PICK N \in SUBSET {NextTry(f, batch, truncated)}, D \in SUBSET Rows : Exchange(f, N, D, D)
  BY <1>1, TryAgainExchanges
<1>3. /\ OnePlace' /\ Charges' /\ LastFlush'
      /\ Held' = Held \ D /\ D \subseteq Held
  BY <1>2, ExchangeKeeps
<1>4. dropped' = dropped \cup D
  BY <1>2 DEF Exchange
<1>5. A \subseteq accepted
  BY DEF IInv, OnlyAccepted, Held, InFlight
<1>6. OnlyAccepted' /\ HeldThoughStored'
  BY <1>3, <1>4, <1>5 DEF IInv, OnlyAccepted, HeldThoughStored
<1>7. Moved({}, D, D)
  BY <1>3, <1>4 DEF Moved
<1> QED
  BY <1>2, <1>3, <1>6, <1>7 DEF IInv

LEMMA ResolveKeeps ==
    ASSUME IInv, NEW f \in flights, Resolve(f)
    PROVE  IInv' /\ \E gone \in SUBSET Rows : Moved({}, gone, {}) \/ Moved({}, gone, gone)
<1>1. /\ f.batch \in Seq(Items) /\ f.truncated \in BOOLEAN
      /\ f.table \in Tables /\ queue[f.table] \in Seq(Items)
  BY DEF IInv, TypeOK, Flights
<1>2. TypeOK'
  BY ResolveStep DEF IInv
<1>3. /\ Distinct(f.batch) /\ Distinct(queue[f.table])
      /\ RowsOf(f.batch) \cap RowsOf(queue[f.table]) = {}
      /\ Charged(f.batch) /\ Charged(queue[f.table])
  BY <1>1 DEF IInv, OnePlace, Charges
<1>4. CASE InsertSucceeds(f)
  BY <1>4, InsertSucceedsKeeps
<1>5. CASE TransientFailure(f)
  <2>1. PICK applied \in SUBSET RowsOf(f.batch) :
          /\ Insert(applied)
          /\ doubtful' = doubtful \cup applied
    BY <1>5 DEF TransientFailure
  <2>2. /\ TryAgain(f, f.batch, f.truncated, queue[f.table])
        /\ UNCHANGED <<phase, accepted>>
    BY <1>5 DEF TransientFailure
  <2>3. stored' = stored \cup applied /\ repeated' = repeated \cup (applied \cap stored)
    BY <2>1 DEF Insert
  <2>4. IInv' /\ \E gone \in SUBSET Rows : Moved({}, gone, gone)
    BY <1>1, <1>2, <1>3, <2>1, <2>2, <2>3, FailureKeeps
  <2> QED
    BY <2>4
<1> DEFINE Unapplied == \E A \in SUBSET RowsOf(f.batch) :
              /\ stored' = stored \cup A /\ doubtful' = doubtful \cup A
              /\ repeated' = repeated \cup (A \cap stored)
<1>6. UNCHANGED <<stored, doubtful, repeated>> => Unapplied
  <2> SUFFICES ASSUME UNCHANGED <<stored, doubtful, repeated>>
               PROVE  Unapplied
    OBVIOUS
  <2>1. /\ stored' = stored \cup {} /\ doubtful' = doubtful \cup {}
        /\ repeated' = repeated \cup ({} \cap stored)
    OBVIOUS
  <2> QED
    BY <2>1
<1> HIDE DEF Unapplied
<1>7. CASE StringLengthFailure(f)
  <2> DEFINE split == SplitPoint(Len(f.batch))
             kept == Taken(f.batch, split)
             rest == Remaining(f.batch, split)
             q == Back(rest) \o queue[f.table]
  <2>1. /\ TryAgain(f, kept, f.truncated, q)
        /\ UNCHANGED <<phase, accepted, stored, doubtful, repeated>>
    BY <1>7 DEF StringLengthFailure, Back
  <2>2. split \in 0..Len(f.batch)
    <3>1. Len(f.batch) \in Nat
      BY <1>1
    <3> QED
      BY <3>1, SplitPointBounded
  <2>3. /\ kept \in Seq(Items) /\ rest \in Seq(Items)
        /\ RowsOf(f.batch) = RowsOf(kept) \cup RowsOf(rest)
        /\ ItemsOf(f.batch) = ItemsOf(kept) \cup ItemsOf(rest)
        /\ Distinct(kept) /\ Distinct(rest) /\ RowsOf(kept) \cap RowsOf(rest) = {}
    BY <1>1, <1>3, <2>2, SpliceKeepsRows, SplicePlaces
  <2> HIDE DEF split, kept, rest
  <2>4. /\ Back(rest) \in Seq(Items) /\ RowsOf(Back(rest)) = RowsOf(rest) /\ Distinct(Back(rest))
        /\ \A x \in ItemsOf(Back(rest)) :
              x.requeued /\ \E y \in ItemsOf(rest) : y.row = x.row /\ y.attempts = x.attempts
    BY <2>3, BackPlaces
  <2>5. RowsOf(Back(rest)) \cap RowsOf(queue[f.table]) = {}
    BY <1>3, <2>3, <2>4
  <2>6. /\ q \in Seq(Items) /\ RowsOf(q) = RowsOf(Back(rest)) \cup RowsOf(queue[f.table])
        /\ ItemsOf(q) = ItemsOf(Back(rest)) \cup ItemsOf(queue[f.table]) /\ Distinct(q)
    BY <1>1, <1>3, <2>4, <2>5, RowsOfConcat, ConcatPlaces
  <2>7. Charged(kept) /\ Charged(q)
    <3>1. Charged(Back(rest))
      BY <1>3, <2>3, <2>4 DEF Charged
    <3> QED
      BY <1>3, <2>3, <2>6, <3>1 DEF Charged
  <2> HIDE DEF q
  <2>8. /\ RowsOf(kept) \cap RowsOf(q) = {} /\ RowsOf(kept) \subseteq RowsOf(f.batch)
        /\ RowsOf(kept) \cup RowsOf(q) = RowsOf(f.batch) \cup RowsOf(queue[f.table])
        /\ \A x \in ItemsOf(q) : x.requeued \/ x \in ItemsOf(queue[f.table])
    BY <1>3, <2>3, <2>4, <2>6
  <2>9. PICK A \in SUBSET RowsOf(f.batch) :
              /\ stored' = stored \cup A /\ doubtful' = doubtful \cup A
              /\ repeated' = repeated \cup (A \cap stored)
    BY <1>6, <2>1 DEF Unapplied
  <2>10. IInv' /\ \E gone \in SUBSET Rows : Moved({}, gone, gone)
    BY <1>1, <1>2, <2>1, <2>3, <2>6, <2>7, <2>8, <2>9, FailureKeeps
  <2> QED
    BY <2>10
<1>8. CASE SizeFailure(f) \/ FatalFailure(f)
  <2>1. /\ \/ TryAgain(f, f.batch, TRUE, queue[f.table])
           \/ GiveUp(f, f.batch, queue[f.table])
        /\ UNCHANGED <<phase, accepted, stored, doubtful, repeated>>
    BY <1>8 DEF SizeFailure, FatalFailure
  <2>2. PICK A \in SUBSET RowsOf(f.batch) :
              /\ stored' = stored \cup A /\ doubtful' = doubtful \cup A
              /\ repeated' = repeated \cup (A \cap stored)
    BY <1>6, <2>1 DEF Unapplied
  <2>3. IInv' /\ \E gone \in SUBSET Rows : Moved({}, gone, gone)
    BY <1>1, <1>2, <1>3, <2>1, <2>2, FailureKeeps
  <2> QED
    BY <2>3
<1> QED
  BY <1>4, <1>5, <1>7, <1>8 DEF Resolve

LEMMA ShutdownKeeps ==
    ASSUME IInv, Shutdown \/ ShutdownComplete \/ UNCHANGED vars
    PROVE  IInv' /\ Held' = Held
<1>1. UNCHANGED <<queue, flights, history>>
  BY DEF Shutdown, ShutdownComplete, vars, history
<1>2. UNCHANGED <<accepted, stored, dropped, failures, doubtful, repeated>>
  BY <1>1 DEF history
<1>3. Held' = Held
  BY <1>1 DEF Held, Queued, InFlight
<1>4. /\ phase' \in {"final", "closed"} => phase \in {"final", "closed"}
      /\ phase' = "closed" => flights = {}
      /\ phase' \in {"running", "draining", "final", "closed"}
  BY DEF IInv, TypeOK, LastFlush, Shutdown, ShutdownComplete, vars
<1>5. TypeOK'
  BY <1>1, <1>2, <1>4 DEF IInv, TypeOK
<1>6. OnePlace' /\ Charges'
  BY <1>1, <1>2 DEF IInv, OnePlace, Charges, Charged
<1>7. OnlyAccepted' /\ HeldThoughStored'
  BY <1>2, <1>3 DEF IInv, OnlyAccepted, HeldThoughStored
<1>8. LastFlush'
  BY <1>1, <1>4 DEF IInv, LastFlush
<1> QED
  BY <1>3, <1>5, <1>6, <1>7, <1>8 DEF IInv

LEMMA InitIInv == Init => IInv
<1> SUFFICES ASSUME Init
             PROVE  IInv
  OBVIOUS
<1>1. \A t \in Tables : queue[t] = <<>>
  BY DEF Init
<1>2. /\ flights = {} /\ phase = "running"
      /\ accepted = {} /\ stored = {} /\ dropped = {} /\ doubtful = {} /\ repeated = {}
      /\ \A r \in Rows : failures[r] = 0
  BY DEF Init
<1>3. RowsOf(<<>>) = {} /\ ItemsOf(<<>>) = {} /\ Distinct(<<>>)
  BY DEF RowsOf, ItemsOf, Distinct
<1>4. Held = {}
  BY <1>1, <1>2, <1>3 DEF Held, Queued, InFlight
<1>5. TypeOK
  BY DEF Init, TypeOK
<1>6. OnePlace
  BY <1>1, <1>2, <1>3 DEF OnePlace
<1>7. Charges
  BY <1>1, <1>2, <1>3 DEF Charges, Charged
<1>8. OnlyAccepted /\ HeldThoughStored /\ LastFlush
  BY <1>2, <1>4 DEF OnlyAccepted, HeldThoughStored, LastFlush
<1> QED
  BY <1>5, <1>6, <1>7, <1>8 DEF IInv

LEMMA NextIInv == IInv /\ [Next]_vars => IInv'
<1> SUFFICES ASSUME IInv, [Next]_vars
             PROVE  IInv'
  OBVIOUS
<1>1. ASSUME NEW r \in Rows, NEW t \in Tables, AddToQueue(r, t)
      PROVE  IInv'
  BY <1>1, AddToQueueKeeps
<1>2. CASE IntervalFlush
  <2>1. FlushAll(FALSE, "interval") /\ UNCHANGED history /\ phase' = "running"
    BY <1>2 DEF IntervalFlush
  <2> QED
    BY <2>1, FlushAllKeeps DEF Origins
<1>3. ASSUME NEW f \in flights, Resolve(f)
      PROVE  IInv'
  BY <1>3, ResolveKeeps
<1>4. CASE FinalFlush
  <2>1. FlushAll(TRUE, "final") /\ UNCHANGED history /\ phase' = "final"
    BY <1>4 DEF FinalFlush
  <2> QED
    BY <2>1, FlushAllKeeps DEF Origins
<1>5. CASE Shutdown \/ ShutdownComplete \/ UNCHANGED vars
  BY <1>5, ShutdownKeeps
<1> QED
  BY <1>1, <1>2, <1>3, <1>4, <1>5 DEF Next, Closed

(* The inductive invariant: every row has one place, and the counters tell *)
(* what happened to it.                                                    *)
THEOREM Invariant == Spec => []IInv
  BY InitIInv, NextIInv, PTL DEF Spec

(* A row is never twice in the writer's hands: not in two flushes, not in a *)
(* flush and the queue, not twice in a list, and not after it was dropped. *)
THEOREM HeldOnceHolds == Spec => []HeldOnce
<1>1. IInv => HeldOnce
  <2> SUFFICES ASSUME IInv
               PROVE  HeldOnce
    OBVIOUS
  <2>1. \A t \in Tables : \A i \in DOMAIN queue[t] : queue[t][i].row \in RowsOf(queue[t])
    BY DEF RowsOf
  <2>2. \A f \in flights : \A i \in DOMAIN f.batch : f.batch[i].row \in RowsOf(f.batch)
    BY DEF RowsOf
  <2>3. \A t, u \in Tables : \A i \in DOMAIN queue[t], j \in DOMAIN queue[u] :
            queue[t][i].row = queue[u][j].row => t = u /\ i = j
    <3> SUFFICES ASSUME NEW t \in Tables, NEW u \in Tables, NEW i \in DOMAIN queue[t],
                        NEW j \in DOMAIN queue[u], queue[t][i].row = queue[u][j].row
                 PROVE  t = u /\ i = j
      OBVIOUS
    <3>1. t = u
      <4>1. t # u => RowsOf(queue[t]) \cap RowsOf(queue[u]) = {}
        BY DEF IInv, OnePlace
      <4> QED
        BY <2>1, <4>1
    <3>2. Distinct(queue[t])
      BY DEF IInv, OnePlace
    <3> QED
      BY <3>1, <3>2 DEF Distinct
  <2>4. \A f, g \in flights : \A i \in DOMAIN f.batch, j \in DOMAIN g.batch :
            f.batch[i].row = g.batch[j].row => f = g /\ i = j
    <3> SUFFICES ASSUME NEW f \in flights, NEW g \in flights, NEW i \in DOMAIN f.batch,
                        NEW j \in DOMAIN g.batch, f.batch[i].row = g.batch[j].row
                 PROVE  f = g /\ i = j
      OBVIOUS
    <3>1. f = g
      <4>1. f # g => RowsOf(f.batch) \cap RowsOf(g.batch) = {}
        BY DEF IInv, OnePlace
      <4> QED
        BY <2>2, <4>1
    <3>2. Distinct(f.batch)
      BY DEF IInv, OnePlace
    <3> QED
      BY <3>1, <3>2 DEF Distinct
  <2>5. Queued \cap InFlight = {} /\ Held \cap dropped = {}
    BY DEF IInv, OnePlace, Held, Queued, InFlight
  <2> QED
    BY <2>3, <2>4, <2>5 DEF HeldOnce
<1> QED
  BY <1>1, Invariant, PTL

(* A row is given up only after MaxAttempts failed flushes: no split, no   *)
(* truncation and no retry inside a flush costs it an attempt.             *)
THEOREM DroppedOnlyExhaustedHolds == Spec => []DroppedOnlyExhausted
<1>1. IInv => DroppedOnlyExhausted
  BY DEF IInv, Charges, DroppedOnlyExhausted
<1> QED
  BY <1>1, Invariant, PTL

(* Only an insert that ClickHouse applied and reported as failed makes a   *)
(* row reach it twice.                                                     *)
THEOREM RepeatedOnlyDoubtfulHolds == Spec => []RepeatedOnlyDoubtful
<1>1. IInv => RepeatedOnlyDoubtful
  BY DEF IInv, HeldThoughStored, RepeatedOnlyDoubtful
<1> QED
  BY <1>1, Invariant, PTL

(* shutdown leaves no flush behind and no row that was never tried.        *)
THEOREM ClosedLeavesOnlyRequeuedHolds == Spec => []ClosedLeavesOnlyRequeued
<1>1. IInv => ClosedLeavesOnlyRequeued
  BY DEF IInv, LastFlush, ClosedLeavesOnlyRequeued, ItemsOf
<1> QED
  BY <1>1, Invariant, PTL

-----------------------------------------------------------------------------
(* The refinement.                                                         *)

(* A step that moves rows while the writer is open is a step of the        *)
(* contract: one row accepted, or the rows of one flush gone.              *)
LEMMA MovedFates ==
    ASSUME IInv, IInv', phase # "closed", phase' # "closed", NEW gone \in SUBSET Rows,
           \/ \E r \in Rows : Moved({r}, {}, {})
           \/ Moved({}, gone, {})
           \/ Moved({}, gone, gone)
    PROVE  Contract!Next
<1>1. Held \subseteq accepted /\ Held \cap dropped = {}
  BY DEF IInv, OnlyAccepted, OnePlace, Held, Queued, InFlight
<1>2. ASSUME NEW r \in Rows, Moved({r}, {}, {})
      PROVE  Contract!Next
  <2>1. /\ accepted' = accepted \cup {r} /\ r \notin accepted /\ Held' = Held \cup {r}
        /\ dropped' = dropped
    BY <1>2 DEF Moved
  <2>2. Fate(r) = "unborn" /\ Fate(r)' = "buffered"
    BY <2>1 DEF Fate
  <2>3. \A s \in Rows \ {r} : Fate(s)' = Fate(s)
    BY <2>1 DEF Fate
  <2>4. Contract!Move({r}, "unborn", "buffered")
    BY <2>2, <2>3 DEF Contract!Move
  <2> QED
    BY <2>4 DEF Contract!Next, Contract!Accept
<1>3. ASSUME Moved({}, gone, {}) \/ Moved({}, gone, gone)
      PROVE  Contract!Next
  <2>1. accepted' = accepted /\ Held' = Held \ gone /\ gone \subseteq Held
    BY <1>3 DEF Moved
  <2>2. \A s \in gone : Fate(s) = "buffered"
    BY <1>1, <2>1 DEF Fate
  <2>3. CASE Moved({}, gone, {})
    <3>1. dropped' = dropped
      BY <2>3 DEF Moved
    <3>2. \A s \in gone : Fate(s)' = "stored"
      BY <1>1, <2>1, <3>1 DEF Fate
    <3>3. \A s \in Rows \ gone : Fate(s)' = Fate(s)
      BY <2>1, <3>1 DEF Fate
    <3>4. Contract!Move(gone, "buffered", "stored")
      BY <2>2, <3>2, <3>3 DEF Contract!Move
    <3> QED
      BY <3>4 DEF Contract!Next, Contract!Store
  <2>4. CASE Moved({}, gone, gone)
    <3>1. dropped' = dropped \cup gone
      BY <2>4 DEF Moved
    <3>2. \A s \in gone : Fate(s)' = "dropped"
      BY <1>1, <2>1, <3>1 DEF Fate
    <3>3. \A s \in Rows \ gone : Fate(s)' = Fate(s)
      BY <2>1, <3>1 DEF Fate
    <3>4. Contract!Move(gone, "buffered", "dropped")
      BY <2>2, <3>2, <3>3 DEF Contract!Move
    <3> QED
      BY <3>4 DEF Contract!Next, Contract!Drop
  <2> QED
    BY <1>3, <2>3, <2>4
<1> QED
  BY <1>2, <1>3

(* Every step of the writer is a step of the contract or none.             *)
LEMMA ContractStep == IInv /\ [Next]_vars => [Contract!Next]_(Contract!vars)
<1> SUFFICES ASSUME IInv, [Next]_vars
             PROVE  Contract!Next \/ UNCHANGED Contract!vars
  OBVIOUS
<1>1. ASSUME NEW r \in Rows, NEW t \in Tables, AddToQueue(r, t)
      PROVE  Contract!Next
  <2>1. phase # "closed" /\ phase' # "closed"
    BY <1>1 DEF AddToQueue
  <2>2. IInv' /\ Moved({r}, {}, {})
    BY <1>1, AddToQueueKeeps
  <2>3. {} \in SUBSET Rows
    OBVIOUS
  <2> QED
    BY <2>1, <2>2, <2>3, MovedFates
<1>2. CASE IntervalFlush
  <2>1. /\ FlushAll(FALSE, "interval") /\ UNCHANGED history /\ phase' = "running"
        /\ phase # "closed" /\ phase' # "closed"
    BY <1>2 DEF IntervalFlush
  <2>2. IInv' /\ Moved({}, {}, {})
    BY <2>1, FlushAllKeeps DEF Origins
  <2>3. {} \in SUBSET Rows
    OBVIOUS
  <2> QED
    BY <2>1, <2>2, <2>3, MovedFates
<1>3. ASSUME NEW f \in flights, Resolve(f)
      PROVE  Contract!Next
  <2>1. phase # "closed"
    BY DEF IInv, LastFlush
  <2>2. phase' = phase
    BY <1>3 DEF Resolve, InsertSucceeds, TransientFailure, StringLengthFailure, SizeFailure, FatalFailure
  <2>3. IInv' /\ \E gone \in SUBSET Rows : Moved({}, gone, {}) \/ Moved({}, gone, gone)
    BY <1>3, ResolveKeeps
  <2> QED
    BY <2>1, <2>2, <2>3, MovedFates
<1>4. CASE FinalFlush
  <2>1. /\ FlushAll(TRUE, "final") /\ UNCHANGED history /\ phase' = "final"
        /\ phase # "closed" /\ phase' # "closed"
    BY <1>4 DEF FinalFlush
  <2>2. IInv' /\ Moved({}, {}, {})
    BY <2>1, FlushAllKeeps DEF Origins
  <2>3. {} \in SUBSET Rows
    OBVIOUS
  <2> QED
    BY <2>1, <2>2, <2>3, MovedFates
<1>5. CASE ShutdownComplete
  <2>1. Held' = Held /\ accepted' = accepted /\ dropped' = dropped
    BY <1>5, ShutdownKeeps DEF ShutdownComplete, history
  <2>2. phase = "final" /\ phase' = "closed"
    BY <1>5 DEF ShutdownComplete
  <2> DEFINE S == {r \in Rows : Fate(r) = "buffered"}
  <2>3. \A r \in S : Fate(r)' = "abandoned"
    BY <2>1, <2>2 DEF Fate
  <2>4. \A r \in Rows \ S : Fate(r)' = Fate(r)
    BY <2>1, <2>2 DEF Fate
  <2>5. S = {r \in Rows : [s \in Rows |-> Fate(s)][r] = "buffered"}
    OBVIOUS
  <2> HIDE DEF S
  <2>6. [r \in Rows |-> Fate(r)]' =
          [r \in Rows |-> IF r \in S THEN "abandoned" ELSE [s \in Rows |-> Fate(s)][r]]
    BY <2>3, <2>4
  <2> QED
    BY <2>5, <2>6 DEF Contract!Next, Contract!Stop, Contract!Move
<1>6. CASE Shutdown \/ UNCHANGED vars
  <2>1. Held' = Held
    BY <1>6, ShutdownKeeps
  <2>2. /\ accepted' = accepted /\ dropped' = dropped
        /\ phase = "closed" <=> phase' = "closed"
    BY <1>6 DEF Shutdown, history, vars
  <2>3. \A r \in Rows : Fate(r)' = Fate(r)
    BY <2>1, <2>2 DEF Fate
  <2> QED
    BY <2>3 DEF Contract!vars
<1> QED
  BY <1>1, <1>2, <1>3, <1>4, <1>5, <1>6 DEF Next, Closed

(* The writer implements its contract: a row is buffered once, every way   *)
(* out of the buffer is final, and the rows that leave at one outcome of a *)
(* flush leave together, all into ClickHouse or all dropped.               *)
THEOREM Implements == Spec => ImplementsContract
<1>1. Init => Contract!Init
  <2>1. Init => \A r \in Rows : Fate(r) = "unborn"
    BY DEF Init, Fate
  <2> QED
    BY <2>1 DEF Contract!Init
<1> QED
  BY <1>1, ContractStep, Invariant, PTL DEF Spec, ImplementsContract, Contract!Spec
=============================================================================
