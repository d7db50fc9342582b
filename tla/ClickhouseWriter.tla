-------------------------- MODULE ClickhouseWriter --------------------------
(***************************************************************************)
(* The in-memory batching writer between the ingestion workers and         *)
(* ClickHouse (worker/src/services/ClickhouseWriter/index.ts), one writer  *)
(* instance of one process.  Rows are model values: a row stands for one   *)
(* call of addToQueue.  The code is single-threaded; whatever it does      *)
(* between two awaits is one action, and a flush lives across actions as a *)
(* member of flights.                                                      *)
(***************************************************************************)
EXTENDS Integers, Sequences, FiniteSets

CONSTANTS
    Tables,        \* the ClickHouse tables this instance writes to
    Rows,          \* the rows handed to addToQueue, each once
    TableOf,       \* the table each row is for, which fixes its type
    BatchSize,     \* LANGFUSE_INGESTION_CLICKHOUSE_WRITE_BATCH_SIZE
    MaxAttempts,   \* LANGFUSE_INGESTION_CLICKHOUSE_MAX_ATTEMPTS
    CanTruncate    \* the strategy has `truncate`: JSON does, Native does not

ASSUME TableOfAssumption     == TableOf \in [Rows -> Tables]
ASSUME BatchSizeAssumption   == BatchSize \in Nat \ {0}
ASSUME MaxAttemptsAssumption == MaxAttempts \in Nat \ {0}
ASSUME CanTruncateAssumption == CanTruncate \in BOOLEAN

VARIABLES
    queue,      \* this.queue: per table, the items waiting for a flush
    flights,    \* the flushes between their splice and their last await
    phase,      \* running -> draining -> final -> closed
    accepted,   \* rows addToQueue took
    stored,     \* rows that are in ClickHouse
    dropped,    \* rows given up after the last attempt
    failures,   \* per row, the flushes that ended in the catch with it aboard
    doubtful,   \* rows of an insert that failed after ClickHouse applied them
    repeated    \* rows inserted into ClickHouse more than once

vars == <<queue, flights, phase, accepted, stored, dropped, failures,
          doubtful, repeated>>

history == <<accepted, stored, dropped, failures, doubtful, repeated>>

-----------------------------------------------------------------------------
(* Items, queues and flights.                                              *)

Items == [row : Rows, attempts : 1..MaxAttempts, requeued : BOOLEAN]

Origins == {"direct", "interval", "final"}

Flights == [table : Tables, batch : Seq(Items), tries : 0..(MaxAttempts - 1),
            truncated : BOOLEAN, origin : Origins]

RowsOf(items) == {items[i].row : i \in DOMAIN items}

Queued    == UNION {RowsOf(queue[t]) : t \in Tables}
InFlight  == UNION {RowsOf(f.batch) : f \in flights}
Held      == Queued \cup InFlight

(* entityQueue.splice(0, n): what a flush takes and what it leaves.        *)
Taken(q, n)     == SubSeq(q, 1, n)
Remaining(q, n) == SubSeq(q, n + 1, Len(q))

(* How many items a flush of q takes: a batch, or everything when full.    *)
TakeCount(q, full) == IF full \/ Len(q) <= BatchSize THEN Len(q) ELSE BatchSize

Flight(t, q, full, origin) ==
    [table |-> t, batch |-> Taken(q, TakeCount(q, full)), tries |-> 0,
     truncated |-> FALSE, origin |-> origin]

(* isIntervalFlushInProgress: the flushAll of the last tick has not ended. *)
IntervalBusy == \E f \in flights : f.origin = "interval"

-----------------------------------------------------------------------------
Init ==
    /\ queue = [t \in Tables |-> <<>>]
    /\ flights = {}
    /\ phase = "running"
    /\ accepted = {} /\ stored = {} /\ dropped = {}
    /\ failures = [r \in Rows |-> 0]
    /\ doubtful = {} /\ repeated = {}

(* addToQueue pushes the row and, once a batch is full, starts a flush     *)
(* whose splice happens before addToQueue returns.                         *)
AddToQueue(r, t) ==
    LET q == Append(queue[t], [row |-> r, attempts |-> 1, requeued |-> FALSE])
    IN  /\ phase = "running"
        /\ r \notin accepted /\ t = TableOf[r]
        /\ accepted' = accepted \cup {r}
        /\ IF Len(q) >= BatchSize
           THEN /\ queue' = [queue EXCEPT ![t] = Remaining(q, TakeCount(q, FALSE))]
                /\ flights' = flights \cup {Flight(t, q, FALSE, "direct")}
           ELSE /\ queue' = [queue EXCEPT ![t] = q]
                /\ UNCHANGED flights
        /\ UNCHANGED <<phase, stored, dropped, failures, doubtful, repeated>>

(* Mutant: items are copied out of the queue, not spliced (slice for splice). *)
FlushAllSlicing(full, origin) ==
    /\ queue' = queue
    /\ flights' = flights \cup
          {Flight(t, queue[t], full, origin) : t \in {u \in Tables : queue[u] # <<>>}}

(* flushAll: one flush per table with something to write, all spliced      *)
(* before the first await.                                                 *)
FlushAll(full, origin) ==
    /\ queue' = [t \in Tables |-> Remaining(queue[t], TakeCount(queue[t], full))]
    /\ flights' = flights \cup
          {Flight(t, queue[t], full, origin) : t \in {u \in Tables : queue[u] # <<>>}}

(* Mutant: the interval only writes full batches.                          *)
IntervalFlushFullOnly ==
    /\ phase = "running"
    /\ ~IntervalBusy
    /\ \E t \in Tables : Len(queue[t]) >= BatchSize
    /\ FlushAll(FALSE, "interval")
    /\ UNCHANGED <<phase, history>>

IntervalFlush ==
    /\ phase = "running"
    /\ ~IntervalBusy
    /\ \E t \in Tables : queue[t] # <<>>
    /\ FlushAll(FALSE, "interval")
    /\ UNCHANGED <<phase, history>>

-----------------------------------------------------------------------------
(* The outcomes of one writeToClickhouse of a flight.                      *)

(* ClickHouse has the rows of S once more.                                 *)
Insert(S) ==
    /\ stored' = stored \cup S
    /\ repeated' = repeated \cup (S \cap stored)

(* Mutant: <= for < in the test of an item's attempts.                     *)
RetryOrdersOneMore(batch) ==
    LET retriable == {i \in DOMAIN batch : batch[i].attempts <= MaxAttempts}
        n == Cardinality(retriable)
    IN  {pos \in [1..n -> retriable] :
            /\ {pos[i] : i \in 1..n} = retriable
            /\ \A i, j \in 1..n : i < j => pos[i] < pos[j]}

(* The order in which the catch block walks the items it may still retry.  *)
RetryOrders(batch) ==
    LET retriable == {i \in DOMAIN batch : batch[i].attempts < MaxAttempts}
        n == Cardinality(retriable)
    IN  {pos \in [1..n -> retriable] :
            /\ {pos[i] : i \in 1..n} = retriable
            /\ \A i, j \in 1..n : i < j => pos[i] < pos[j]}

Requeued(item, attempts) ==
    [row |-> item.row, attempts |-> attempts, requeued |-> TRUE]

(* The catch block of flush for the items of batch: those with attempts    *)
(* left go to the back of q, the others are dropped.                       *)
GiveUp(f, batch, q) ==
    /\ \E pos \in RetryOrders(batch) :
          queue' = [queue EXCEPT ![f.table] =
                      q \o [i \in DOMAIN pos |->
                              Requeued(batch[pos[i]], batch[pos[i]].attempts + 1)]]
    /\ dropped' = dropped \cup
          RowsOf([i \in {j \in DOMAIN batch : batch[j].attempts >= MaxAttempts} |-> batch[i]])
    /\ failures' = [r \in Rows |->
          IF r \in RowsOf(batch) THEN failures[r] + 1 ELSE failures[r]]
    /\ flights' = flights \ {f}

(* The flush f after one more failed try, about to write batch.            *)
NextTry(f, batch, truncated) ==
    [table |-> f.table, batch |-> batch, tries |-> f.tries + 1,
     truncated |-> truncated, origin |-> f.origin]

(* backOff after a failed try the retry callback answered true for: try    *)
(* again with this batch, or give up when the tries are used up.           *)
TryAgain(f, batch, truncated, q) ==
    IF f.tries + 1 < MaxAttempts
    THEN /\ flights' = (flights \ {f}) \cup {NextTry(f, batch, truncated)}
         /\ queue' = [queue EXCEPT ![f.table] = q]
         /\ UNCHANGED <<dropped, failures>>
    ELSE GiveUp(f, batch, q)

InsertSucceeds(f) ==
    /\ Insert(RowsOf(f.batch))
    /\ flights' = flights \ {f}
    /\ UNCHANGED <<queue, phase, accepted, dropped, failures, doubtful>>

(* "socket hang up" or a client-side timeout: any part of the batch may    *)
(* have been applied before the error.                                     *)
TransientFailure(f) ==
    /\ \E applied \in SUBSET RowsOf(f.batch) :
          /\ Insert(applied)
          /\ doubtful' = doubtful \cup applied
    /\ TryAgain(f, f.batch, f.truncated, queue[f.table])
    /\ UNCHANGED <<phase, accepted>>

(* How many rows of an over-long batch of n stay with the flush: half, and *)
(* a lone row, which is truncated instead.                                 *)
SplitPoint(n) == IF n = 1 THEN 1 ELSE n \div 2

(* Mutants of the split: the second half is not put back, the whole batch  *)
(* is tried again although half of it was put back, or the half put back   *)
(* is charged an attempt.                                                  *)
StringLengthFailureForgetting(f) ==
    LET split == SplitPoint(Len(f.batch))
    IN  /\ CanTruncate
        /\ TryAgain(f, Taken(f.batch, split), f.truncated, queue[f.table])
        /\ UNCHANGED <<phase, accepted, stored, doubtful, repeated>>

StringLengthFailureKeepingAll(f) ==
    LET split == SplitPoint(Len(f.batch))
        rest == Remaining(f.batch, split)
        q == [i \in DOMAIN rest |-> Requeued(rest[i], rest[i].attempts)] \o queue[f.table]
    IN  /\ CanTruncate
        /\ TryAgain(f, f.batch, f.truncated, q)
        /\ UNCHANGED <<phase, accepted, stored, doubtful, repeated>>

StringLengthFailureCharging(f) ==
    LET split == SplitPoint(Len(f.batch))
        rest == Remaining(f.batch, split)
        charged(item) == IF item.attempts < MaxAttempts THEN item.attempts + 1
                                                        ELSE item.attempts
        q == [i \in DOMAIN rest |-> Requeued(rest[i], charged(rest[i]))] \o queue[f.table]
    IN  /\ CanTruncate
        /\ TryAgain(f, Taken(f.batch, split), f.truncated, q)
        /\ UNCHANGED <<phase, accepted, stored, doubtful, repeated>>

(* "invalid string length": a batch of several rows is cut in half and the *)
(* second half goes to the front of the queue; a lone row is truncated.    *)
StringLengthFailure(f) ==
    LET split == SplitPoint(Len(f.batch))
        kept == Taken(f.batch, split)
        rest == Remaining(f.batch, split)
        q == [i \in DOMAIN rest |-> Requeued(rest[i], rest[i].attempts)] \o queue[f.table]
    IN  /\ CanTruncate
        /\ TryAgain(f, kept, f.truncated, q)
        /\ UNCHANGED <<phase, accepted, stored, doubtful, repeated>>

(* ClickHouse finds a JSON object extremely large: truncate once.          *)
SizeFailure(f) ==
    /\ CanTruncate
    /\ ~f.truncated
    /\ TryAgain(f, f.batch, TRUE, queue[f.table])
    /\ UNCHANGED <<phase, accepted, stored, doubtful, repeated>>

(* Every other error, and a second size error.                             *)
FatalFailure(f) ==
    /\ GiveUp(f, f.batch, queue[f.table])
    /\ UNCHANGED <<phase, accepted, stored, doubtful, repeated>>

Resolve(f) ==
    \/ InsertSucceeds(f)
    \/ TransientFailure(f)
    \/ StringLengthFailure(f)
    \/ SizeFailure(f)
    \/ FatalFailure(f)

-----------------------------------------------------------------------------
(* shutdown(): runs after the queue workers are closed, so nothing is      *)
(* added any more.  It clears the interval, waits until no flush is        *)
(* active, flushes every queue in full, once, and ends.                    *)

Shutdown ==
    /\ phase = "running"
    /\ phase' = "draining"
    /\ UNCHANGED <<queue, flights, history>>

(* Mutant: shutdown waits for what is in the air and leaves the queues.    *)
FinalFlushOnlyDrains ==
    /\ phase = "draining"
    /\ flights = {}
    /\ phase' = "final"
    /\ UNCHANGED <<queue, flights, history>>

FinalFlush ==
    /\ phase = "draining"
    /\ flights = {}
    /\ FlushAll(TRUE, "final")
    /\ phase' = "final"
    /\ UNCHANGED history

(* Mutant: shutdown does not wait for its own flush.                       *)
ShutdownCompleteAtOnce ==
    /\ phase = "final"
    /\ phase' = "closed"
    /\ UNCHANGED <<queue, flights, history>>

ShutdownComplete ==
    /\ phase = "final"
    /\ flights = {}
    /\ phase' = "closed"
    /\ UNCHANGED <<queue, flights, history>>

(* The process has ended.                                                  *)
Closed == phase = "closed" /\ UNCHANGED vars

Next ==
    \/ \E r \in Rows, t \in Tables : AddToQueue(r, t)
    \/ IntervalFlush
    \/ \E f \in flights : Resolve(f)
    \/ Shutdown \/ FinalFlush \/ ShutdownComplete
    \/ Closed

Spec == Init /\ [][Next]_vars

(* The timer fires, every insert returns or times out, and a shutdown that *)
(* has begun goes on.  Nothing is assumed of ClickHouse: every insert may  *)
(* fail.                                                                   *)
Fairness ==
    /\ WF_vars(IntervalFlush)
    /\ \A r \in Rows : WF_vars(\E f \in flights : r \in RowsOf(f.batch) /\ Resolve(f))
    /\ WF_vars(FinalFlush)
    /\ WF_vars(ShutdownComplete)

FairSpec == Spec /\ Fairness

-----------------------------------------------------------------------------
(* Properties.                                                             *)

TypeOK ==
    /\ queue \in [Tables -> Seq(Items)]
    /\ flights \subseteq Flights
    /\ phase \in {"running", "draining", "final", "closed"}
    /\ accepted \subseteq Rows /\ stored \subseteq Rows /\ dropped \subseteq Rows
    /\ failures \in [Rows -> Nat]
    /\ doubtful \subseteq Rows /\ repeated \subseteq Rows

(* No accepted row vanishes: through splices, splits, retries and requeues *)
(* it is waiting, in flight, in ClickHouse, or counted as dropped.         *)
NoRowLost == accepted \subseteq Held \cup stored \cup dropped

(* A row is never in the writer's hands twice: the batch of one flush, the *)
(* other half of a split and the queue never share a row, so two flushes   *)
(* never insert the same row side by side, and none is held once dropped.  *)
HeldOnce ==
    /\ \A t, u \in Tables : \A i \in DOMAIN queue[t], j \in DOMAIN queue[u] :
          queue[t][i].row = queue[u][j].row => t = u /\ i = j
    /\ \A f, g \in flights : \A i \in DOMAIN f.batch, j \in DOMAIN g.batch :
          f.batch[i].row = g.batch[j].row => f = g /\ i = j
    /\ Queued \cap InFlight = {}
    /\ Held \cap dropped = {}

(* A row is dropped only when as many flushes as MAX_ATTEMPTS failed with  *)
(* it aboard; being split off to the front of the queue is not charged.    *)
DroppedOnlyExhausted == \A r \in dropped : failures[r] = MaxAttempts

(* A row reaches ClickHouse twice only if an insert that was reported as   *)
(* failed had already applied it.                                          *)
RepeatedOnlyDoubtful == repeated \subseteq doubtful

(* When shutdown returns, what stays in memory is only what the final      *)
(* flush itself put back, never a row that was not tried at all.           *)
ClosedLeavesOnlyRequeued ==
    phase = "closed" =>
        /\ flights = {}
        /\ \A t \in Tables : \A i \in DOMAIN queue[t] : queue[t][i].requeued

(* What the shutdown sequence says of the writer: all pending writes are   *)
(* flushed once it has ended.                                              *)
ShutdownFlushesAll == phase = "closed" => accepted \subseteq stored \cup dropped

(* Every accepted row leaves the writer's memory, whatever ClickHouse      *)
(* answers, unless the process stops first.                                *)
AcceptedRowsSettle ==
    \A r \in Rows : r \in accepted ~> (r \notin Held \/ phase = "closed")

-----------------------------------------------------------------------------
(* The writer implements its contract.                                     *)

Fate(r) ==
    IF r \notin accepted THEN "unborn"
    ELSE IF r \in Held THEN (IF phase = "closed" THEN "abandoned" ELSE "buffered")
    ELSE IF r \in dropped THEN "dropped"
    ELSE "stored"

Contract == INSTANCE WriterContract WITH fate <- [r \in Rows |-> Fate(r)]

(* Every run of the writer is a run of WriterContract: in particular a row *)
(* that left the buffer never comes back, and a failed flush either keeps  *)
(* or drops a row, never both.                                             *)
ImplementsContract == Contract!Spec
=============================================================================
