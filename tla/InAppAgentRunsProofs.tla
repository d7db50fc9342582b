------------------------ MODULE InAppAgentRunsProofs ------------------------
(***************************************************************************)
(* Proofs about InAppAgentRuns, for any number of runs, reconciliations,   *)
(* heartbeats and faults: one run of a conversation is unsettled at a      *)
(* time, what has settled stays, only a run whose heartbeat is too old is  *)
(* declared lost, live keys are named, the history is in the order of the  *)
(* runs, a cancellation is heeded, and an aborted run tells what became of *)
(* its approved call.                                                      *)
(*                                                                         *)
(* Workers and reconciliations take no lock, so the argument is about what *)
(* they read before: the row of a run that was read as lost has left the   *)
(* queue for good, and if its heartbeat count is still the one that was    *)
(* read, its heartbeat is still too old. Whoever appends does hold the     *)
(* lock of the conversation: an unsettled run is then the last one         *)
(* (OrderInv), and what a cancellation has read can only be claimed or     *)
(* settle (CancelInv).                                                     *)
(***************************************************************************)
EXTENDS InAppAgentRuns, TLAPS

Ages == {"fresh", "stale", "overdue"}

RowStates ==
    [status : Statuses, code : Codes, approved : BOOLEAN, age : Ages,
     heartbeatAt : Nat, cancelRequested : BOOLEAN]

(* An entry of a list of stale runs, and a row that has become row since.  *)
SeenStates == [run : Runs, status : Unsettled, heartbeatAt : Nat, code : {"worker_lost", "other"}]

StillLost(s, row) ==
    /\ row.status \notin {"none", "QUEUED"}
    /\ row.status = "RUNNING" =>
          /\ s.heartbeatAt <= row.heartbeatAt
          /\ s.heartbeatAt = row.heartbeatAt => row.age # "fresh"

SeenOK(seen, rows) ==
    /\ seen \subseteq SeenStates
    /\ \A s \in seen : s.code = "worker_lost" => s.status = "RUNNING" /\ StillLost(s, rows[s.run])

OpOK(what, rows) == what.doing = "reconcile" => SeenOK(what.seen, rows)

TxOK(what, rows) ==
    /\ what.doing = "create" => SeenOK(what.seen, rows)
    /\ what.doing = "decide" => what.run \in Runs /\ what.yes \in BOOLEAN
    /\ what.doing = "cancel" =>
          DOMAIN what.seen \subseteq Runs /\ \A r \in DOMAIN what.seen : what.seen[r] \in Unsettled

IInv ==
    /\ run \in [Runs -> RowStates]
    /\ OneUnsettled
    /\ op = [p \in Readers |-> op[p]]
    /\ \A p \in Readers : OpOK(op[p], run)
    /\ TxOK(tx, run)

(* What a step may do to the row of a run.                                 *)
RowStep(old, new) ==
    /\ old.status \in Settled => new = old
    /\ old.status \notin {"none", "QUEUED"} => new.status \notin {"none", "QUEUED"}
    /\ new.status = "RUNNING" /\ old.status \notin {"none", "QUEUED"} =>
          /\ old.status = "RUNNING" /\ old.heartbeatAt <= new.heartbeatAt
          /\ old.heartbeatAt = new.heartbeatAt /\ old.age # "fresh" => new.age # "fresh"
    /\ old.code # "worker_lost" /\ new.code = "worker_lost" => old.age # "fresh"

Kept(old, new) == new \in RowStates /\ RowStep(old, new)

RunStep == run' \in [Runs -> RowStates] /\ \A r \in Runs : RowStep(run[r], run'[r])

OpStep ==
    \/ op' = op
    \/ \E p \in Readers : op' = [op EXCEPT ![p] = op'[p]] /\ OpOK(op'[p], run)

StepOK == RunStep /\ OneUnsettled' /\ OpStep /\ TxOK(tx', run)

-----------------------------------------------------------------------------
(* Rows.                                                                   *)

LEMMA ToType ==
    ASSUME NEW row \in RowStates, NEW status \in Statuses, NEW code \in Codes
    PROVE  /\ To(row, status, code) \in RowStates
           /\ To(row, status, code).status = status /\ To(row, status, code).code = code
PROOF BY DEF To, Row, RowStates, Ages

LEMMA QueuedRow ==
    ASSUME NEW approved \in BOOLEAN
    PROVE  /\ Row("QUEUED", "none", approved) \in RowStates
           /\ Row("QUEUED", "none", approved).status = "QUEUED"
           /\ Row("QUEUED", "none", approved).code = "none"
PROOF BY DEF Row, RowStates, Ages, Statuses, Unsettled, Codes

(* A row is not touched, or an unsettled one is settled.                   *)
LEMMA SameRow == ASSUME NEW row \in RowStates PROVE Kept(row, row)
PROOF
  <1>1. row.heartbeatAt \in Nat
    BY DEF RowStates
  <1> QED
    BY <1>1 DEF Kept, RowStep

LEMMA RowSettles ==
    ASSUME NEW row \in RowStates, row.status \in Unsettled, NEW status \in Settled,
           NEW code \in Codes, code = "worker_lost" => row.age # "fresh"
    PROVE  /\ Kept(row, To(row, status, code))
           /\ To(row, status, code).status = status /\ status \notin Unsettled
PROOF
  <1>1. /\ To(row, status, code) \in RowStates
        /\ To(row, status, code).status = status /\ To(row, status, code).code = code
    BY ToType DEF Statuses
  <1> QED
    BY <1>1 DEF Kept, RowStep, Settled, Unsettled

LEMMA StillLostKept ==
    ASSUME NEW old \in RowStates, NEW new \in RowStates, RowStep(old, new),
           NEW s \in SeenStates, StillLost(s, old)
    PROVE  StillLost(s, new)
PROOF
  <1>1. old.heartbeatAt \in Nat /\ new.heartbeatAt \in Nat /\ s.heartbeatAt \in Nat
    BY DEF RowStates, SeenStates
  <1> QED
    BY <1>1 DEF RowStep, StillLost

LEMMA SeenKept ==
    ASSUME IInv, RunStep, NEW seen, SeenOK(seen, run)
    PROVE  SeenOK(seen, run')
PROOF
  <1> SUFFICES ASSUME NEW s \in seen, s.code = "worker_lost" PROVE StillLost(s, run'[s.run])
    BY DEF SeenOK
  <1>1. s \in SeenStates /\ s.run \in Runs /\ StillLost(s, run[s.run])
    BY DEF SeenOK, SeenStates
  <1> QED
    BY <1>1, StillLostKept DEF IInv, RunStep

-----------------------------------------------------------------------------
(* Such a step keeps the invariant.                                        *)

LEMMA Preserved == ASSUME IInv, StepOK PROVE IInv'
PROOF
  <1>1. run' \in [Runs -> RowStates] /\ OneUnsettled' /\ RunStep
    BY DEF StepOK, RunStep
  <1>2. \A what : OpOK(what, run) => OpOK(what, run')
    BY <1>1, SeenKept DEF OpOK
  <1>3. op' = [p \in Readers |-> op'[p]]
    <2>1. op = [p \in Readers |-> op[p]]
      BY DEF IInv
    <2>2. CASE op' = op
      BY <2>1, <2>2
    <2>3. ASSUME NEW p \in Readers, NEW what, op' = [op EXCEPT ![p] = what]
          PROVE  op' = [q \in Readers |-> op'[q]]
      BY <2>1, <2>3
    <2> QED
      BY <2>2, <2>3 DEF StepOK, OpStep
  <1>4. \A p \in Readers : OpOK(op'[p], run')
    <2>1. op = [p \in Readers |-> op[p]] /\ \A p \in Readers : OpOK(op[p], run)
      BY DEF IInv
    <2>2. CASE op' = op
      BY <2>1, <2>2, <1>2
    <2>3. ASSUME NEW p \in Readers, NEW what, op' = [op EXCEPT ![p] = what], OpOK(what, run)
          PROVE  \A q \in Readers : OpOK(op'[q], run')
      <3>1. op'[p] = what /\ \A q \in Readers \ {p} : op'[q] = op[q]
        BY <2>1, <2>3
      <3> QED
        BY <3>1, <2>1, <2>3, <1>2
    <2> QED
      BY <2>2, <2>3 DEF StepOK, OpStep
  <1>5. TxOK(tx', run')
    BY <1>1, SeenKept DEF StepOK, TxOK
  <1> QED
    BY <1>1, <1>3, <1>4, <1>5 DEF IInv

(* A step that leaves the rows alone.                                      *)
LEMMA RowsAlone ==
    ASSUME IInv, UNCHANGED run
    PROVE  RunStep /\ OneUnsettled' /\ TxOK(tx, run)
PROOF
  <1>1. \A r \in Runs : Kept(run[r], run[r])
    BY SameRow DEF IInv
  <1> QED
    BY <1>1 DEF IInv, RunStep, Kept, OneUnsettled

(* A step that makes no settled run, and no new one, unsettled.            *)
LEMMA NoneUnsettled ==
    ASSUME IInv, run' \in [Runs -> RowStates],
           \A r \in Runs : Kept(run[r], run'[r]) /\ (run'[r].status \in Unsettled => run[r].status \in Unsettled)
    PROVE  RunStep /\ OneUnsettled'
PROOF BY DEF IInv, OneUnsettled, RunStep, Kept

(* One unsettled run moves, and to a status it may move to.                *)
LEMMA OneMoves ==
    ASSUME IInv, NEW r \in Runs, NEW new, run' = [run EXCEPT ![r] = new],
           Kept(run[r], new), new.status \in Unsettled => run[r].status \in Unsettled
    PROVE  RunStep /\ OneUnsettled'
PROOF
  <1>1. run \in [Runs -> RowStates] /\ new \in RowStates
    BY DEF IInv, Kept
  <1>2. run' \in [Runs -> RowStates] /\ run'[r] = new /\ \A q \in Runs \ {r} : run'[q] = run[q]
    BY <1>1
  <1>3. \A q \in Runs \ {r} : Kept(run[q], run'[q])
    BY <1>1, <1>2, SameRow
  <1> QED
    BY <1>2, <1>3, NoneUnsettled

LEMMA MoveOne ==
    ASSUME IInv, NEW r \in Runs, NEW status, NEW code
    PROVE  Move({r}, status, code) = [run EXCEPT ![r] = To(run[r], status, code)]
PROOF BY DEF Move, IInv

(* What a reconciliation read is only ever failed, and as it was read.     *)
LEMMA FailedRows ==
    ASSUME IInv, NEW seen, SeenOK(seen, run)
    PROVE  /\ Failed(seen) \in [Runs -> RowStates]
           /\ \A r \in Runs : Kept(run[r], Failed(seen)[r])
           /\ \A r \in Runs : Failed(seen)[r] = run[r] \/ Failed(seen)[r].status = "FAILED"
PROOF
  <1>1. ASSUME NEW r \in Runs
        PROVE  /\ Kept(run[r], Failed(seen)[r])
               /\ Failed(seen)[r] = run[r] \/ Failed(seen)[r].status = "FAILED"
    <2>1. run[r] \in RowStates
      BY DEF IInv
    <2>2. CASE ~\E s \in Unmoved(seen) : s.run = r
      BY <2>1, <2>2, SameRow DEF Failed
    <2>3. CASE \E s \in Unmoved(seen) : s.run = r
      <3> DEFINE c == CHOOSE s \in Unmoved(seen) : s.run = r
      <3>1. c \in Unmoved(seen) /\ c.run = r
        BY <2>3
      <3>2. Failed(seen)[r] = To(run[r], "FAILED", c.code)
        BY <2>3 DEF Failed
      <3> HIDE DEF c
      <3>3. /\ c \in seen /\ c \in SeenStates /\ run[r].status = c.status
            /\ c.code = "worker_lost" => run[r].heartbeatAt = c.heartbeatAt
        BY <3>1 DEF Unmoved, SeenOK, Is
      <3>4. c.status \in Unsettled /\ c.code \in Codes
        BY <3>3 DEF SeenStates, Codes
      <3>5. c.code = "worker_lost" => run[r].age # "fresh"
        BY <3>1, <3>3 DEF SeenOK, StillLost
      <3>6. /\ Kept(run[r], To(run[r], "FAILED", c.code))
            /\ To(run[r], "FAILED", c.code).status = "FAILED"
        <4>1. run[r].status \in Unsettled /\ "FAILED" \in Settled
          BY <3>3, <3>4 DEF Settled
        <4>2. \A code \in Codes : (code = "worker_lost" => run[r].age # "fresh") =>
                  /\ Kept(run[r], To(run[r], "FAILED", code))
                  /\ To(run[r], "FAILED", code).status = "FAILED"
          BY <2>1, <4>1, RowSettles
        <4> QED
          BY <3>4, <3>5, <4>2
      <3> QED
        BY <3>2, <3>6
    <2> QED
      BY <2>2, <2>3
  <1>2. Failed(seen) \in [Runs -> RowStates]
    BY <1>1 DEF Kept, Failed
  <1> QED
    BY <1>1, <1>2

(* What is read as stale is, at that moment.                               *)
LEMMA StaleRead == ASSUME IInv PROVE SeenOK(StaleRuns, run)
PROOF
  <1> SUFFICES ASSUME NEW q \in Runs, IsStale(q),
                      NEW s, s = [run |-> q, status |-> run[q].status,
                                  heartbeatAt |-> run[q].heartbeatAt, code |-> FailureOf(q)]
               PROVE  /\ s \in SeenStates
                      /\ s.code = "worker_lost" => s.status = "RUNNING" /\ StillLost(s, run[q])
    BY DEF StaleRuns, SeenOK
  <1>1. run[q] \in RowStates /\ run[q].heartbeatAt \in Nat
    BY DEF IInv, RowStates
  <1>2. run[q].status \in Unsettled
    BY DEF IsStale, Is, Unsettled
  <1>3. s \in SeenStates
    BY <1>1, <1>2 DEF SeenStates, FailureOf
  <1>4. s.code = "worker_lost" => run[q].age = "stale" /\ run[q].status = "RUNNING"
    BY DEF FailureOf, IsStale, Is
  <1> QED
    BY <1>1, <1>3, <1>4 DEF StillLost

-----------------------------------------------------------------------------
(* Steps that leave the rows alone, by what they change.                   *)

LEMMA TxIdle == TxOK(Idle, run) /\ \A r \in Runs : TxOK(Flushing(r), run)
PROOF BY DEF TxOK, Idle, Flushing

LEMMA OpChanges ==
    ASSUME IInv, NEW p \in Readers, NEW what, Does(p, what), OpOK(what, run)
    PROVE  OpStep
PROOF
  <1>1. op' = [op EXCEPT ![p] = what] /\ op = [q \in Readers |-> op[q]]
    BY DEF Does, IInv
  <1>2. op'[p] = what
    BY <1>1
  <1> QED
    BY <1>1, <1>2 DEF OpStep

LEMMA OnlyOp == ASSUME IInv, UNCHANGED <<run, tx>>, OpStep PROVE StepOK
PROOF BY RowsAlone DEF StepOK

LEMMA OnlyTx == ASSUME IInv, UNCHANGED <<run, op>>, TxOK(tx', run) PROVE StepOK
PROOF BY RowsAlone DEF StepOK, OpStep

LEMMA NeitherChanges == ASSUME IInv, UNCHANGED <<run, tx, op>> PROVE StepOK
PROOF
  <1>1. TxOK(tx', run)
    BY DEF IInv
  <1> QED
    BY <1>1, OnlyTx

LEMMA WorkerAlone ==
    ASSUME IInv, NEW r \in Runs,
           \/ InitFails(r) \/ MintKey(r) \/ WorkerShutdown(r) \/ Produce(r) \/ LastWriteFails(r)
           \/ DeleteKey(r) \/ ClearPointer(r) \/ CleanupFails(r) \/ JobStalls(r)
           \/ Enqueue(r) \/ AddThrows(r)
    PROVE  StepOK
PROOF
  <1>1. UNCHANGED <<run, tx, op>>
    BY DEF InitFails, MintKey, WorkerShutdown, Produce, LastWriteFails, DeleteKey, ClearPointer,
           CleanupFails, JobStalls, Enqueue, AddThrows, conversation
  <1> QED
    BY <1>1, NeitherChanges

LEMMA FlushSteps ==
    ASSUME IInv, NEW r \in Runs, FlushCheck(r) \/ FlushAppend(r) \/ WorkerDies(r)
    PROVE  StepOK
PROOF
  <1>1. UNCHANGED <<run, op>> /\ tx' \in {tx, Idle, Flushing(r)}
    BY DEF FlushCheck, FlushAppend, WorkerDies, actors
  <1>2. TxOK(tx', run)
    BY <1>1, TxIdle DEF IInv
  <1> QED
    BY <1>1, <1>2, OnlyTx

LEMMA ReadSteps ==
    ASSUME IInv, NEW p \in Readers, NEW r \in Runs,
           ReadStale(p) \/ ClaimMiss(r, p) \/ CleanDelete(p, r) \/ CleanClear(p)
    PROVE  StepOK
PROOF
  <1>1. UNCHANGED <<run, tx>>
    BY DEF ReadStale, ClaimMiss, CleanDelete, CleanClear, conversation
  <1>2. \E what : Does(p, what) /\ OpOK(what, run)
    <2>1. OpOK([doing |-> "reconcile", seen |-> StaleRuns], run)
      BY StaleRead DEF OpOK
    <2>2. OpOK(Idle, run) /\ OpOK([doing |-> "clear", run |-> r], run)
      BY DEF OpOK, Idle
    <2>3. CASE ReadStale(p)
      BY <2>1, <2>3 DEF ReadStale
    <2>4. CASE ClaimMiss(r, p)
      BY <2>1, <2>4 DEF ClaimMiss
    <2>5. CASE CleanDelete(p, r)
      BY <2>2, <2>5 DEF CleanDelete
    <2>6. CASE CleanClear(p)
      BY <2>2, <2>6 DEF CleanClear
    <2> QED
      BY <2>3, <2>4, <2>5, <2>6
  <1>3. OpStep
    BY <1>2, OpChanges
  <1> QED
    BY <1>1, <1>3, OnlyOp

(* What a request read before its writes.                                  *)
LEMMA BeginSteps ==
    ASSUME IInv, \/ CreateBegin
                 \/ \E r \in Runs, yes \in BOOLEAN : DecideBegin(r, yes)
                 \/ \E r \in Runs : run[r].status \in Unsettled /\ CancelBegin({r}, FALSE)
                 \/ CancelBegin({r \in Runs : run[r].status \in Unsettled}, TRUE)
                 \/ TransactionDies
    PROVE  StepOK
PROOF
  <1>1. UNCHANGED <<run, op>>
    BY DEF CreateBegin, DecideBegin, CancelBegin, TransactionDies, Begin, actors
  <1>2. ASSUME CreateBegin PROVE TxOK(tx', run)
    BY <1>2, StaleRead DEF CreateBegin, Begin, TxOK
  <1>3. ASSUME NEW r \in Runs, NEW yes \in BOOLEAN, DecideBegin(r, yes) PROVE TxOK(tx', run)
    BY <1>3 DEF DecideBegin, Begin, TxOK
  <1>4. ASSUME NEW S \in SUBSET Runs, NEW deleting, \A r \in S : run[r].status \in Unsettled,
               CancelBegin(S, deleting)
        PROVE  TxOK(tx', run)
    <2>1. tx' = [doing |-> "cancel", seen |-> [r \in S |-> run[r].status], deleting |-> deleting]
      BY <1>4 DEF CancelBegin, Begin
    <2> QED
      BY <1>4, <2>1 DEF TxOK
  <1>5. ASSUME TransactionDies PROVE TxOK(tx', run)
    BY <1>5, TxIdle DEF TransactionDies
  <1>6. TxOK(tx', run)
    <2>1. ASSUME NEW r \in Runs, run[r].status \in Unsettled, CancelBegin({r}, FALSE)
          PROVE  TxOK(tx', run)
      BY <2>1, <1>4
    <2>2. ASSUME CancelBegin({r \in Runs : run[r].status \in Unsettled}, TRUE)
          PROVE  TxOK(tx', run)
      BY <2>2, <1>4
    <2> QED
      BY <1>2, <1>3, <1>5, <2>1, <2>2
  <1> QED
    BY <1>1, <1>6, OnlyTx

-----------------------------------------------------------------------------
(* Steps that change a row.                                                *)

LEMMA RowsOnly ==
    ASSUME IInv, RunStep, OneUnsettled', op' = op, tx' \in {tx, Idle}
    PROVE  StepOK
PROOF
  <1>1. TxOK(tx', run)
    BY TxIdle DEF IInv
  <1> QED
    BY <1>1 DEF StepOK, OpStep

LEMMA Row1 == ASSUME IInv, NEW r \in Runs PROVE run[r] \in RowStates /\ run[r].heartbeatAt \in Nat
PROOF BY DEF IInv, RowStates

LEMMA TimeSteps ==
    ASSUME IInv, NEW r \in Runs, HeartbeatAges(r) \/ DeadlinePasses(r) PROVE StepOK
PROOF
  <1>1. PICK age \in {"stale", "overdue"} : run' = [run EXCEPT ![r].age = age]
    BY DEF HeartbeatAges, DeadlinePasses
  <1> DEFINE new == [run[r] EXCEPT !.age = age]
  <1>2. run[r].status \in Unsettled /\ UNCHANGED <<op, tx>>
    BY DEF HeartbeatAges, DeadlinePasses, actors, Is, Unsettled
  <1>3. new \in RowStates /\ new.status = run[r].status /\ new.heartbeatAt = run[r].heartbeatAt
        /\ new.age # "fresh" /\ new.code = run[r].code
    BY <1>2, Row1 DEF RowStates, Ages
  <1>4. run' = [run EXCEPT ![r] = new]
    BY <1>1
  <1> HIDE DEF new
  <1>5. Kept(run[r], new)
    BY <1>2, <1>3, Row1 DEF Kept, RowStep, Settled, Unsettled
  <1>6. RunStep /\ OneUnsettled'
    BY <1>2, <1>4, <1>5, OneMoves
  <1> QED
    BY <1>2, <1>6, RowsOnly

LEMMA HeartbeatStep == ASSUME IInv, NEW r \in Runs, Heartbeat(r) PROVE StepOK
PROOF
  <1>1. CASE ~Is(r, "RUNNING")
    BY <1>1, NeitherChanges DEF Heartbeat
  <1>2. CASE Is(r, "RUNNING")
    <2> DEFINE age == IF run[r].age = "stale" THEN "fresh" ELSE run[r].age
               beat == run[r].heartbeatAt + 1
               new == [run[r] EXCEPT !.heartbeatAt = beat, !.age = age]
    <2>1. run' = [run EXCEPT ![r] = new] /\ UNCHANGED <<op, tx>>
      BY <1>2 DEF Heartbeat
    <2>2. beat \in Nat /\ beat > run[r].heartbeatAt
      BY Row1
    <2>3. age \in Ages
      BY Row1 DEF RowStates, Ages
    <2> HIDE DEF beat, age
    <2>4. new \in RowStates /\ new.status = "RUNNING" /\ new.heartbeatAt = beat /\ new.code = run[r].code
      BY <1>2, <2>2, <2>3, Row1 DEF RowStates, Is
    <2> HIDE DEF new
    <2>5. run[r].heartbeatAt <= new.heartbeatAt /\ run[r].heartbeatAt # new.heartbeatAt
      BY <2>2, <2>4, Row1
    <2>6. Kept(run[r], new)
      BY <1>2, <2>4, <2>5 DEF Kept, RowStep, Settled, Is
    <2>7. RunStep /\ OneUnsettled'
      BY <1>2, <2>1, <2>6, OneMoves DEF Is, Unsettled
    <2> QED
      BY <2>1, <2>7, RowsOnly
  <1> QED
    BY <1>1, <1>2

(* One run moves, from a status and to a status it may move to.            *)
LEMMA Moves ==
    ASSUME IInv, NEW r \in Runs, NEW status \in Statuses, NEW code \in Codes \ {"worker_lost"},
           run' = Move({r}, status, code),
           \/ run[r].status \in Unsettled /\ status \in Settled
           \/ run[r].status = "QUEUED" /\ status = "RUNNING"
           \/ run[r].status = "RUNNING" /\ status = "AWAITING_APPROVAL"
    PROVE  RunStep /\ OneUnsettled'
PROOF
  <1> DEFINE new == To(run[r], status, code)
  <1>1. new \in RowStates /\ new.status = status /\ new.code = code
    BY Row1, ToType
  <1>2. run' = [run EXCEPT ![r] = new]
    BY MoveOne
  <1> HIDE DEF new
  <1>3. Kept(run[r], new)
    BY <1>1 DEF Kept, RowStep, Settled, Unsettled
  <1>4. run[r].status \in Unsettled
    BY DEF Unsettled
  <1> QED
    BY <1>2, <1>3, <1>4, OneMoves

LEMMA ClaimStep == ASSUME IInv, NEW r \in Runs, Claim(r) PROVE StepOK
PROOF
  <1>1. run' = Move({r}, "RUNNING", "none") /\ run[r].status = "QUEUED" /\ UNCHANGED <<op, tx>>
    BY DEF Claim, Is
  <1>2. "RUNNING" \in Statuses /\ "none" \in Codes \ {"worker_lost"}
    BY DEF Statuses, Unsettled, Codes
  <1>3. RunStep /\ OneUnsettled'
    BY <1>1, <1>2, Moves
  <1> QED
    BY <1>1, <1>3, RowsOnly

LEMMA FailureCodes ==
    ASSUME NEW r, NEW otherwise \in Codes \ {"worker_lost"}
    PROVE  FailureCode(r, otherwise) \in Codes \ {"worker_lost"}
PROOF BY DEF FailureCode, Codes

LEMMA FinishStep ==
    ASSUME IInv, NEW r \in Runs, NEW status \in {"SUCCEEDED", "FAILED", "CANCELLED", "AWAITING_APPROVAL"},
           NEW code \in Codes \ {"worker_lost"}, NEW last, Finish(r, status, code, last)
    PROVE  StepOK
PROOF
  <1>1. tx' = Idle /\ op' = op
    BY DEF Finish
  <1>2. CASE Is(r, "RUNNING")
    <2>1. run' = Move({r}, status, code) /\ run[r].status = "RUNNING"
      BY <1>2 DEF Finish, Is
    <2>2. status \in Statuses /\ (status \in Settled \/ status = "AWAITING_APPROVAL")
          /\ run[r].status \in Unsettled
      BY <2>1 DEF Statuses, Settled, Unsettled
    <2>3. RunStep /\ OneUnsettled'
      BY <2>1, <2>2, Moves
    <2> QED
      BY <1>1, <2>3, RowsOnly
  <1>3. CASE ~Is(r, "RUNNING")
    BY <1>1, <1>3, TxIdle, OnlyTx DEF Finish
  <1> QED
    BY <1>2, <1>3

LEMMA EndSteps ==
    ASSUME IInv, NEW r \in Runs, Complete(r) \/ Aborted(r) \/ LoopFails(r)
    PROVE  StepOK
PROOF
  <1>1. {"none", "other", "cancelled", "worker_shutdown", "outcome_unknown"} \subseteq Codes \ {"worker_lost"}
    BY DEF Codes
  <1>2. \A code \in Codes \ {"worker_lost"} : FailureCode(r, code) \in Codes \ {"worker_lost"}
    BY FailureCodes
  <1>3. \A status \in {"SUCCEEDED", "FAILED", "CANCELLED", "AWAITING_APPROVAL"} :
        \A code \in Codes \ {"worker_lost"} : \A last : Finish(r, status, code, last) => StepOK
    BY FinishStep
  <1>4. CASE Complete(r)
    BY <1>1, <1>3, <1>4 DEF Complete
  <1>5. CASE LoopFails(r)
    BY <1>1, <1>2, <1>3, <1>5 DEF LoopFails
  <1>6. CASE Aborted(r)
    <2>1. CASE UNCHANGED <<conversation, access, job, op, faults>>
      BY <2>1, NeitherChanges DEF conversation
    <2>2. CASE \/ Finish(r, "CANCELLED", "cancelled", <<>>)
               \/ Finish(r, "FAILED", "outcome_unknown", <<>>)
               \/ Finish(r, "FAILED", FailureCode(r, "worker_shutdown"), <<>>)
      BY <1>1, <1>2, <1>3, <2>2
    <2> QED
      BY <1>6, <2>1, <2>2 DEF Aborted
  <1> QED
    BY <1>4, <1>5, <1>6

(* What fails a run that nobody else has settled.                          *)
LEMMA FailSteps ==
    ASSUME IInv, NEW r \in Runs, Catch(r) \/ EnqueueFailed(r)
    PROVE  StepOK
PROOF
  <1>1. UNCHANGED <<op, tx>>
    BY DEF Catch, AfterCatch, EnqueueFailed
  <1>2. CatchCodes(r) \subseteq Codes \ {"worker_lost"} /\ "other" \in Codes \ {"worker_lost"}
    BY FailureCodes DEF Codes, CatchCodes
  <1>3. CASE run' = run
    BY <1>1, <1>3, NeitherChanges
  <1>4. ASSUME NEW code \in Codes \ {"worker_lost"}, run' = Move({r}, "FAILED", code),
               run[r].status \in {"QUEUED", "RUNNING"}
        PROVE  StepOK
    <2>1. "FAILED" \in Statuses /\ "FAILED" \in Settled /\ run[r].status \in Unsettled
      BY <1>4 DEF Statuses, Settled, Unsettled
    <2>2. RunStep /\ OneUnsettled'
      BY <1>4, <2>1, Moves
    <2> QED
      BY <1>1, <2>2, RowsOnly
  <1> QED
    BY <1>2, <1>3, <1>4 DEF Catch, EnqueueFailed, Is

LEMMA WriteStaleStep == ASSUME IInv, NEW p \in Readers, WriteStale(p) PROVE StepOK
PROOF
  <1>1. SeenOK(op[p].seen, run) /\ run' = Failed(op[p].seen) /\ tx' = tx /\ Does(p, Idle)
    BY DEF WriteStale, IInv, OpOK
  <1>2. /\ run' \in [Runs -> RowStates]
        /\ \A r \in Runs : Kept(run[r], run'[r])
        /\ \A r \in Runs : run'[r] = run[r] \/ run'[r].status = "FAILED"
    BY <1>1, FailedRows
  <1>3. RunStep /\ OneUnsettled'
    BY <1>2, NoneUnsettled DEF Unsettled
  <1>4. OpStep
    BY <1>1, OpChanges DEF OpOK, Idle
  <1> QED
    BY <1>1, <1>3, <1>4 DEF StepOK, IInv

LEMMA NewRun ==
    ASSUME IInv, NEW n \in Fresh, NEW approved \in BOOLEAN
    PROVE  /\ n \in Runs /\ run[n].status = "none"
           /\ Kept(run[n], Row("QUEUED", "none", approved))
PROOF
  <1>1. n \in Runs /\ run[n].status = "none"
    BY DEF Fresh, Created, Is
  <1> QED
    BY <1>1, QueuedRow DEF Kept, RowStep, Settled

(* The new run is the only unsettled one: no other was active, and what    *)
(* was parked is superseded.                                               *)
LEMMA CreateStep == ASSUME IInv, CreateCommit PROVE StepOK
PROOF
  <1> DEFINE rows == Failed(tx.seen)
  <1>1. UNCHANGED op /\ tx' = Idle
    BY DEF CreateCommit
  <1>2. SeenOK(tx.seen, run)
    BY DEF CreateCommit, IInv, TxOK
  <1>3. /\ rows \in [Runs -> RowStates]
        /\ \A r \in Runs : Kept(run[r], rows[r])
        /\ \A r \in Runs : rows[r] = run[r] \/ rows[r].status = "FAILED"
    BY <1>2, FailedRows
  <1>4. CASE UNCHANGED run
    BY <1>1, <1>4, TxIdle, OnlyTx
  <1>5. ASSUME NEW n \in Fresh, Create(rows, n), ~\E r \in Runs : rows[r].status \in {"QUEUED", "RUNNING"}
        PROVE  StepOK
    <2> HIDE DEF rows
    <2> DEFINE fresh == Row("QUEUED", "none", FALSE)
    <2>1. n \in Runs /\ run[n].status = "none" /\ Kept(run[n], fresh)
      BY NewRun
    <2>2. ASSUME NEW r \in Runs, r # n
          PROVE  Kept(run[r], run'[r]) /\ run'[r].status \notin Unsettled
      <3>1. CASE rows[r].status = "AWAITING_APPROVAL"
        <4>1. run'[r] = To(run[r], "CANCELLED", "other") /\ run[r].status = "AWAITING_APPROVAL"
          BY <1>3, <1>5, <2>2, <3>1 DEF Create
        <4>2. run[r].status \in Unsettled /\ "CANCELLED" \in Settled /\ "other" \in Codes
              /\ "other" # "worker_lost" /\ run[r] \in RowStates
          BY <4>1, Row1 DEF Unsettled, Settled, Codes
        <4>3. /\ Kept(run[r], To(run[r], "CANCELLED", "other"))
              /\ To(run[r], "CANCELLED", "other").status = "CANCELLED" /\ "CANCELLED" \notin Unsettled
          BY <4>2, RowSettles
        <4> QED
          BY <4>1, <4>3
      <3>2. CASE rows[r].status # "AWAITING_APPROVAL"
        <4>1. run'[r] = rows[r]
          BY <1>5, <2>2, <3>2 DEF Create
        <4> QED
          BY <1>3, <1>5, <3>2, <4>1 DEF Unsettled
      <3> QED
        BY <3>1, <3>2
    <2>3. run'[n] = fresh
      <3>1. rows[n].status # "AWAITING_APPROVAL"
        BY <1>3, <2>1
      <3> QED
        BY <1>5, <2>1, <3>1 DEF Create
    <2>4. \A r \in Runs : Kept(run[r], run'[r])
      BY <2>1, <2>2, <2>3
    <2>5. run' = [r \in Runs |-> run'[r]]
      BY <1>5 DEF Create
    <2> HIDE DEF fresh
    <2>6. run' \in [Runs -> RowStates]
      BY <2>4, <2>5 DEF Kept
    <2>7. RunStep
      BY <2>4, <2>6 DEF RunStep, Kept
    <2>8. OneUnsettled'
      BY <2>2 DEF OneUnsettled
    <2> QED
      BY <1>1, <2>7, <2>8, RowsOnly
  <1> QED
    BY <1>4, <1>5 DEF CreateCommit

(* The parent was the unsettled one, and the continuation takes its place. *)
LEMMA DecideStep == ASSUME IInv, DecideCommit PROVE StepOK
PROOF
  <1>1. UNCHANGED op /\ tx' = Idle /\ tx.run \in Runs /\ tx.yes \in BOOLEAN
    BY DEF DecideCommit, IInv, TxOK
  <1>2. CASE UNCHANGED run
    BY <1>1, <1>2, TxIdle, OnlyTx
  <1>3. CASE Is(tx.run, "AWAITING_APPROVAL") /\ run' = Move({tx.run}, "FAILED", "other")
    <2>1. "FAILED" \in Statuses /\ "FAILED" \in Settled /\ run[tx.run].status \in Unsettled
          /\ "other" \in Codes \ {"worker_lost"}
      BY <1>3 DEF Statuses, Settled, Unsettled, Codes, Is
    <2>2. RunStep /\ OneUnsettled'
      BY <1>1, <1>3, <2>1, Moves
    <2> QED
      BY <1>1, <2>2, RowsOnly
  <1>4. ASSUME NEW n \in Fresh, Is(tx.run, "AWAITING_APPROVAL"), Decide(tx.run, n) PROVE StepOK
    <2> DEFINE fresh == Row("QUEUED", "none", tx.yes)
               done == To(run[tx.run], "SUCCEEDED", "none")
               parent == tx.run
    <2>1. n \in Runs /\ run[n].status = "none" /\ Kept(run[n], fresh)
      BY <1>1, NewRun
    <2>2. run[parent].status = "AWAITING_APPROVAL" /\ parent # n /\ parent \in Runs
      BY <1>1, <1>4, <2>1 DEF Is
    <2>3. Kept(run[parent], done) /\ done.status = "SUCCEEDED"
      <3>1. run[parent].status \in Unsettled /\ "SUCCEEDED" \in Settled /\ "none" \in Codes
            /\ "none" # "worker_lost" /\ run[parent] \in RowStates
        BY <2>2, Row1 DEF Unsettled, Settled, Codes
      <3> QED
        BY <3>1, RowSettles
    <2>4. run' = [run EXCEPT ![parent] = done, ![n] = fresh]
      BY <1>4 DEF Decide
    <2> HIDE DEF fresh, done, parent
    <2>5. /\ run'[n] = fresh /\ run'[parent] = done
          /\ \A r \in Runs \ {n, parent} : run'[r] = run[r]
          /\ run' \in [Runs -> RowStates]
      BY <2>1, <2>2, <2>3, <2>4 DEF IInv, Kept
    <2>6. \A r \in Runs \ {n, parent} : Kept(run[r], run'[r])
      BY <2>5, SameRow, Row1
    <2>7. RunStep
      BY <2>1, <2>3, <2>5, <2>6 DEF RunStep, Kept
    <2>8. \A r \in Runs \ {n} : run'[r].status \notin Unsettled
      BY <2>2, <2>3, <2>5 DEF IInv, OneUnsettled, Unsettled
    <2>9. OneUnsettled'
      BY <2>8 DEF OneUnsettled
    <2> QED
      BY <1>1, <2>7, <2>9, RowsOnly
  <1> QED
    BY <1>2, <1>3, <1>4 DEF DecideCommit

LEMMA CancelStep == ASSUME IInv, CancelCommit PROVE StepOK
PROOF
  <1> DEFINE idle == {r \in DOMAIN tx.seen : Unread(r)}
             signalled == {r \in DOMAIN tx.seen \ idle : Is(r, "RUNNING")}
  <1>1. /\ UNCHANGED op /\ tx' = Idle
        /\ \A r \in DOMAIN tx.seen : tx.seen[r] \in Unsettled
        /\ Cancel(idle, signalled)
    BY DEF CancelCommit, IInv, TxOK
  <1>2. /\ \A r \in idle : run[r].status \in Unsettled
        /\ \A r \in signalled : run[r].status = "RUNNING" /\ r \notin idle
    BY <1>1 DEF Unread, Is
  <1> HIDE DEF idle, signalled
  <1>3. ASSUME NEW r \in Runs
        PROVE  Kept(run[r], run'[r]) /\ (run'[r].status \in Unsettled => run[r].status \in Unsettled)
    <2>1. CASE r \in idle
      <3> DEFINE code == IF Is(r, "QUEUED") THEN "cancelled" ELSE "other"
      <3>1. run'[r] = To(run[r], "CANCELLED", code)
        BY <1>1, <1>2, <2>1 DEF Cancel
      <3>2. run[r].status \in Unsettled /\ "CANCELLED" \in Settled /\ code \in Codes
            /\ code # "worker_lost" /\ run[r] \in RowStates
        BY <1>2, <2>1, Row1 DEF Settled, Codes
      <3> HIDE DEF code
      <3>3. Kept(run[r], To(run[r], "CANCELLED", code))
        BY <3>2, RowSettles
      <3> QED
        BY <3>1, <3>2, <3>3
    <2>2. CASE r \in signalled
      <3> DEFINE new == [run[r] EXCEPT !.cancelRequested = TRUE]
      <3>1. run'[r] = new
        BY <1>1, <1>2, <2>2 DEF Cancel
      <3>2. new \in RowStates /\ new.status = run[r].status /\ new.heartbeatAt = run[r].heartbeatAt
            /\ new.age = run[r].age /\ new.code = run[r].code
        BY Row1 DEF RowStates
      <3> HIDE DEF new
      <3>3. Kept(run[r], new)
        BY <1>2, <2>2, <3>2, Row1 DEF Kept, RowStep, Settled
      <3> QED
        BY <3>1, <3>2, <3>3
    <2>3. CASE r \notin idle /\ r \notin signalled
      <3>1. run'[r] = run[r]
        BY <1>1, <2>3 DEF Cancel
      <3> QED
        BY <3>1, SameRow, Row1
    <2> QED
      BY <2>1, <2>2, <2>3
  <1>4. run' \in [Runs -> RowStates]
    <2>1. run' = [r \in Runs |-> run'[r]]
      BY <1>1 DEF Cancel
    <2> QED
      BY <1>3, <2>1 DEF Kept
  <1>5. RunStep /\ OneUnsettled'
    BY <1>3, <1>4, NoneUnsettled
  <1> QED
    BY <1>1, <1>5, RowsOnly

-----------------------------------------------------------------------------
LEMMA InitHolds == Init => IInv
PROOF
  <1> SUFFICES ASSUME Init PROVE IInv
    OBVIOUS
  <1>1. NoRow \in RowStates /\ NoRow.status = "none"
    BY DEF NoRow, Row, RowStates, Statuses, Unsettled, Codes, Ages
  <1>2. run \in [Runs -> RowStates] /\ OneUnsettled
    BY <1>1 DEF Init, OneUnsettled, Unsettled
  <1>3. /\ op = [p \in Readers |-> op[p]]
        /\ \A p \in Readers : OpOK(op[p], run)
    BY DEF Init, OpOK, Idle
  <1>4. TxOK(tx, run)
    BY TxIdle DEF Init
  <1> QED
    BY <1>2, <1>3, <1>4 DEF IInv

LEMMA WorkSteps == ASSUME IInv, NEW r \in Runs, Work(r) PROVE StepOK
PROOF
  <1>1. CASE Claim(r)
    BY <1>1, ClaimStep
  <1>2. CASE \/ InitFails(r) \/ MintKey(r) \/ DeleteKey(r) \/ ClearPointer(r) \/ CleanupFails(r)
             \/ JobStalls(r) \/ WorkerShutdown(r) \/ Produce(r) \/ LastWriteFails(r)
    BY <1>2, WorkerAlone
  <1>3. CASE Heartbeat(r)
    BY <1>3, HeartbeatStep
  <1>4. CASE FlushCheck(r) \/ FlushAppend(r) \/ WorkerDies(r)
    BY <1>4, FlushSteps
  <1>5. CASE Complete(r) \/ Aborted(r) \/ LoopFails(r)
    BY <1>5, EndSteps
  <1>6. CASE Catch(r)
    BY <1>6, FailSteps
  <1> QED
    BY <1>1, <1>2, <1>3, <1>4, <1>5, <1>6 DEF Work, Loop

LEMMA RequestSteps == ASSUME IInv, Request PROVE StepOK
PROOF
  <1>1. CASE CreateCommit \/ DecideCommit \/ CancelCommit
    BY <1>1, CreateStep, DecideStep, CancelStep
  <1>2. ASSUME NEW r \in Runs, Enqueue(r) \/ AddThrows(r) PROVE StepOK
    BY <1>2, WorkerAlone
  <1>3. ASSUME NEW r \in Runs, EnqueueFailed(r) PROVE StepOK
    BY <1>3, FailSteps
  <1>4. CASE \/ CreateBegin \/ TransactionDies
             \/ \E r \in Runs, yes \in BOOLEAN : DecideBegin(r, yes)
             \/ \E r \in Runs : run[r].status \in Unsettled /\ CancelBegin({r}, FALSE)
             \/ CancelBegin({r \in Runs : run[r].status \in Unsettled}, TRUE)
    BY <1>4, BeginSteps
  <1> QED
    BY <1>1, <1>2, <1>3, <1>4 DEF Request

LEMMA Steps == ASSUME IInv, [Next]_vars PROVE StepOK
PROOF
  <1>1. ASSUME NEW r \in Runs, Time(r) \/ Work(r) PROVE StepOK
    BY <1>1, TimeSteps, WorkSteps DEF Time
  <1>2. ASSUME NEW p \in Readers, Read(p) PROVE StepOK
    <2>1. CASE WriteStale(p)
      BY <2>1, WriteStaleStep
    <2>2. ASSUME NEW r \in Runs, CleanDelete(p, r) \/ ClaimMiss(r, p) PROVE StepOK
      BY <2>2, ReadSteps
    <2>3. CASE ReadStale(p) \/ CleanClear(p)
      <3>1. UNCHANGED <<run, tx>>
        BY <2>3 DEF ReadStale, CleanClear, conversation
      <3>2. OpOK([doing |-> "reconcile", seen |-> StaleRuns], run) /\ OpOK(Idle, run)
        BY StaleRead DEF OpOK, Idle
      <3>3. OpStep
        BY <2>3, <3>2, OpChanges DEF ReadStale, CleanClear
      <3> QED
        BY <3>1, <3>3, OnlyOp
    <2> QED
      BY <1>2, <2>1, <2>2, <2>3 DEF Read
  <1>3. CASE Request
    BY <1>3, RequestSteps
  <1>4. CASE UNCHANGED vars
    BY <1>4, NeitherChanges DEF vars
  <1> QED
    BY <1>1, <1>2, <1>3, <1>4 DEF Next

(* The invariant holds from then on, and every step does to a row what it may. *)
LEMMA Invariant == Spec => []IInv
PROOF
  <1>1. IInv /\ [Next]_vars => IInv'
    BY Steps, Preserved
  <1> QED
    BY <1>1, InitHolds, PTL DEF Spec

(* createQueuedRun and decideToolApproval: however often runs are created, decided, claimed  *)
(* and reconciled at once, one run of the conversation is unsettled at a time.               *)
THEOREM OneUnsettledHolds == Spec => []OneUnsettled
PROOF
  <1>1. IInv => OneUnsettled
    BY DEF IInv
  <1> QED
    BY <1>1, Invariant, PTL

(* finishClaimedRun, cancelRunInTransaction and the reconciliation: a run that has settled   *)
(* keeps its status and its error code, for any number of processes that still act on it.    *)
THEOREM SettledStaysHolds == Spec => SettledStays
PROOF
  <1>1. ASSUME IInv, [Next]_vars, NEW r \in Runs, run[r].status \in Settled PROVE run'[r] = run[r]
    BY <1>1, Steps DEF StepOK, RunStep, RowStep
  <1>2. IInv /\ [Next]_vars => [\A r \in Runs : run[r].status \in Settled => run'[r] = run[r]]_vars
    BY <1>1
  <1> QED
    BY <1>2, Invariant, PTL DEF Spec, SettledStays

(* reconcileConversationRunsInTransaction: a run is failed as lost only while its heartbeat  *)
(* is too old, though the worker heartbeats between the read and the compare-and-set.        *)
THEOREM LostOnlyIfStaleHolds == Spec => LostOnlyIfStale
PROOF
  <1>1. ASSUME IInv, [Next]_vars, NEW r \in Runs,
               run[r].code # "worker_lost", run'[r].code = "worker_lost"
        PROVE  run[r].age # "fresh"
    BY <1>1, Steps DEF StepOK, RunStep, RowStep
  <1>2. IInv /\ [Next]_vars =>
            [\A r \in Runs : run[r].code # "worker_lost" /\ run'[r].code = "worker_lost" =>
                run[r].age # "fresh"]_vars
    BY <1>1
  <1> QED
    BY <1>2, Invariant, PTL DEF Spec, LostOnlyIfStale

-----------------------------------------------------------------------------
(* Keys.  A worker mints the key of its run once, when nothing points to   *)
(* it; whoever clears the pointer has deleted the key.                     *)

KeyInv ==
    /\ worker \in [Runs -> Workers]
    /\ KeysAreNamed
    /\ \A r \in Runs :
          /\ run[r].status \in {"none", "QUEUED"} => worker[r].at = "none"
          /\ worker[r].at \in {"none", "init"} => r \notin pointers
          /\ worker[r].at = "clear" => r \notin keys
    /\ \A p \in Readers : op[p].doing = "clear" =>
          op[p].run \in Runs /\ op[p].run \notin keys /\ worker[op[p].run].at \notin {"none", "init"}

(* A worker stays where it is, or goes on to a place where it has no key   *)
(* to mint and no pointer to clear.                                        *)
MovesOn(old, new) == new = old \/ (old # "none" /\ new \notin {"none", "init", "clear"})

WorkersMove ==
    /\ worker' \in [Runs -> Workers]
    /\ \A r \in Runs : MovesOn(worker[r].at, worker'[r].at)

OpsMove == \A p \in Readers : op'[p].doing = "clear" => op'[p] = op[p]

LEMMA StillWaiting ==
    ASSUME StepOK, NEW r \in Runs, run'[r].status \in {"none", "QUEUED"}
    PROVE  run[r].status \in {"none", "QUEUED"}
PROOF BY DEF StepOK, RunStep, RowStep

LEMMA KeysAlone ==
    ASSUME KeyInv, StepOK, UNCHANGED access, WorkersMove, OpsMove
    PROVE  KeyInv'
PROOF
  <1>1. keys' = keys /\ pointers' = pointers
    BY DEF access
  <1>2. ASSUME NEW r \in Runs
        PROVE  /\ run'[r].status \in {"none", "QUEUED"} => worker'[r].at = "none"
               /\ worker'[r].at \in {"none", "init"} => r \notin pointers'
               /\ worker'[r].at = "clear" => r \notin keys'
    BY <1>1, StillWaiting DEF KeyInv, WorkersMove, MovesOn
  <1>3. ASSUME NEW p \in Readers, op'[p].doing = "clear"
        PROVE  /\ op'[p].run \in Runs /\ op'[p].run \notin keys'
               /\ worker'[op'[p].run].at \notin {"none", "init"}
    BY <1>1, <1>3 DEF KeyInv, OpsMove, WorkersMove, MovesOn
  <1>4. KeysAreNamed'
    BY <1>1 DEF KeyInv, KeysAreNamed
  <1> QED
    BY <1>2, <1>3, <1>4 DEF KeyInv, WorkersMove

LEMMA OneWorker ==
    ASSUME KeyInv, NEW r \in Runs, NEW w \in Workers, worker' = [worker EXCEPT ![r] = w],
           MovesOn(worker[r].at, w.at)
    PROVE  WorkersMove
PROOF BY DEF KeyInv, WorkersMove, MovesOn

LEMMA NoWorkerMoves == ASSUME KeyInv, UNCHANGED worker PROVE WorkersMove
PROOF BY DEF KeyInv, WorkersMove, MovesOn

LEMMA WorkerType == ASSUME KeyInv, NEW r \in Runs PROVE worker[r] \in Workers
PROOF BY DEF KeyInv

LEMMA GoneType == Gone \in Workers /\ Gone.at = "gone"
PROOF BY DEF Gone, NoWorker, Workers

LEMMA LoopMoves ==
    ASSUME IInv, KeyInv, NEW r \in Runs,
           \/ Heartbeat(r) \/ WorkerShutdown(r) \/ Produce(r) \/ FlushCheck(r) \/ FlushAppend(r)
    PROVE  WorkersMove
PROOF
  <1>1. worker \in [Runs -> Workers] /\ worker[r] \in Workers
    BY WorkerType DEF KeyInv
  <1>2. CASE Heartbeat(r) \/ WorkerShutdown(r)
    <2>1. PICK abort \in {"none", "fenced", "cancelled", "worker_shutdown"} :
              worker' = [worker EXCEPT ![r].abort = abort]
      BY <1>2 DEF Heartbeat, WorkerShutdown
    <2> DEFINE w == [worker[r] EXCEPT !.abort = abort]
    <2>2. w \in Workers /\ w.at = worker[r].at
      BY <1>1 DEF Workers
    <2>3. worker' = [worker EXCEPT ![r] = w]
      BY <1>1, <2>1
    <2> HIDE DEF w
    <2> QED
      BY <2>2, <2>3, OneWorker DEF MovesOn
  <1>3. CASE Produce(r)
    <2> DEFINE w == [worker[r] EXCEPT !.pending = TRUE, !.told = run[r].approved]
    <2>1. run[r].approved \in BOOLEAN
      BY DEF IInv, RowStates
    <2>2. w \in Workers
      BY <1>1, <2>1, Zenon DEF Workers
    <2>3. w.at = worker[r].at
      BY <1>1 DEF Workers
    <2>4. worker' = [worker EXCEPT ![r] = w]
      BY <1>1, <1>3 DEF Produce
    <2> HIDE DEF w
    <2> QED
      BY <2>2, <2>3, <2>4, OneWorker DEF MovesOn
  <1>4. CASE FlushCheck(r) \/ FlushAppend(r)
    <2> DEFINE w == [worker[r] EXCEPT !.pending = FALSE]
    <2>1. w \in Workers
      BY <1>1, Zenon DEF Workers
    <2>2. w.at = worker[r].at
      BY <1>1 DEF Workers
    <2>3. worker' = worker \/ worker' = [worker EXCEPT ![r] = w]
      BY <1>1, <1>4 DEF FlushCheck, FlushAppend
    <2> HIDE DEF w
    <2> QED
      BY <2>1, <2>2, <2>3, OneWorker, NoWorkerMoves DEF MovesOn
  <1> QED
    BY <1>2, <1>3, <1>4

LEMMA EndMoves ==
    ASSUME IInv, KeyInv, NEW r \in Runs,
           \/ InitFails(r) \/ Complete(r) \/ Aborted(r) \/ LoopFails(r) \/ LastWriteFails(r)
           \/ CleanupFails(r) \/ Catch(r) \/ WorkerDies(r)
    PROVE  WorkersMove
PROOF
  <1>1. worker \in [Runs -> Workers] /\ worker[r] \in Workers
    BY WorkerType DEF KeyInv
  <1>2. CASE InitFails(r) \/ CleanupFails(r)
    <2> DEFINE w == [worker[r] EXCEPT !.at = "catch"]
    <2>1. w \in Workers
      BY <1>1, Zenon DEF Workers
    <2>2. w.at = "catch"
      BY <1>1 DEF Workers
    <2>3. /\ worker[r].at \in {"init", "cleanup", "clear"}
          /\ worker' = [worker EXCEPT ![r] = w] \/ worker' = [worker EXCEPT ![r] = Gone]
      BY <1>1, <1>2 DEF InitFails, CleanupFails, AfterCleanup, At, Leaves
    <2> HIDE DEF w
    <2> QED
      BY <2>1, <2>2, <2>3, GoneType, OneWorker DEF MovesOn
  <1>3. CASE Complete(r) \/ Aborted(r) \/ LoopFails(r)
    <2> DEFINE w == [worker[r] EXCEPT !.at = "cleanup", !.pending = FALSE]
    <2>1. w \in Workers
      BY <1>1, Zenon DEF Workers
    <2>2. w.at = "cleanup"
      BY <1>1 DEF Workers
    <2>3. worker[r].at = "loop" /\ worker' = [worker EXCEPT ![r].at = "cleanup", ![r].pending = FALSE]
      BY <1>3 DEF Complete, Aborted, LoopFails, Finish, InLoop
    <2>4. worker' = [worker EXCEPT ![r] = w]
      BY <1>1, <2>3
    <2> HIDE DEF w
    <2> QED
      BY <2>1, <2>2, <2>3, <2>4, OneWorker DEF MovesOn
  <1>4. CASE LastWriteFails(r)
    <2> DEFINE thrown == worker[r].abort = "none"
               w == [worker[r] EXCEPT !.at = "cleanup", !.pending = FALSE, !.thrown = thrown]
    <2>1. thrown \in BOOLEAN
      OBVIOUS
    <2>2. /\ worker[r].at = "loop"
          /\ worker' = [worker EXCEPT ![r].at = "cleanup", ![r].pending = FALSE, ![r].thrown = thrown]
      BY <1>4 DEF LastWriteFails
    <2> HIDE DEF thrown
    <2>3. w \in Workers
      BY <1>1, <2>1, Zenon DEF Workers
    <2>4. w.at = "cleanup"
      BY <1>1 DEF Workers
    <2>5. worker' = [worker EXCEPT ![r] = w]
      BY <1>1, <2>2
    <2> HIDE DEF w
    <2> QED
      BY <2>2, <2>3, <2>4, <2>5, OneWorker DEF MovesOn
  <1>5. CASE Catch(r)
    <2> DEFINE w == [worker[r] EXCEPT !.at = "cleanup", !.thrown = FALSE]
    <2>1. w \in Workers
      BY <1>1, Zenon DEF Workers
    <2>2. w.at = "cleanup"
      BY <1>1 DEF Workers
    <2>3. worker[r].at = "catch" /\ AfterCatch(r)
      BY <1>5 DEF Catch
    <2>4. worker' = [worker EXCEPT ![r] = w] \/ worker' = [worker EXCEPT ![r] = Gone]
      BY <1>1, <2>3 DEF AfterCatch
    <2> HIDE DEF w
    <2> QED
      BY <2>1, <2>2, <2>3, <2>4, GoneType, OneWorker DEF MovesOn
  <1>6. CASE WorkerDies(r)
    <2>1. worker[r].at # "none" /\ worker' = [worker EXCEPT ![r] = Gone]
      BY <1>6 DEF WorkerDies, Leaves
    <2> QED
      BY <2>1, GoneType, OneWorker DEF MovesOn
  <1> QED
    BY <1>2, <1>3, <1>4, <1>5, <1>6

(* The steps that change who has a key or a pointer, or may do so next.    *)
LEMMA ClaimKeys == ASSUME IInv, KeyInv, StepOK, NEW r \in Runs, Claim(r) PROVE KeyInv'
PROOF
  <1> DEFINE w == [worker[r] EXCEPT !.at = "init"]
  <1>1. worker \in [Runs -> Workers] /\ worker[r] \in Workers
    BY WorkerType DEF KeyInv
  <1>2. w \in Workers
    BY <1>1, Zenon DEF Workers
  <1>3. w.at = "init"
    BY <1>1 DEF Workers
  <1>4. worker' = [worker EXCEPT ![r] = w]
    BY <1>1 DEF Claim, At
  <1>5. worker' \in [Runs -> Workers] /\ worker'[r].at = "init" /\ \A q \in Runs \ {r} : worker'[q] = worker[q]
    <2> HIDE DEF w
    <2> QED
      BY <1>1, <1>2, <1>3, <1>4
  <1>6. run[r].status = "QUEUED" /\ worker[r].at = "none" /\ r \notin pointers
    BY DEF Claim, Is, KeyInv
  <1>7. run'[r].status = "RUNNING"
    BY DEF Claim, Move, To, Row
  <1>8. UNCHANGED <<keys, pointers, op>>
    BY DEF Claim, access
  <1>9. ASSUME NEW q \in Runs
        PROVE  /\ run'[q].status \in {"none", "QUEUED"} => worker'[q].at = "none"
               /\ worker'[q].at \in {"none", "init"} => q \notin pointers'
               /\ worker'[q].at = "clear" => q \notin keys'
    BY <1>5, <1>6, <1>7, <1>8, StillWaiting DEF KeyInv
  <1>10. ASSUME NEW p \in Readers, op'[p].doing = "clear"
         PROVE  /\ op'[p].run \in Runs /\ op'[p].run \notin keys'
                /\ worker'[op'[p].run].at \notin {"none", "init"}
    BY <1>5, <1>6, <1>8, <1>10 DEF KeyInv
  <1> QED
    BY <1>5, <1>8, <1>9, <1>10 DEF KeyInv, KeysAreNamed

LEMMA WorkerKeys ==
    ASSUME IInv, KeyInv, StepOK, NEW r \in Runs, MintKey(r) \/ DeleteKey(r) \/ ClearPointer(r)
    PROVE  KeyInv'
PROOF
  <1>1. worker \in [Runs -> Workers] /\ worker[r] \in Workers
    BY WorkerType DEF KeyInv
  <1>2. \A at \in {"loop", "clear", "catch"} :
            [worker[r] EXCEPT !.at = at] \in Workers /\ [worker[r] EXCEPT !.at = at].at = at
    <2> SUFFICES ASSUME NEW at \in {"loop", "clear", "catch"}
                 PROVE  [worker[r] EXCEPT !.at = at] \in Workers /\ [worker[r] EXCEPT !.at = at].at = at
      OBVIOUS
    <2>1. [worker[r] EXCEPT !.at = at] \in Workers
      BY <1>1, Zenon DEF Workers
    <2>2. [worker[r] EXCEPT !.at = at].at = at
      BY <1>1 DEF Workers
    <2> QED
      BY <2>1, <2>2
  <1>3. PICK w \in Workers :
            /\ worker' = [worker EXCEPT ![r] = w]
            /\ \/ /\ worker[r].at = "init" /\ w.at = "loop"
                  /\ keys' = keys \cup {r} /\ pointers' = pointers \cup {r}
               \/ /\ worker[r].at = "cleanup" /\ w.at = "clear"
                  /\ keys' = keys \ {r} /\ pointers' = pointers
               \/ /\ worker[r].at = "clear" /\ w.at \in {"catch", "gone"}
                  /\ keys' = keys /\ pointers' = pointers \ {r}
    <2>1. CASE MintKey(r)
      <3>1. /\ worker' = [worker EXCEPT ![r] = [worker[r] EXCEPT !.at = "loop"]]
            /\ worker[r].at = "init" /\ keys' = keys \cup {r} /\ pointers' = pointers \cup {r}
        BY <1>1, <2>1 DEF MintKey, At
      <3> QED
        BY <1>2, <3>1
    <2>2. CASE DeleteKey(r)
      <3>1. /\ worker' = [worker EXCEPT ![r] = [worker[r] EXCEPT !.at = "clear"]]
            /\ worker[r].at = "cleanup" /\ keys' = keys \ {r} /\ pointers' = pointers
        BY <1>1, <2>2 DEF DeleteKey, At
      <3> QED
        BY <1>2, <3>1
    <2>3. CASE ClearPointer(r)
      <3>1. /\ \/ worker' = [worker EXCEPT ![r] = [worker[r] EXCEPT !.at = "catch"]]
               \/ worker' = [worker EXCEPT ![r] = Gone]
            /\ worker[r].at = "clear" /\ keys' = keys /\ pointers' = pointers \ {r}
        BY <1>1, <2>3 DEF ClearPointer, AfterCleanup, At, Leaves
      <3> QED
        BY <1>2, <3>1, GoneType
    <2> QED
      BY <2>1, <2>2, <2>3
  <1>4. worker' \in [Runs -> Workers] /\ worker'[r] = w /\ \A q \in Runs \ {r} : worker'[q] = worker[q]
    BY <1>1, <1>3
  <1>5. op' = op
    BY DEF MintKey, DeleteKey, ClearPointer
  <1>6. KeysAreNamed'
    BY <1>3 DEF KeyInv, KeysAreNamed
  <1>7. ASSUME NEW q \in Runs
        PROVE  /\ run'[q].status \in {"none", "QUEUED"} => worker'[q].at = "none"
               /\ worker'[q].at \in {"none", "init"} => q \notin pointers'
               /\ worker'[q].at = "clear" => q \notin keys'
    BY <1>3, <1>4, StillWaiting DEF KeyInv
  <1>8. ASSUME NEW p \in Readers, op'[p].doing = "clear"
        PROVE  /\ op'[p].run \in Runs /\ op'[p].run \notin keys'
               /\ worker'[op'[p].run].at \notin {"none", "init"}
    BY <1>3, <1>4, <1>5, <1>8 DEF KeyInv
  <1> QED
    BY <1>4, <1>6, <1>7, <1>8 DEF KeyInv

LEMMA ReaderKeys ==
    ASSUME IInv, KeyInv, StepOK, NEW p \in Readers,
           (\E r \in Runs : CleanDelete(p, r)) \/ CleanClear(p)
    PROVE  KeyInv'
PROOF
  <1>1. worker' = worker /\ worker \in [Runs -> Workers]
    BY DEF CleanDelete, CleanClear, KeyInv
  <1>2. op = [q \in Readers |-> op[q]]
    BY DEF IInv
  <1>3. CASE \E r \in Runs : CleanDelete(p, r)
    <2>1. PICK r \in Runs : CleanDelete(p, r)
      BY <1>3
    <2>2. /\ op' = [op EXCEPT ![p] = [doing |-> "clear", run |-> r]] /\ r \in pointers
          /\ keys' = keys \ {r} /\ pointers' = pointers
      BY <2>1 DEF CleanDelete, Does
    <2>3. worker[r].at \notin {"none", "init"}
      BY <2>2 DEF KeyInv
    <2>4. ASSUME NEW q \in Readers, op'[q].doing = "clear"
          PROVE  /\ op'[q].run \in Runs /\ op'[q].run \notin keys'
                 /\ worker'[op'[q].run].at \notin {"none", "init"}
      <3>1. CASE q = p
        <4>1. op'[q].run = r
          BY <1>2, <2>2, <3>1
        <4> QED
          BY <1>1, <2>2, <2>3, <4>1
      <3>2. CASE q # p
        <4>1. op'[q] = op[q]
          BY <1>2, <2>2, <3>2
        <4> QED
          BY <1>1, <2>2, <2>4, <4>1 DEF KeyInv
      <3> QED
        BY <3>1, <3>2
    <2> QED
      BY <1>1, <2>2, <2>4, StillWaiting DEF KeyInv, KeysAreNamed
  <1>4. CASE CleanClear(p)
    <2>1. /\ op' = [op EXCEPT ![p] = Idle] /\ op[p].doing = "clear"
          /\ keys' = keys /\ pointers' = pointers \ {op[p].run}
      BY <1>4 DEF CleanClear, Does
    <2>2. ASSUME NEW q \in Readers, op'[q].doing = "clear"
          PROVE  op'[q] = op[q]
      BY <1>2, <2>1, <2>2 DEF Idle
    <2> QED
      BY <1>1, <2>1, <2>2, StillWaiting DEF KeyInv, KeysAreNamed
  <1> QED
    BY <1>3, <1>4

(* All others leave keys and pointers alone.                               *)
LEMMA WorkKeys == ASSUME IInv, KeyInv, StepOK, NEW r \in Runs, Work(r) PROVE KeyInv'
PROOF
  <1>1. CASE Claim(r)
    BY <1>1, ClaimKeys
  <1>2. CASE MintKey(r) \/ DeleteKey(r) \/ ClearPointer(r)
    BY <1>2, WorkerKeys
  <1>3. CASE \/ Heartbeat(r) \/ WorkerShutdown(r) \/ Produce(r) \/ FlushCheck(r) \/ FlushAppend(r)
    <2>1. UNCHANGED <<keys, pointers, op>>
      BY <1>3 DEF Heartbeat, WorkerShutdown, Produce, FlushCheck, FlushAppend, access
    <2>2. UNCHANGED access /\ OpsMove
      BY <2>1 DEF access, OpsMove
    <2> QED
      BY <1>3, <2>2, LoopMoves, KeysAlone
  <1>4. CASE \/ InitFails(r) \/ Complete(r) \/ Aborted(r) \/ LoopFails(r) \/ LastWriteFails(r)
             \/ CleanupFails(r) \/ Catch(r) \/ WorkerDies(r)
    <2>1. UNCHANGED <<keys, pointers, op>>
      BY <1>4 DEF InitFails, Complete, Aborted, LoopFails, LastWriteFails, Finish, CleanupFails,
                  Catch, AfterCatch, WorkerDies, access
    <2>2. UNCHANGED access /\ OpsMove
      BY <2>1 DEF access, OpsMove
    <2> QED
      BY <1>4, <2>2, EndMoves, KeysAlone
  <1>5. CASE JobStalls(r)
    <2>1. UNCHANGED access /\ OpsMove /\ UNCHANGED worker
      BY <1>5 DEF JobStalls, OpsMove
    <2> QED
      BY <2>1, NoWorkerMoves, KeysAlone
  <1> QED
    BY <1>1, <1>2, <1>3, <1>4, <1>5 DEF Work, Loop

LEMMA ReadKeys == ASSUME IInv, KeyInv, StepOK, NEW p \in Readers, Read(p) PROVE KeyInv'
PROOF
  <1>1. CASE (\E r \in Runs : CleanDelete(p, r)) \/ CleanClear(p)
    BY <1>1, ReaderKeys
  <1>2. CASE ReadStale(p) \/ WriteStale(p) \/ \E r \in Runs : ClaimMiss(r, p)
    <2>1. UNCHANGED access /\ UNCHANGED worker
      BY <1>2 DEF ReadStale, WriteStale, ClaimMiss
    <2>2. PICK what : Does(p, what) /\ what.doing # "clear"
      BY <1>2 DEF ReadStale, WriteStale, ClaimMiss, Idle
    <2>3. OpsMove
      BY <2>2 DEF OpsMove, Does, IInv
    <2> QED
      BY <2>1, <2>3, NoWorkerMoves, KeysAlone
  <1> QED
    BY <1>1, <1>2 DEF Read

LEMMA KeysPreserved == IInv /\ KeyInv /\ [Next]_vars => KeyInv'
PROOF
  <1> SUFFICES ASSUME IInv, KeyInv, [Next]_vars PROVE KeyInv'
    OBVIOUS
  <1>1. StepOK
    BY Steps
  <1>2. ASSUME NEW r \in Runs, Work(r) PROVE KeyInv'
    BY <1>1, <1>2, WorkKeys
  <1>3. ASSUME NEW p \in Readers, Read(p) PROVE KeyInv'
    BY <1>1, <1>3, ReadKeys
  <1>4. CASE (\E r \in Runs : Time(r)) \/ Request \/ UNCHANGED vars
    <2>1. UNCHANGED <<keys, pointers, worker, op>>
      <3>1. CASE \E r \in Runs : Time(r)
        BY <3>1 DEF Time, HeartbeatAges, DeadlinePasses, access, actors
      <3>2. CASE Request
        BY <3>2 DEF Request, CreateBegin, CreateCommit, DecideCommit, CancelCommit, TransactionDies,
                    Enqueue, AddThrows, EnqueueFailed, DecideBegin, CancelBegin, Begin, access, actors
      <3>3. CASE UNCHANGED vars
        BY <3>3 DEF vars
      <3> QED
        BY <1>4, <3>1, <3>2, <3>3
    <2>2. UNCHANGED access /\ OpsMove
      BY <2>1 DEF access, OpsMove
    <2> QED
      BY <1>1, <2>1, <2>2, NoWorkerMoves, KeysAlone
  <1> QED
    BY <1>2, <1>3, <1>4 DEF Next

LEMMA InitKeys == Init => KeyInv
PROOF
  <1> SUFFICES ASSUME Init PROVE KeyInv
    OBVIOUS
  <1>1. NoWorker \in Workers /\ NoWorker.at = "none"
    BY DEF NoWorker, Workers
  <1>2. Idle.doing # "clear"
    BY DEF Idle
  <1> QED
    BY <1>1, <1>2 DEF Init, KeyInv, KeysAreNamed

(* The key of a run is minted with its pointer (executeInAppAgentRun.ts) and deleted before  *)
(* it by cleanupMcpApiKey and cleanupTerminalRunMcpApiKeys: a live key is always named, for  *)
(* any number of runs, readers, crashes and failed cleanups.                                 *)
THEOREM KeysAreNamedHolds == Spec => []KeysAreNamed
PROOF
  <1>1. Init => KeyInv
    BY InitKeys
  <1>2. KeyInv => KeysAreNamed
    BY DEF KeyInv
  <1> QED
    BY <1>1, <1>2, KeysPreserved, Invariant, PTL DEF Spec

-----------------------------------------------------------------------------
(* The rows, in detail: every step, and what it makes of each.             *)

Changes(old, new) ==
    \/ new = old
    \/ /\ old.status \in Unsettled
       /\ \E status \in Settled, code \in Codes :
             (code = "none" \/ status # "SUCCEEDED") /\ new = To(old, status, code)
    \/ old.status = "QUEUED" /\ new = To(old, "RUNNING", "none")
    \/ old.status = "RUNNING" /\ tx' = Idle /\ new = To(old, "AWAITING_APPROVAL", "none")
    \/ old.status \in Unsettled /\ new = [old EXCEPT !.age = "overdue"]
    \/ old.status = "RUNNING" /\ new = [old EXCEPT !.age = "stale"]
    \/ old.status = "RUNNING" /\ new = [old EXCEPT !.cancelRequested = TRUE]
    \/ /\ old.status = "RUNNING" /\ old.heartbeatAt < MaxBeats
       /\ new = [old EXCEPT !.heartbeatAt = @ + 1, !.age = IF @ = "stale" THEN "fresh" ELSE @]

Quiet == \A r \in Runs : Changes(run[r], run'[r])

(* A run is created, in place of the one that was parked.                  *)
Made(n) ==
    /\ \E approved \in BOOLEAN : run'[n] = Row("QUEUED", "none", approved)
    /\ \A r \in Runs \ {n} : Changes(run[r], run'[r])

RowFine(row) ==
    /\ row \in Rows
    /\ row.status # "RUNNING" => row.heartbeatAt = 0 /\ ~row.cancelRequested
    /\ row.age = "stale" => row.status = "RUNNING"
    /\ row.code # "none" => row.status \in {"FAILED", "CANCELLED"}

LEMMA RowFineTo ==
    ASSUME NEW status \in Statuses, NEW code \in Codes, NEW approved \in BOOLEAN,
           code = "none" \/ status \in {"FAILED", "CANCELLED"}
    PROVE  /\ RowFine(Row(status, code, approved))
           /\ Row(status, code, approved).status = status
           /\ Row(status, code, approved).approved = approved
PROOF
  <1>1. 0 \in 0..MaxBeats
    BY RunsAssumption
  <1>2. Row(status, code, approved) \in Rows
    BY <1>1, Zenon DEF Row, Rows
  <1>3. /\ Row(status, code, approved).status = status /\ Row(status, code, approved).code = code
        /\ Row(status, code, approved).approved = approved
        /\ Row(status, code, approved).heartbeatAt = 0
        /\ Row(status, code, approved).age = "fresh"
        /\ Row(status, code, approved).cancelRequested = FALSE
    BY DEF Row
  <1> QED
    BY <1>2, <1>3 DEF RowFine

LEMMA ChangesFine ==
    ASSUME NEW old, NEW new, RowFine(old), Changes(old, new)
    PROVE  /\ RowFine(new)
           /\ new.approved = old.approved
           /\ (new.status = "none") <=> (old.status = "none")
           /\ new.status \in Unsettled => old.status \in Unsettled
PROOF
  <1>1. old \in Rows /\ old.approved \in BOOLEAN /\ old.heartbeatAt \in 0..MaxBeats
        /\ old.age \in {"fresh", "stale", "overdue"} /\ MaxBeats \in Nat
    BY RunsAssumption DEF RowFine, Rows
  <1>2. CASE new = old
    BY <1>2
  <1>3. ASSUME NEW status \in Statuses \ {"none"}, NEW code \in Codes, new = To(old, status, code),
               code = "none" \/ status \in {"FAILED", "CANCELLED"}, old.status \in Unsettled
        PROVE  /\ RowFine(new)
               /\ new.approved = old.approved
               /\ (new.status = "none") <=> (old.status = "none")
               /\ new.status \in Unsettled => old.status \in Unsettled
    <2>1. RowFine(new) /\ new.status = status /\ new.approved = old.approved
      BY <1>1, <1>3, RowFineTo DEF To
    <2> QED
      BY <1>3, <2>1 DEF Unsettled
  <1>4. ASSUME NEW age \in {"stale", "overdue"}, new = [old EXCEPT !.age = age],
               old.status \in Unsettled, age = "stale" => old.status = "RUNNING"
        PROVE  /\ RowFine(new)
               /\ new.approved = old.approved
               /\ new.status = old.status
    <2>1. new \in Rows
      BY <1>1, <1>4, Zenon DEF Rows
    <2>2. /\ new.approved = old.approved /\ new.status = old.status /\ new.code = old.code
          /\ new.heartbeatAt = old.heartbeatAt /\ new.cancelRequested = old.cancelRequested
          /\ new.age = age
      BY <1>1, <1>4 DEF Rows
    <2> QED
      BY <1>4, <2>1, <2>2 DEF RowFine
  <1>5. ASSUME new = [old EXCEPT !.cancelRequested = TRUE], old.status = "RUNNING"
        PROVE  /\ RowFine(new)
               /\ new.approved = old.approved
               /\ new.status = old.status
    <2>1. new \in Rows
      BY <1>1, <1>5, Zenon DEF Rows
    <2>2. /\ new.approved = old.approved /\ new.status = old.status /\ new.code = old.code
      BY <1>1, <1>5 DEF Rows
    <2> QED
      BY <1>5, <2>1, <2>2 DEF RowFine
  <1>6. ASSUME NEW beat \in 0..MaxBeats, NEW age \in {"fresh", "stale", "overdue"},
               new = [old EXCEPT !.heartbeatAt = beat, !.age = age], old.status = "RUNNING"
        PROVE  /\ RowFine(new)
               /\ new.approved = old.approved
               /\ new.status = old.status
    <2>1. new \in Rows
      BY <1>1, <1>6, Zenon DEF Rows
    <2>2. /\ new.approved = old.approved /\ new.status = old.status /\ new.code = old.code
      BY <1>1, <1>6 DEF Rows
    <2> QED
      BY <1>6, <2>1, <2>2 DEF RowFine
  <1>7. CASE /\ old.status = "RUNNING" /\ old.heartbeatAt < MaxBeats
             /\ new = [old EXCEPT !.heartbeatAt = @ + 1, !.age = IF @ = "stale" THEN "fresh" ELSE @]
    <2> DEFINE beat == old.heartbeatAt + 1
               age == IF old.age = "stale" THEN "fresh" ELSE old.age
    <2>1. beat \in 0..MaxBeats /\ age \in {"fresh", "stale", "overdue"}
      BY <1>1, <1>7
    <2>2. new = [old EXCEPT !.heartbeatAt = beat, !.age = age]
      BY <1>7
    <2> HIDE DEF beat, age
    <2> QED
      BY <1>6, <1>7, <2>1, <2>2
  <1>8. CASE /\ old.status \in Unsettled
             /\ \E status \in Settled, code \in Codes :
                   (code = "none" \/ status # "SUCCEEDED") /\ new = To(old, status, code)
    <2>1. PICK status \in Settled, code \in Codes :
              (code = "none" \/ status # "SUCCEEDED") /\ new = To(old, status, code)
      BY <1>8
    <2>2. status \in Statuses \ {"none"} /\ (code = "none" \/ status \in {"FAILED", "CANCELLED"})
      BY <2>1 DEF Statuses, Settled
    <2> QED
      BY <1>3, <1>8, <2>1, <2>2
  <1>9. CASE \/ old.status = "QUEUED" /\ new = To(old, "RUNNING", "none")
             \/ old.status = "RUNNING" /\ new = To(old, "AWAITING_APPROVAL", "none")
    <2>1. {"RUNNING", "AWAITING_APPROVAL"} \subseteq Statuses \ {"none"} /\ "none" \in Codes
          /\ old.status \in Unsettled
      BY <1>9 DEF Statuses, Unsettled, Codes
    <2> QED
      BY <1>3, <1>9, <2>1
  <1>10. CASE \/ old.status \in Unsettled /\ new = [old EXCEPT !.age = "overdue"]
              \/ old.status = "RUNNING" /\ new = [old EXCEPT !.age = "stale"]
    <2>1. old.status \in Unsettled
      BY <1>10 DEF Unsettled
    <2> QED
      BY <1>4, <1>10, <2>1
  <1>11. CASE old.status = "RUNNING" /\ new = [old EXCEPT !.cancelRequested = TRUE]
    BY <1>5, <1>11
  <1> QED
    BY <1>2, <1>7, <1>8, <1>9, <1>10, <1>11 DEF Changes

LEMMA MoveChanges ==
    ASSUME IInv, NEW r \in Runs, NEW status, NEW code \in Codes, run' = Move({r}, status, code),
           \/ run[r].status \in Unsettled /\ status \in Settled /\ (code = "none" \/ status # "SUCCEEDED")
           \/ run[r].status = "QUEUED" /\ status = "RUNNING" /\ code = "none"
           \/ run[r].status = "RUNNING" /\ status = "AWAITING_APPROVAL" /\ code = "none" /\ tx' = Idle
    PROVE  Quiet
PROOF
  <1>1. run'[r] = To(run[r], status, code) /\ \A q \in Runs \ {r} : run'[q] = run[q]
    BY DEF Move
  <1>2. Changes(run[r], run'[r])
    BY <1>1 DEF Changes
  <1> QED
    BY <1>1, <1>2 DEF Quiet, Changes

LEMMA FailedChanges ==
    ASSUME IInv, NEW seen, SeenOK(seen, run), NEW r \in Runs
    PROVE  /\ Changes(run[r], Failed(seen)[r])
           /\ Failed(seen)[r] = run[r] \/ Failed(seen)[r].status = "FAILED"
PROOF
  <1>1. CASE ~\E s \in Unmoved(seen) : s.run = r
    BY <1>1 DEF Failed, Changes
  <1>2. CASE \E s \in Unmoved(seen) : s.run = r
    <2> DEFINE c == CHOOSE s \in Unmoved(seen) : s.run = r
    <2>1. c \in Unmoved(seen) /\ c.run = r
      BY <1>2
    <2>2. Failed(seen)[r] = To(run[r], "FAILED", c.code)
      BY <1>2 DEF Failed
    <2> HIDE DEF c
    <2>3. c \in SeenStates /\ run[r].status = c.status
      BY <2>1 DEF Unmoved, SeenOK, Is
    <2>4. c.status \in Unsettled /\ c.code \in Codes /\ "FAILED" \in Settled
      BY <2>3 DEF SeenStates, Codes, Settled
    <2>5. PICK code \in Codes : code = c.code
      BY <2>4
    <2>6. Failed(seen)[r] = To(run[r], "FAILED", code) /\ run[r].status \in Unsettled
      BY <2>2, <2>3, <2>4, <2>5
    <2>7. Failed(seen)[r].status = "FAILED"
      BY <2>6 DEF To, Row
    <2> QED
      BY <2>4, <2>6, <2>7 DEF Changes
  <1> QED
    BY <1>1, <1>2

LEMMA QuietOne ==
    ASSUME IInv, NEW r \in Runs, NEW new, run' = [run EXCEPT ![r] = new], Changes(run[r], new)
    PROVE  Quiet
PROOF BY DEF IInv, Quiet, Changes

LEMMA QuietTime == ASSUME IInv, NEW r \in Runs, Time(r) PROVE Quiet
PROOF
  <1>1. CASE HeartbeatAges(r)
    <2>1. run' = [run EXCEPT ![r] = [run[r] EXCEPT !.age = "stale"]] /\ run[r].status = "RUNNING"
      BY <1>1 DEF HeartbeatAges, Is
    <2>2. Changes(run[r], [run[r] EXCEPT !.age = "stale"])
      BY <2>1 DEF Changes
    <2> QED
      BY <2>1, <2>2, QuietOne
  <1>2. CASE DeadlinePasses(r)
    <2>1. run' = [run EXCEPT ![r] = [run[r] EXCEPT !.age = "overdue"]] /\ run[r].status \in Unsettled
      BY <1>2 DEF DeadlinePasses
    <2>2. Changes(run[r], [run[r] EXCEPT !.age = "overdue"])
      BY <2>1 DEF Changes
    <2> QED
      BY <2>1, <2>2, QuietOne
  <1> QED
    BY <1>1, <1>2 DEF Time

LEMMA QuietStill == ASSUME UNCHANGED run PROVE Quiet
PROOF BY DEF Quiet, Changes

LEMMA QuietFinish ==
    ASSUME IInv, NEW r \in Runs, NEW status \in {"SUCCEEDED", "FAILED", "CANCELLED", "AWAITING_APPROVAL"},
           NEW code \in Codes, code = "none" \/ status \in {"FAILED", "CANCELLED"}, NEW last,
           Finish(r, status, code, last)
    PROVE  Quiet
PROOF
  <1>1. CASE Is(r, "RUNNING")
    <2>1. run' = Move({r}, status, code) /\ run[r].status = "RUNNING" /\ tx' = Idle
      BY <1>1 DEF Finish, Is
    <2>2. run[r].status \in Unsettled /\ {"SUCCEEDED", "FAILED", "CANCELLED"} \subseteq Settled
      BY <2>1 DEF Unsettled, Settled
    <2> QED
      BY <2>1, <2>2, MoveChanges
  <1>2. CASE ~Is(r, "RUNNING")
    BY <1>2, QuietStill DEF Finish
  <1> QED
    BY <1>1, <1>2

LEMMA QuietWork == ASSUME IInv, NEW r \in Runs, Work(r) PROVE Quiet
PROOF
  <1>1. CASE Claim(r)
    <2>1. run' = Move({r}, "RUNNING", "none") /\ run[r].status = "QUEUED" /\ "none" \in Codes
      BY <1>1 DEF Claim, Is, Codes
    <2> QED
      BY <2>1, MoveChanges
  <1>2. CASE Heartbeat(r) /\ Is(r, "RUNNING")
    <2>1. /\ run' = [run EXCEPT ![r] = [run[r] EXCEPT !.heartbeatAt = @ + 1,
                                            !.age = IF @ = "stale" THEN "fresh" ELSE @]]
          /\ run[r].status = "RUNNING" /\ run[r].heartbeatAt < MaxBeats
      BY <1>2 DEF Heartbeat, Is
    <2>2. Changes(run[r], [run[r] EXCEPT !.heartbeatAt = @ + 1,
                                         !.age = IF @ = "stale" THEN "fresh" ELSE @])
      BY <2>1 DEF Changes
    <2> QED
      BY <2>1, <2>2, QuietOne
  <1>3. CASE Complete(r) \/ Aborted(r) \/ LoopFails(r)
    <2>1. {"none", "other", "cancelled", "worker_shutdown", "outcome_unknown"} \subseteq Codes
      BY DEF Codes
    <2>2. FailureCode(r, "other") \in Codes /\ FailureCode(r, "worker_shutdown") \in Codes
      BY <2>1 DEF FailureCode
    <2>3. ASSUME NEW status \in {"SUCCEEDED", "FAILED", "CANCELLED", "AWAITING_APPROVAL"},
                 NEW code \in Codes, code = "none" \/ status \in {"FAILED", "CANCELLED"}, NEW last,
                 Finish(r, status, code, last)
          PROVE  Quiet
      BY <2>3, QuietFinish
    <2>4. CASE UNCHANGED run
      BY <2>4, QuietStill
    <2> QED
      BY <1>3, <2>1, <2>2, <2>3, <2>4 DEF Complete, Aborted, LoopFails, conversation
  <1>4. CASE Catch(r) /\ Is(r, "RUNNING")
    <2>1. \A code \in CatchCodes(r) : code \in Codes
      BY DEF CatchCodes, FailureCode, Codes
    <2>2. run[r].status \in Unsettled /\ "FAILED" \in Settled
      BY <1>4 DEF Is, Unsettled, Settled
    <2> QED
      BY <1>4, <2>1, <2>2, MoveChanges DEF Catch
  <1>5. CASE UNCHANGED run
    BY <1>5, QuietStill
  <1> QED
    BY <1>1, <1>2, <1>3, <1>4, <1>5
       DEF Work, Loop, InitFails, MintKey, DeleteKey, ClearPointer, CleanupFails, JobStalls, WorkerShutdown,
           Produce, LastWriteFails, Heartbeat, FlushCheck, FlushAppend, WorkerDies, Catch, conversation

LEMMA QuietRead == ASSUME IInv, NEW p \in Readers, Read(p) PROVE Quiet
PROOF
  <1>1. CASE WriteStale(p)
    <2>1. SeenOK(op[p].seen, run) /\ run' = Failed(op[p].seen)
      BY <1>1 DEF WriteStale, IInv, OpOK
    <2> QED
      BY <2>1, FailedChanges DEF Quiet
  <1>2. CASE UNCHANGED run
    BY <1>2, QuietStill
  <1> QED
    BY <1>1, <1>2 DEF Read, ReadStale, CleanClear, CleanDelete, ClaimMiss, conversation

LEMMA QuietCancel == ASSUME IInv, CancelCommit PROVE Quiet
PROOF
  <1> DEFINE idle == {r \in DOMAIN tx.seen : Unread(r)}
             signalled == {r \in DOMAIN tx.seen \ idle : Is(r, "RUNNING")}
  <1>1. /\ \A r \in DOMAIN tx.seen : tx.seen[r] \in Unsettled
        /\ Cancel(idle, signalled)
    BY DEF CancelCommit, IInv, TxOK
  <1>2. /\ \A r \in idle : run[r].status \in Unsettled
        /\ \A r \in signalled : run[r].status = "RUNNING" /\ r \notin idle
    BY <1>1 DEF Unread, Is
  <1> HIDE DEF idle, signalled
  <1> SUFFICES ASSUME NEW r \in Runs PROVE Changes(run[r], run'[r])
    BY DEF Quiet
  <1>3. CASE r \in idle
    <2>1. PICK code \in Codes : run'[r] = To(run[r], "CANCELLED", code)
      BY <1>1, <1>2, <1>3 DEF Cancel, Codes
    <2>2. run[r].status \in Unsettled /\ "CANCELLED" \in Settled /\ "CANCELLED" # "SUCCEEDED"
      BY <1>2, <1>3 DEF Settled
    <2> QED
      BY <2>1, <2>2 DEF Changes
  <1>4. CASE r \in signalled
    <2>1. run'[r] = [run[r] EXCEPT !.cancelRequested = TRUE] /\ run[r].status = "RUNNING"
      BY <1>1, <1>2, <1>4 DEF Cancel
    <2> QED
      BY <2>1 DEF Changes
  <1>5. CASE r \notin idle /\ r \notin signalled
    BY <1>1, <1>5 DEF Cancel, Changes
  <1> QED
    BY <1>3, <1>4, <1>5

(* What the transactions that create a run do with the other rows.         *)
LEMMA MadeByCreate ==
    ASSUME IInv, SeenOK(tx.seen, run), NEW n \in Fresh, Create(Failed(tx.seen), n)
    PROVE  Made(n)
PROOF
  <1> DEFINE rows == Failed(tx.seen)
  <1>1. \A r \in Runs : Changes(run[r], rows[r]) /\ (rows[r] = run[r] \/ rows[r].status = "FAILED")
    BY FailedChanges
  <1>2. n \in Runs /\ rows[n].status # "AWAITING_APPROVAL"
    BY <1>1 DEF Fresh, Created, Is
  <1> HIDE DEF rows
  <1>3. Create(rows, n)
    BY DEF rows
  <1>4. run'[n] = Row("QUEUED", "none", FALSE)
    BY <1>2, <1>3 DEF Create
  <1>5. ASSUME NEW r \in Runs \ {n} PROVE Changes(run[r], run'[r])
    <2>1. CASE rows[r].status = "AWAITING_APPROVAL"
      <3>1. run'[r] = To(run[r], "CANCELLED", "other") /\ run[r].status = "AWAITING_APPROVAL"
        BY <1>1, <1>3, <2>1 DEF Create
      <3>2. run[r].status \in Unsettled /\ "CANCELLED" \in Settled /\ "other" \in Codes
        BY <3>1 DEF Unsettled, Settled, Codes
      <3> QED
        BY <3>1, <3>2 DEF Changes
    <2>2. CASE rows[r].status # "AWAITING_APPROVAL"
      <3>1. run'[r] = rows[r]
        BY <1>3, <2>2 DEF Create
      <3> QED
        BY <1>1, <3>1
    <2> QED
      BY <2>1, <2>2
  <1> QED
    BY <1>4, <1>5 DEF Made

LEMMA MadeByDecide ==
    ASSUME IInv, NEW r \in Runs, Is(r, "AWAITING_APPROVAL"), tx.yes \in BOOLEAN, NEW n \in Fresh,
           Decide(r, n)
    PROVE  Made(n)
PROOF
  <1> DEFINE fresh == Row("QUEUED", "none", tx.yes)
             past == To(run[r], "SUCCEEDED", "none")
  <1>1. n \in Runs /\ n # r
    BY DEF Fresh, Created, Is
  <1>2. run' = [run EXCEPT ![r] = past, ![n] = fresh]
    BY DEF Decide
  <1>3. Changes(run[r], past)
    <2>1. run[r].status \in Unsettled /\ "SUCCEEDED" \in Settled /\ "none" \in Codes
      BY DEF Is, Unsettled, Settled, Codes
    <2> QED
      BY <2>1 DEF Changes
  <1> HIDE DEF past
  <1>4. run'[n] = fresh /\ run'[r] = past /\ \A q \in Runs \ {n, r} : run'[q] = run[q]
    BY <1>1, <1>2 DEF IInv
  <1>5. \A q \in Runs \ {n, r} : Changes(run[q], run'[q])
    BY <1>4 DEF Changes
  <1> QED
    BY <1>3, <1>4, <1>5 DEF Made

(* Every step is quiet, or one of the two that create a run.               *)
LEMMA RowsChange ==
    ASSUME IInv, [Next]_vars
    PROVE  \/ Quiet
           \/ CreateCommit /\ \E n \in Fresh : Create(Failed(tx.seen), n) /\ Made(n)
           \/ DecideCommit /\ \E n \in Fresh : Decide(tx.run, n) /\ Made(n) /\ Is(tx.run, "AWAITING_APPROVAL")
PROOF
  <1>1. ASSUME NEW r \in Runs, Time(r) \/ Work(r) PROVE Quiet
    BY <1>1, QuietTime, QuietWork
  <1>2. ASSUME NEW p \in Readers, Read(p) PROVE Quiet
    BY <1>2, QuietRead
  <1>3. CASE CreateCommit
    <2>1. SeenOK(tx.seen, run)
      BY <1>3 DEF CreateCommit, IInv, TxOK
    <2>2. UNCHANGED run \/ \E n \in Fresh : Create(Failed(tx.seen), n)
      BY <1>3 DEF CreateCommit
    <2> QED
      BY <1>3, <2>1, <2>2, QuietStill, MadeByCreate
  <1>4. CASE DecideCommit
    <2>1. tx.run \in Runs /\ tx.yes \in BOOLEAN
      BY <1>4 DEF DecideCommit, IInv, TxOK
    <2>2. \/ UNCHANGED run
          \/ Is(tx.run, "AWAITING_APPROVAL") /\ run' = Move({tx.run}, "FAILED", "other")
          \/ Is(tx.run, "AWAITING_APPROVAL") /\ \E n \in Fresh : Decide(tx.run, n)
      BY <1>4 DEF DecideCommit
    <2>3. CASE Is(tx.run, "AWAITING_APPROVAL") /\ run' = Move({tx.run}, "FAILED", "other")
      <3>1. run[tx.run].status \in Unsettled /\ "FAILED" \in Settled /\ "other" \in Codes
        BY <2>3 DEF Is, Unsettled, Settled, Codes
      <3> QED
        BY <2>1, <2>3, <3>1, MoveChanges
    <2> QED
      BY <1>4, <2>1, <2>2, <2>3, QuietStill, MadeByDecide
  <1>5. CASE CancelCommit
    BY <1>5, QuietCancel
  <1>6. ASSUME NEW r \in Runs, EnqueueFailed(r) PROVE Quiet
    <2>1. CASE Is(r, "QUEUED")
      <3>1. run[r].status \in Unsettled /\ "FAILED" \in Settled /\ "other" \in Codes
        BY <2>1 DEF Is, Unsettled, Settled, Codes
      <3> QED
        BY <1>6, <2>1, <3>1, MoveChanges DEF EnqueueFailed
    <2>2. CASE ~Is(r, "QUEUED")
      BY <1>6, <2>2, QuietStill DEF EnqueueFailed
    <2> QED
      BY <2>1, <2>2
  <1>7. CASE UNCHANGED run
    BY <1>7, QuietStill
  <1> QED
    BY <1>1, <1>2, <1>3, <1>4, <1>5, <1>6, <1>7
       DEF Next, Request, CreateBegin, TransactionDies, Enqueue, AddThrows, DecideBegin, CancelBegin, Begin,
           conversation, vars

-----------------------------------------------------------------------------
(* The order of the events.  The unsettled run is the last one created, and*)
(* a flush that has passed its check holds the conversation, so no run is  *)
(* created behind its back even if its own run is failed meanwhile.        *)

Fine == \A r \in Runs : RowFine(run[r])

Last(r) == r \in Created /\ \A q \in Created : q <= r

OrderInv ==
    /\ Fine
    /\ log \in Seq(Events)
    /\ \A i \in DOMAIN log : log[i].run \in Created
    /\ EventsInRunOrder
    /\ \A q, r \in Runs : q < r /\ r \in Created => q \in Created
    /\ \A r \in Runs : run[r].status \in Unsettled => Last(r)
    /\ tx.doing = "flush" => tx.run \in Runs /\ Last(tx.run)

LEMMA FineNext == ASSUME IInv, Fine, [Next]_vars PROVE Fine'
PROOF
  <1>1. ASSUME Quiet PROVE Fine'
    BY <1>1, ChangesFine DEF Fine, Quiet
  <1>2. ASSUME NEW n \in Fresh, Made(n) PROVE Fine'
    <2>1. \A r \in Runs \ {n} : RowFine(run'[r])
      BY <1>2, ChangesFine DEF Fine, Made
    <2>2. PICK approved \in BOOLEAN : run'[n] = Row("QUEUED", "none", approved)
      BY <1>2 DEF Made
    <2>3. "QUEUED" \in Statuses /\ "none" \in Codes
      BY DEF Statuses, Unsettled, Codes
    <2>4. RowFine(run'[n])
      BY <2>2, <2>3, RowFineTo
    <2> QED
      BY <2>1, <2>4 DEF Fine
  <1> QED
    BY <1>1, <1>2, RowsChange

LEMMA QuietFacts ==
    ASSUME Fine, Quiet
    PROVE  /\ Created' = Created
           /\ Fresh' = Fresh
           /\ \A r \in Runs : run'[r].status \in Unsettled => run[r].status \in Unsettled
           /\ \A r : Last(r)' = Last(r)
PROOF
  <1>1. \A r \in Runs : /\ (run'[r].status = "none") <=> (run[r].status = "none")
                        /\ run'[r].status \in Unsettled => run[r].status \in Unsettled
    BY ChangesFine DEF Fine, Quiet
  <1>2. Created' = Created
    BY <1>1 DEF Created, Is
  <1> QED
    BY <1>1, <1>2 DEF Fresh, Last

LEMMA MadeFacts ==
    ASSUME Fine, NEW n \in Fresh, Made(n)
    PROVE  /\ n \in Runs /\ n \notin Created
           /\ run'[n].status = "QUEUED"
           /\ Created' = Created \cup {n}
PROOF
  <1>1. n \in Runs /\ n \notin Created
    BY DEF Fresh
  <1>2. run'[n].status = "QUEUED"
    BY DEF Made, Row
  <1>3. \A r \in Runs \ {n} : (run'[r].status = "none") <=> (run[r].status = "none")
    BY ChangesFine DEF Fine, Made
  <1> QED
    BY <1>1, <1>2, <1>3 DEF Created, Is

(* Events of a run that no other is younger than go to the end.            *)
LEMMA Extended ==
    ASSUME log \in Seq(Events), \A i \in DOMAIN log : log[i].run \in Created, EventsInRunOrder,
           NEW r \in Runs, \A q \in Created : q <= r,
           NEW s \in Seq(Events), \A i \in DOMAIN s : s[i].run = r, log' = log \o s
    PROVE  /\ log' \in Seq(Events)
           /\ \A i \in DOMAIN log' : log'[i].run \in Created \cup {r}
           /\ EventsInRunOrder'
PROOF
  <1>1. log' \in Seq(Events) /\ Len(log') = Len(log) + Len(s)
    OBVIOUS
  <1>2. Len(log) \in Nat /\ Len(s) \in Nat /\ DOMAIN log = 1..Len(log) /\ DOMAIN s = 1..Len(s)
        /\ DOMAIN log' = 1..Len(log')
    BY <1>1
  <1>3. ASSUME NEW i \in DOMAIN log'
        PROVE  \/ i \in DOMAIN log /\ log'[i] = log[i]
               \/ i > Len(log) /\ log'[i].run = r
    <2>1. CASE i <= Len(log)
      BY <1>1, <1>2, <1>3, <2>1
    <2>2. CASE i > Len(log)
      <3>1. i - Len(log) \in DOMAIN s /\ log'[i] = s[i - Len(log)]
        BY <1>1, <1>2, <1>3, <2>2
      <3> QED
        BY <2>2, <3>1
    <2> QED
      BY <1>1, <1>2, <1>3, <2>1, <2>2
  <1>4. ASSUME NEW i \in DOMAIN log', NEW j \in DOMAIN log', i < j
        PROVE  log'[i].run <= log'[j].run
    <2>1. i \in Nat /\ j \in Nat /\ r <= r
      BY <1>1, <1>2 DEF Runs
    <2>2. CASE i \in DOMAIN log /\ log'[i] = log[i] /\ j \in DOMAIN log /\ log'[j] = log[j]
      BY <1>4, <2>2 DEF EventsInRunOrder
    <2>3. CASE i \in DOMAIN log /\ log'[i] = log[i] /\ log'[j].run = r
      BY <2>3
    <2>4. CASE i > Len(log) /\ j \in DOMAIN log
      BY <1>2, <1>4, <2>1, <2>4
    <2>5. CASE log'[i].run = r /\ log'[j].run = r
      BY <2>1, <2>5
    <2> QED
      BY <1>3, <2>2, <2>3, <2>4, <2>5
  <1>5. \A i \in DOMAIN log' : log'[i].run \in Created \cup {r}
    BY <1>3
  <1> QED
    BY <1>1, <1>4, <1>5 DEF EventsInRunOrder

LEMMA PendingType ==
    ASSUME NEW r \in Runs
    PROVE  Pending(r) \in Seq(Events) /\ \A i \in DOMAIN Pending(r) : Pending(r)[i].run = r
PROOF
  <1>1. Event(r, Unit(r)) \in Events /\ Event(r, Unit(r)).run = r
    BY DEF Event, Unit, Events
  <1>2. CASE worker[r].pending
    <2>1. Pending(r) = <<Event(r, Unit(r))>>
      BY <1>2 DEF Pending
    <2> HIDE DEF Pending
    <2> QED
      BY <1>1, <2>1
  <1>3. CASE ~worker[r].pending
    BY <1>3 DEF Pending
  <1> QED
    BY <1>2, <1>3

(* What a quiet step adds is of the run that the conversation is held for, *)
(* or of the one that is running.                                          *)
Extends(r) ==
    \E s \in Seq(Events) : (\A i \in DOMAIN s : s[i].run = r) /\ log' = log \o s

LEMMA FinishExtends ==
    ASSUME OrderInv, NEW r \in Runs, NEW status, NEW code,
           NEW last \in {<<>>, <<Event(r, "interrupt")>>}, Finish(r, status, code, last)
    PROVE  log' = log \/ (Last(r) /\ Extends(r))
PROOF
  <1>1. CASE ~Is(r, "RUNNING")
    BY <1>1 DEF Finish
  <1>2. CASE Is(r, "RUNNING")
    <2> DEFINE p == Pending(r)
    <2>1. log' = log \o p \o last /\ log \in Seq(Events)
      BY <1>2 DEF Finish, OrderInv
    <2>2. Last(r)
      BY <1>2 DEF OrderInv, Is, Unsettled
    <2>3. p \in Seq(Events) /\ \A i \in DOMAIN p : p[i].run = r
      BY PendingType
    <2>4. Event(r, "interrupt") \in Events /\ Event(r, "interrupt").run = r
      BY DEF Event, Events
    <2>5. last \in Seq(Events) /\ \A i \in DOMAIN last : last[i].run = r
      <3>1. CASE last = <<>>
        BY <3>1
      <3>2. CASE last = <<Event(r, "interrupt")>>
        BY <2>4, <3>2
      <3> QED
        BY <3>1, <3>2
    <2> HIDE DEF p
    <2>6. p \o last \in Seq(Events) /\ log' = log \o (p \o last)
      BY <2>1, <2>3, <2>5
    <2>7. ASSUME NEW i \in DOMAIN (p \o last) PROVE (p \o last)[i].run = r
      <3>1. CASE i <= Len(p)
        BY <2>3, <2>5, <2>7, <3>1
      <3>2. CASE i > Len(p)
        <4>1. i - Len(p) \in DOMAIN last /\ (p \o last)[i] = last[i - Len(p)]
          BY <2>3, <2>5, <2>7, <3>2
        <4> QED
          BY <2>5, <4>1
      <3> QED
        BY <2>3, <2>5, <2>7, <3>1, <3>2
    <2> QED
      BY <2>2, <2>6, <2>7 DEF Extends
  <1> QED
    BY <1>1, <1>2

LEMMA QuietLog ==
    ASSUME IInv, OrderInv, [Next]_vars, Quiet
    PROVE  log' = log \/ \E r \in Runs : Last(r) /\ Extends(r)
PROOF
  <1>1. ASSUME NEW n \in Fresh PROVE run'[n].status = "none"
    <2>1. n \in Runs /\ n \notin Created'
      BY QuietFacts DEF Fresh, OrderInv
    <2> QED
      BY <2>1 DEF Created, Is
  <1>2. CASE CreateCommit \/ DecideCommit
    <2>1. ASSUME NEW n \in Fresh, NEW rows, Create(rows, n) PROVE FALSE
      <3>1. run'[n] \in {Row("QUEUED", "none", FALSE), To(rows[n], "CANCELLED", "other")}
        BY <2>1 DEF Create, Fresh
      <3> QED
        BY <1>1, <3>1 DEF To, Row
    <2>2. ASSUME NEW n \in Fresh, NEW r \in Runs, Decide(r, n) PROVE FALSE
      <3>1. run'[n] = Row("QUEUED", "none", tx.yes)
        BY <2>2 DEF Decide, Fresh, IInv
      <3> QED
        BY <1>1, <3>1 DEF Row
    <2>3. DecideCommit => tx.run \in Runs
      BY DEF DecideCommit, IInv, TxOK
    <2> QED
      BY <1>2, <2>1, <2>2, <2>3 DEF CreateCommit, DecideCommit
  <1>3. ASSUME NEW r \in Runs, FlushAppend(r) PROVE Last(r) /\ Extends(r)
    <2>1. tx.doing = "flush" /\ tx.run = r
      BY <1>3 DEF FlushAppend, Flushing
    <2>2. log' = log \o Pending(r)
      BY <1>3 DEF FlushAppend
    <2> QED
      BY <2>1, <2>2, PendingType DEF OrderInv, Extends
  <1>4. ASSUME NEW r \in Runs, Complete(r) \/ Aborted(r) \/ LoopFails(r)
        PROVE  log' = log \/ (Last(r) /\ Extends(r))
    <2>1. ASSUME NEW status, NEW code, NEW last \in {<<>>, <<Event(r, "interrupt")>>},
                 Finish(r, status, code, last)
          PROVE  log' = log \/ (Last(r) /\ Extends(r))
      BY <2>1, FinishExtends
    <2> QED
      BY <1>4, <2>1 DEF Complete, Aborted, LoopFails, conversation
  <1>5. ASSUME NEW r \in Runs, Time(r) \/ Work(r)
        PROVE  log' = log \/ (Last(r) /\ Extends(r))
    BY <1>3, <1>4, <1>5
       DEF Time, Work, Loop, HeartbeatAges, DeadlinePasses, Claim, InitFails, MintKey, Heartbeat, WorkerShutdown, Produce, FlushCheck,
           LastWriteFails, DeleteKey, ClearPointer, CleanupFails, Catch, AfterCatch, WorkerDies, JobStalls,
           conversation
  <1>6. ASSUME NEW p \in Readers, Read(p) PROVE log' = log
    BY <1>6 DEF Read, ReadStale, WriteStale, CleanClear, CleanDelete, ClaimMiss, conversation
  <1>7. CASE Request
    <2>1. CASE ~(CreateCommit \/ DecideCommit)
      BY <1>7, <2>1 DEF Request, CreateBegin, CancelCommit, TransactionDies, Enqueue, AddThrows, EnqueueFailed,
           DecideBegin, CancelBegin, Begin, conversation
    <2> QED
      BY <1>2, <2>1
  <1>8. CASE UNCHANGED vars
    BY <1>8 DEF vars
  <1> QED
    BY <1>5, <1>6, <1>7, <1>8 DEF Next

LEMMA FlushBegins ==
    ASSUME [Next]_vars, tx'.doing = "flush"
    PROVE  tx' = tx \/ \E r \in Runs : tx' = Flushing(r) /\ Is(r, "RUNNING") /\ UNCHANGED run
PROOF
  <1>1. Idle.doing # "flush"
    BY DEF Idle
  <1>2. ASSUME NEW r \in Runs, Time(r) \/ Work(r)
        PROVE  tx' \in {tx, Idle} \/ (tx' = Flushing(r) /\ Is(r, "RUNNING") /\ UNCHANGED run)
    BY <1>2
       DEF Time, Work, Loop, HeartbeatAges, DeadlinePasses, Claim, InitFails, MintKey, Heartbeat, WorkerShutdown, Produce, FlushCheck,
           FlushAppend, Complete, Aborted, LoopFails, Finish,
           LastWriteFails, DeleteKey, ClearPointer, CleanupFails, Catch, AfterCatch, WorkerDies, JobStalls,
           conversation
  <1>3. ASSUME NEW p \in Readers, Read(p) PROVE tx' = tx
    BY <1>3 DEF Read, ReadStale, WriteStale, CleanClear, CleanDelete, ClaimMiss, conversation
  <1>4. CASE Request
    <2>1. CASE CreateCommit \/ DecideCommit \/ CancelCommit \/ TransactionDies
      BY <1>1, <2>1 DEF CreateCommit, DecideCommit, CancelCommit, TransactionDies
    <2>2. ASSUME NEW r \in Runs, Enqueue(r) \/ AddThrows(r) \/ EnqueueFailed(r) PROVE tx' = tx
      BY <2>2 DEF Enqueue, AddThrows, EnqueueFailed, conversation
    <2>3. ASSUME NEW S, NEW deleting, CancelBegin(S, deleting) PROVE tx'.doing = "cancel"
      BY <2>3 DEF CancelBegin, Begin
    <2>4. CASE CreateBegin \/ \E r \in Runs, yes \in BOOLEAN : DecideBegin(r, yes)
      BY <2>4 DEF CreateBegin, DecideBegin, Begin
    <2> QED
      BY <1>4, <2>1, <2>2, <2>3, <2>4 DEF Request
  <1>5. CASE UNCHANGED vars
    BY <1>5 DEF vars
  <1> QED
    BY <1>1, <1>2, <1>3, <1>4, <1>5 DEF Next

LEMMA OrderNext == IInv /\ OrderInv /\ [Next]_vars => OrderInv'
PROOF
  <1> SUFFICES ASSUME IInv, OrderInv, [Next]_vars PROVE OrderInv'
    OBVIOUS
  <1>1. Fine' /\ Fine /\ IInv'
    BY FineNext, Steps, Preserved DEF OrderInv
  <1>2. CASE Quiet
    <2>1. /\ Created' = Created
          /\ \A r \in Runs : run'[r].status \in Unsettled => run[r].status \in Unsettled
          /\ \A r : Last(r)' = Last(r)
      BY <1>1, <1>2, QuietFacts
    <2>2. /\ log' \in Seq(Events)
          /\ \A i \in DOMAIN log' : log'[i].run \in Created
          /\ EventsInRunOrder'
      <3>1. CASE log' = log
        BY <3>1 DEF OrderInv, EventsInRunOrder
      <3>2. ASSUME NEW r \in Runs, Last(r), Extends(r)
            PROVE  /\ log' \in Seq(Events)
                   /\ \A i \in DOMAIN log' : log'[i].run \in Created
                   /\ EventsInRunOrder'
        <4>1. PICK s \in Seq(Events) : (\A i \in DOMAIN s : s[i].run = r) /\ log' = log \o s
          BY <3>2 DEF Extends
        <4>2. r \in Created /\ \A q \in Created : q <= r
          BY <3>2 DEF Last
        <4>3. /\ log' \in Seq(Events)
              /\ \A i \in DOMAIN log' : log'[i].run \in Created \cup {r}
              /\ EventsInRunOrder'
          BY <4>1, <4>2, Extended DEF OrderInv
        <4> QED
          BY <4>2, <4>3
      <3> QED
        BY <1>2, <3>1, <3>2, QuietLog
    <2>3. tx'.doing = "flush" => tx'.run \in Runs /\ Last(tx'.run)
      <3>1. ASSUME NEW r \in Runs, tx' = Flushing(r), Is(r, "RUNNING")
            PROVE  tx'.run = r /\ Last(r)
        BY <3>1 DEF OrderInv, Is, Unsettled, Flushing
      <3> QED
        BY <3>1, FlushBegins DEF OrderInv
    <2>4. tx'.doing = "flush" => Last(tx.run)'
      BY <2>1, <2>3 DEF Last
    <2> QED
      BY <1>1, <2>1, <2>2, <2>3, <2>4 DEF OrderInv
  <1>3. ASSUME NEW n \in Fresh, Made(n), tx' = Idle,
               NEW r \in {n, tx.run}, r \in Runs, r = n \/ run[r].status \in Unsettled,
               NEW what \in {"input", "decision"}, log' = Append(log, Event(r, what))
        PROVE  OrderInv'
    <2>1. n \in Runs /\ n \notin Created /\ run'[n].status = "QUEUED" /\ Created' = Created \cup {n}
      BY <1>1, <1>3, MadeFacts
    <2>2. \A q \in Created : q \in Runs /\ q < n
      BY <2>1 DEF OrderInv, Created, Runs
    <2>3. \A q \in Created : q <= r
      BY <1>3, <2>2 DEF OrderInv, Last, Runs
    <2>4. \A q \in Runs : q < n => q \in Created
      BY <1>3 DEF Fresh
    <2> DEFINE s == <<Event(r, what)>>
    <2>5. s \in Seq(Events) /\ (\A i \in DOMAIN s : s[i].run = r) /\ log' = log \o s
      <3>1. Event(r, what) \in Events /\ Event(r, what).run = r
        BY <1>3 DEF Event, Events
      <3> QED
        BY <1>3, <3>1 DEF OrderInv
    <2> HIDE DEF s
    <2>6. /\ log' \in Seq(Events)
          /\ \A i \in DOMAIN log' : log'[i].run \in Created \cup {r}
          /\ EventsInRunOrder'
      BY <1>3, <2>3, <2>5, Extended DEF OrderInv
    <2>7. r \in Created'
      BY <1>3, <2>1 DEF OrderInv, Last
    <2>8. Last(n)'
      BY <2>1, <2>2 DEF Last, Runs
    <2>9. \A q \in Runs : run'[q].status \in Unsettled => q = n
      BY <1>1, <2>1 DEF IInv, OneUnsettled, Unsettled
    <2>10. \A p, q \in Runs : p < q /\ q \in Created' => p \in Created'
      BY <2>1, <2>4 DEF OrderInv
    <2>11. tx'.doing # "flush"
      BY <1>3 DEF Idle
    <2>12. \A q \in Runs : run'[q].status \in Unsettled => Last(q)'
      BY <2>8, <2>9
    <2> QED
      BY <1>1, <2>1, <2>6, <2>7, <2>10, <2>11, <2>12 DEF OrderInv
  <1>4. CASE CreateCommit /\ \E n \in Fresh : Create(Failed(tx.seen), n) /\ Made(n)
    <2>1. PICK n \in Fresh : Create(Failed(tx.seen), n) /\ Made(n)
      BY <1>4
    <2>2. n \in Runs /\ tx' = Idle /\ log' = Append(log, Event(n, "input"))
      BY <1>4, <2>1 DEF Fresh, CreateCommit, Create
    <2> QED
      BY <1>3, <2>1, <2>2
  <1>5. CASE DecideCommit /\ \E n \in Fresh : Decide(tx.run, n) /\ Made(n) /\ Is(tx.run, "AWAITING_APPROVAL")
    <2>1. PICK n \in Fresh : Decide(tx.run, n) /\ Made(n) /\ Is(tx.run, "AWAITING_APPROVAL")
      BY <1>5
    <2>2. tx.run \in Runs /\ tx' = Idle /\ log' = Append(log, Event(tx.run, "decision"))
          /\ run[tx.run].status \in Unsettled
      BY <1>5, <2>1 DEF DecideCommit, Decide, IInv, TxOK, Is, Unsettled
    <2> QED
      BY <1>3, <2>1, <2>2
  <1> QED
    BY <1>2, <1>4, <1>5, RowsChange

LEMMA InitOrder == Init => OrderInv
PROOF
  <1> SUFFICES ASSUME Init PROVE OrderInv
    OBVIOUS
  <1>1. "none" \in Statuses /\ "none" \in Codes
    BY DEF Statuses, Codes
  <1>2. RowFine(NoRow) /\ NoRow.status = "none"
    BY <1>1, RowFineTo DEF NoRow
  <1>3. Created = {} /\ Fine
    BY <1>2 DEF Init, Created, Is, Fine
  <1>4. \A r \in Runs : run[r].status \notin Unsettled
    BY <1>2 DEF Init, Unsettled
  <1> QED
    BY <1>3, <1>4 DEF Init, OrderInv, EventsInRunOrder, Idle

(* appendRunEvents, createQueuedRun and decideToolApproval: the history of a conversation    *)
(* lists the events of its runs in the order of the runs, for any number of runs, readers    *)
(* that fail them, crashes and refused writes.                                               *)
THEOREM EventsInRunOrderHolds == Spec => []EventsInRunOrder
PROOF
  <1>1. Init => OrderInv
    BY InitOrder
  <1>2. OrderInv => EventsInRunOrder
    BY DEF OrderInv
  <1> QED
    BY <1>1, <1>2, OrderNext, Invariant, PTL DEF Spec

-----------------------------------------------------------------------------
(* Cancellations.  While one is between its read and its writes it holds   *)
(* the conversation: what it read can only be claimed or settle.           *)

CancelInv ==
    /\ Fine
    /\ faults \in 0..MaxFaults
    /\ tx.doing = "cancel" =>
          \A r \in DOMAIN tx.seen :
             \/ run[r].status \in Settled \cup {tx.seen[r]}
             \/ tx.seen[r] = "QUEUED" /\ Is(r, "RUNNING")

LEMMA FaultsNext == ASSUME faults \in 0..MaxFaults, [Next]_vars PROVE faults' \in 0..MaxFaults
PROOF
  <1>1. CASE UNCHANGED faults
    BY <1>1
  <1>2. CASE Fault
    BY <1>2, RunsAssumption DEF Fault
  <1>3. ASSUME NEW r \in Runs, Time(r) \/ Work(r) PROVE UNCHANGED faults \/ Fault
    <2>1. ASSUME NEW status, NEW code, NEW last, Finish(r, status, code, last) PROVE UNCHANGED faults
      BY <2>1 DEF Finish
    <2> QED
      BY <1>3, <2>1
         DEF Time, Work, Loop, HeartbeatAges, DeadlinePasses, Claim, InitFails, MintKey, Heartbeat, WorkerShutdown,
             Produce, FlushCheck, FlushAppend, Complete, Aborted, LoopFails,
             LastWriteFails, DeleteKey, ClearPointer, CleanupFails, Catch, AfterCatch, WorkerDies, JobStalls
  <1>4. ASSUME NEW p \in Readers, Read(p) PROVE UNCHANGED faults
    BY <1>4 DEF Read, ReadStale, WriteStale, CleanClear, CleanDelete, ClaimMiss
  <1>5. CASE Request
    <2>1. ASSUME NEW what, Begin(what) PROVE UNCHANGED faults
      BY <2>1 DEF Begin
    <2> QED
      BY <1>1, <1>2, <1>5, <2>1
         DEF Request, CreateBegin, CreateCommit, DecideCommit, CancelCommit, TransactionDies, Enqueue,
             AddThrows, EnqueueFailed, DecideBegin, CancelBegin
  <1> QED
    BY <1>1, <1>2, <1>3, <1>4, <1>5 DEF Next, vars

LEMMA CancelBegins ==
    ASSUME [Next]_vars, tx'.doing = "cancel"
    PROVE  \/ tx' = tx
           \/ \E S : tx'.seen = [r \in S |-> run[r].status] /\ UNCHANGED run
PROOF
  <1>1. Idle.doing # "cancel" /\ \A r : Flushing(r).doing # "cancel"
    BY DEF Idle, Flushing
  <1>2. ASSUME NEW r \in Runs, Time(r) \/ Work(r)
        PROVE  tx' \in {tx, Idle, Flushing(r)}
    BY <1>2
       DEF Time, Work, Loop, HeartbeatAges, DeadlinePasses, Claim, InitFails, MintKey, Heartbeat, WorkerShutdown, Produce, FlushCheck,
           FlushAppend, Complete, Aborted, LoopFails, Finish,
           LastWriteFails, DeleteKey, ClearPointer, CleanupFails, Catch, AfterCatch, WorkerDies, JobStalls,
           conversation
  <1>3. ASSUME NEW p \in Readers, Read(p) PROVE tx' = tx
    BY <1>3 DEF Read, ReadStale, WriteStale, CleanClear, CleanDelete, ClaimMiss, conversation
  <1>4. CASE Request
    <2>1. CASE CreateCommit \/ DecideCommit \/ CancelCommit \/ TransactionDies
      BY <1>1, <2>1 DEF CreateCommit, DecideCommit, CancelCommit, TransactionDies
    <2>2. ASSUME NEW r \in Runs, Enqueue(r) \/ AddThrows(r) \/ EnqueueFailed(r) PROVE tx' = tx
      BY <2>2 DEF Enqueue, AddThrows, EnqueueFailed, conversation
    <2>3. ASSUME NEW S, NEW deleting, CancelBegin(S, deleting)
          PROVE  tx'.seen = [r \in S |-> run[r].status] /\ UNCHANGED run
      BY <2>3 DEF CancelBegin, Begin
    <2>4. CASE CreateBegin \/ \E r \in Runs, yes \in BOOLEAN : DecideBegin(r, yes)
      BY <2>4 DEF CreateBegin, DecideBegin, Begin
    <2> QED
      BY <1>4, <2>1, <2>2, <2>3, <2>4 DEF Request
  <1>5. CASE UNCHANGED vars
    BY <1>5 DEF vars
  <1> QED
    BY <1>1, <1>2, <1>3, <1>4, <1>5 DEF Next

(* It ends with its writes, or with a fault.                               *)
LEMMA CancelEnds ==
    ASSUME [Next]_vars, tx.doing = "cancel", tx' = Idle
    PROVE  CancelCommit \/ Fault
PROOF
  <1>1. tx # Idle /\ (\A r : tx # Flushing(r)) /\ tx' # tx
    BY DEF Idle, Flushing
  <1>2. ASSUME NEW r \in Runs, Time(r) \/ Work(r)
        PROVE  FALSE
    <2>1. ASSUME NEW status, NEW code, NEW last PROVE ~Finish(r, status, code, last)
      BY <1>1 DEF Finish
    <2> QED
      BY <1>1, <1>2, <2>1
         DEF Time, Work, Loop, HeartbeatAges, DeadlinePasses, Claim, InitFails, MintKey, Heartbeat, WorkerShutdown, Produce, FlushCheck,
             FlushAppend, Complete, Aborted, LoopFails,
             LastWriteFails, DeleteKey, ClearPointer, CleanupFails, Catch, AfterCatch, WorkerDies, JobStalls,
             conversation
  <1>3. ASSUME NEW p \in Readers, Read(p) PROVE tx' = tx
    BY <1>3 DEF Read, ReadStale, WriteStale, CleanClear, CleanDelete, ClaimMiss, conversation
  <1>4. ASSUME NEW what, Begin(what) PROVE FALSE
    BY <1>1, <1>4 DEF Begin
  <1>5. CASE Request
    BY <1>1, <1>4, <1>5
       DEF Request, CreateBegin, CreateCommit, DecideCommit, TransactionDies, Enqueue,
           AddThrows, EnqueueFailed, DecideBegin, CancelBegin, conversation
  <1> QED
    BY <1>1, <1>2, <1>3, <1>5 DEF Next, vars

LEMMA ChangesStatus ==
    ASSUME NEW old \in RowStates, NEW new, Changes(old, new), tx' # Idle
    PROVE  \/ new.status \in Settled \cup {old.status}
           \/ old.status = "QUEUED" /\ new.status = "RUNNING"
PROOF
  <1>1. \A status, code : To(old, status, code).status = status
    BY DEF To, Row
  <1>2. CASE new = old
    BY <1>2
  <1>3. CASE \E status \in Settled, code \in Codes : new = To(old, status, code)
    BY <1>1, <1>3
  <1>4. CASE old.status = "QUEUED" /\ new = To(old, "RUNNING", "none")
    BY <1>1, <1>4
  <1>5. CASE new = [old EXCEPT !.age = "overdue"] \/ new = [old EXCEPT !.age = "stale"]
    BY <1>5 DEF RowStates
  <1>6. CASE new = [old EXCEPT !.cancelRequested = TRUE]
    BY <1>6 DEF RowStates
  <1>7. CASE new = [old EXCEPT !.heartbeatAt = @ + 1, !.age = IF @ = "stale" THEN "fresh" ELSE @]
    BY <1>7 DEF RowStates
  <1> QED
    BY <1>2, <1>3, <1>4, <1>5, <1>6, <1>7 DEF Changes

LEMMA CancelNext == IInv /\ CancelInv /\ [Next]_vars => CancelInv'
PROOF
  <1> SUFFICES ASSUME IInv, CancelInv, [Next]_vars PROVE CancelInv'
    OBVIOUS
  <1>1. Fine' /\ faults' \in 0..MaxFaults
    BY FineNext, FaultsNext DEF CancelInv
  <1>2. ASSUME tx'.doing = "cancel", NEW r \in DOMAIN tx'.seen
        PROVE  \/ run'[r].status \in Settled \cup {tx'.seen[r]}
               \/ tx'.seen[r] = "QUEUED" /\ run'[r].status = "RUNNING"
    <2>1. CASE \E S : tx'.seen = [q \in S |-> run[q].status] /\ UNCHANGED run
      BY <1>2, <2>1
    <2>2. CASE tx' = tx
      <3>1. r \in Runs
        BY <1>2, <2>2 DEF IInv, TxOK
      <3>2. \/ run[r].status \in Settled \cup {tx.seen[r]}
            \/ tx.seen[r] = "QUEUED" /\ run[r].status = "RUNNING"
        BY <1>2, <2>2 DEF CancelInv, Is
      <3>3. tx' # Idle
        BY <1>2 DEF Idle
      <3>4. Changes(run[r], run'[r])
        BY <3>1, <3>3, RowsChange DEF Quiet, CreateCommit, DecideCommit
      <3>5. RowFine(run[r]) /\ run[r] \in RowStates
        BY <3>1 DEF CancelInv, Fine, IInv
      <3>6. \/ run'[r].status \in Settled \cup {run[r].status}
            \/ run[r].status = "QUEUED" /\ run'[r].status = "RUNNING"
        BY <3>3, <3>4, <3>5, ChangesStatus
      <3>7. run[r].status \in Settled => run'[r] = run[r]
        BY <3>1, Steps DEF StepOK, RunStep, RowStep
      <3> QED
        BY <2>2, <3>2, <3>6, <3>7 DEF Settled
    <2> QED
      BY <1>2, <2>1, <2>2, CancelBegins
  <1> QED
    BY <1>1, <1>2 DEF CancelInv, Is

LEMMA InitCancel == Init => CancelInv
PROOF
  <1> SUFFICES ASSUME Init PROVE CancelInv
    OBVIOUS
  <1>1. "none" \in Statuses /\ "none" \in Codes
    BY DEF Statuses, Codes
  <1>2. Fine
    BY <1>1, RowFineTo DEF NoRow, Init, Fine
  <1> QED
    BY <1>2, RunsAssumption DEF Init, CancelInv, Idle

(* cancelRunInTransaction: a run that was read as unsettled has settled when a cancellation  *)
(* commits, or its worker is told, also if it claimed the run between the read and the       *)
(* writes; for any number of runs and for the deletion of the whole conversation.            *)
THEOREM CancelHeededHolds == Spec => CancelHeeded
PROOF
  <1>1. Init => CancelInv
    BY InitCancel
  <1>2. ASSUME IInv, CancelInv, [Next]_vars, tx.doing = "cancel", tx' = Idle, faults' = faults,
               NEW r \in DOMAIN tx.seen
        PROVE  run'[r].status \in Settled \/ run'[r].cancelRequested
    <2>1. CancelCommit
      BY <1>2, CancelEnds DEF Fault, CancelInv
    <2> DEFINE idle == {q \in DOMAIN tx.seen : Unread(q)}
               signalled == {q \in DOMAIN tx.seen \ idle : Is(q, "RUNNING")}
    <2>2. Cancel(idle, signalled) /\ r \in Runs /\ tx.seen[r] \in Unsettled
      BY <1>2, <2>1 DEF CancelCommit, IInv, TxOK
    <2>3. r \in idle \/ r \in signalled \/ run[r].status \in Settled
      BY <1>2, <2>2 DEF CancelInv, Unread, Is
    <2>4. r \in idle => r \notin signalled
      OBVIOUS
    <2> HIDE DEF idle, signalled
    <2>5. CASE r \in idle
      <3>1. \E code : run'[r] = To(run[r], "CANCELLED", code)
        BY <2>2, <2>4, <2>5 DEF Cancel
      <3> QED
        BY <3>1 DEF To, Row, Settled
    <2>6. CASE r \in signalled
      <3>1. run'[r] = [run[r] EXCEPT !.cancelRequested = TRUE]
        BY <2>2, <2>4, <2>6 DEF Cancel
      <3>2. run[r] \in RowStates
        BY <1>2, <2>2 DEF IInv
      <3> QED
        BY <3>1, <3>2 DEF RowStates
    <2>7. CASE run[r].status \in Settled
      BY <1>2, <2>2, <2>7, Steps DEF StepOK, RunStep, RowStep
    <2> QED
      BY <2>3, <2>5, <2>6, <2>7
  <1>3. IInv /\ CancelInv /\ [Next]_vars =>
            [tx.doing = "cancel" /\ tx' = Idle /\ faults' = faults =>
                \A r \in DOMAIN tx.seen : run'[r].status \in Settled \/ run'[r].cancelRequested]_vars
    BY <1>2
  <1> QED
    BY <1>1, <1>3, CancelNext, Invariant, PTL DEF Spec, CancelHeeded

-----------------------------------------------------------------------------
(* What an aborted continuation tells.  From the moment the result of the  *)
(* approved call is produced it is on its way to the history, as long as   *)
(* the run is the worker's; and the events go in with the status.          *)

BadCodes == {"cancelled", "worker_shutdown"}

Promised(r) ==
    worker[r].at = "loop" /\ worker[r].told /\ run[r].approved /\ Is(r, "RUNNING") =>
        worker[r].pending \/ "result" \in EventsOf(r)

AbortInv ==
    /\ AbortTellsOutcome
    /\ \A r \in Runs : Promised(r) /\ (worker[r].at \in {"none", "init"} => ~worker[r].told)

CodeKept(r) ==
    run'[r].code \in BadCodes =>
        \/ run'[r].code = run[r].code
        \/ worker'[r].at = "none"
        \/ run'[r].approved => "result" \in EventsOf(r)'

WorkerKept(r) ==
    /\ Promised(r)'
    /\ worker'[r].at \in {"none", "init"} => ~worker'[r].told
    /\ worker'[r].at # "none" => worker[r].at # "none" \/ run'[r].code = "none"

LEMMA EventsGrow ==
    ASSUME log \in Seq(Events), NEW s \in Seq(Events), log' = log \o s, NEW r
    PROVE  /\ EventsOf(r) \subseteq EventsOf(r)'
           /\ \A i \in DOMAIN s : s[i].run = r => s[i].what \in EventsOf(r)'
PROOF
  <1>1. /\ DOMAIN log = 1..Len(log) /\ DOMAIN s = 1..Len(s) /\ DOMAIN log' = 1..Len(log) + Len(s)
        /\ Len(log) \in Nat /\ Len(s) \in Nat
    OBVIOUS
  <1>2. ASSUME NEW i \in DOMAIN log PROVE i \in DOMAIN log' /\ log'[i] = log[i]
    BY <1>1
  <1>3. ASSUME NEW i \in DOMAIN s PROVE Len(log) + i \in DOMAIN log' /\ log'[Len(log) + i] = s[i]
    BY <1>1
  <1>4. EventsOf(r) \subseteq EventsOf(r)'
    BY <1>2 DEF EventsOf
  <1>5. ASSUME NEW i \in DOMAIN s, s[i].run = r PROVE s[i].what \in EventsOf(r)'
    BY <1>3, <1>5 DEF EventsOf
  <1> QED
    BY <1>4, <1>5

LEMMA LogNext == ASSUME IInv, OrderInv, [Next]_vars PROVE \E s \in Seq(Events) : log' = log \o s
PROOF
  <1>1. CASE Quiet
    <2>1. CASE log' = log
      <3>1. <<>> \in Seq(Events) /\ log' = log \o <<>>
        BY <2>1 DEF OrderInv
      <3> QED
        BY <3>1
    <2>2. CASE \E r \in Runs : Last(r) /\ Extends(r)
      BY <2>2 DEF Extends
    <2> QED
      BY <1>1, <2>1, <2>2, QuietLog
  <1>2. ASSUME NEW r \in Runs, NEW what \in {"input", "decision"}, log' = Append(log, Event(r, what))
        PROVE  \E s \in Seq(Events) : log' = log \o s
    <2>1. <<Event(r, what)>> \in Seq(Events) /\ log' = log \o <<Event(r, what)>>
      <3>1. Event(r, what) \in Events
        BY DEF Event, Events
      <3> QED
        BY <1>2, <3>1 DEF OrderInv
    <2> QED
      BY <2>1
  <1>3. CASE \E n \in Fresh : Create(Failed(tx.seen), n)
    BY <1>2, <1>3 DEF Create, Fresh
  <1>4. CASE DecideCommit /\ \E n \in Fresh : Decide(tx.run, n)
    BY <1>2, <1>4 DEF Decide, DecideCommit, IInv, TxOK
  <1> QED
    BY <1>1, <1>3, <1>4, RowsChange

LEMMA ApprovedKept ==
    ASSUME IInv, Fine, [Next]_vars, NEW r \in Created
    PROVE  run'[r].approved = run[r].approved
PROOF
  <1>1. r \in Runs /\ r \notin Fresh
    BY DEF Created, Fresh
  <1>2. Changes(run[r], run'[r])
    BY <1>1, RowsChange DEF Quiet, Made
  <1> QED
    BY <1>1, <1>2, ChangesFine DEF Fine

LEMMA AbortKept ==
    ASSUME IInv, KeyInv, OrderInv, AbortInv, [Next]_vars,
           \A r \in Runs : CodeKept(r) /\ WorkerKept(r)
    PROVE  AbortInv'
PROOF
  <1>1. ASSUME NEW r \in Runs, run'[r].approved, worker'[r].at # "none", run'[r].code \in BadCodes
        PROVE  "result" \in EventsOf(r)'
    <2>1. CASE run'[r].code = run[r].code
      <3>1. run[r].status \in Settled /\ worker[r].at # "none"
        BY <1>1, <2>1 DEF OrderInv, Fine, RowFine, BadCodes, Settled, WorkerKept
      <3>2. run'[r] = run[r]
        BY <3>1, Steps DEF StepOK, RunStep, RowStep
      <3>3. "result" \in EventsOf(r)
        BY <1>1, <2>1, <3>1, <3>2 DEF AbortInv, AbortTellsOutcome, BadCodes
      <3> QED
        BY <3>3, LogNext, EventsGrow DEF OrderInv
    <2> QED
      BY <1>1, <2>1 DEF CodeKept
  <1>2. AbortTellsOutcome'
    BY <1>1 DEF AbortTellsOutcome, BadCodes
  <1> QED
    BY <1>2 DEF AbortInv, WorkerKept

(* A worker that the step leaves alone.                                    *)
LEMMA SameWorkerKept ==
    ASSUME IInv, KeyInv, OrderInv, AbortInv, [Next]_vars, NEW r \in Runs, worker'[r] = worker[r]
    PROVE  WorkerKept(r)
PROOF
  <1>1. ASSUME worker[r].at = "loop", worker[r].told, run'[r].approved, run'[r].status = "RUNNING"
        PROVE  worker[r].pending \/ "result" \in EventsOf(r)'
    <2>1. run[r].status \notin {"none", "QUEUED"} /\ r \in Created
      BY <1>1 DEF KeyInv, Created, Is
    <2>2. run[r].status = "RUNNING"
      BY <1>1, <2>1, Steps DEF StepOK, RunStep, RowStep
    <2>3. run[r].approved
      BY <1>1, <2>1, ApprovedKept DEF OrderInv
    <2>4. worker[r].pending \/ "result" \in EventsOf(r)
      BY <1>1, <2>2, <2>3 DEF AbortInv, Promised, Is
    <2> QED
      BY <2>4, LogNext, EventsGrow DEF OrderInv
  <1>2. Promised(r)'
    BY <1>1 DEF Promised, Is
  <1> QED
    BY <1>2 DEF WorkerKept, AbortInv

(* The step of one worker, by what becomes of it.                          *)
LEMMA OneKept ==
    ASSUME IInv, KeyInv, OrderInv, AbortInv, [Next]_vars, \A q \in Runs : CodeKept(q),
           NEW r \in Runs, NEW w, worker' = [worker EXCEPT ![r] = w],
           w.at \in {"none", "init"} => ~w.told,
           w.at # "none" => worker[r].at # "none" \/ run'[r].code = "none",
           w.at = "loop" /\ w.told /\ run'[r].approved /\ run'[r].status = "RUNNING" =>
               w.pending \/ "result" \in EventsOf(r)'
    PROVE  AbortInv'
PROOF
  <1>1. worker'[r] = w /\ \A q \in Runs \ {r} : worker'[q] = worker[q]
    BY DEF KeyInv
  <1>2. WorkerKept(r)
    <2>1. Promised(r)'
      BY <1>1 DEF Promised, Is
    <2> QED
      BY <1>1, <2>1 DEF WorkerKept
  <1>3. \A q \in Runs \ {r} : WorkerKept(q)
    BY <1>1, SameWorkerKept
  <1> QED
    BY <1>2, <1>3, AbortKept

LEMMA NoneKept ==
    ASSUME IInv, KeyInv, OrderInv, AbortInv, [Next]_vars, \A q \in Runs : CodeKept(q), UNCHANGED worker
    PROVE  AbortInv'
PROOF
  <1>1. \A q \in Runs : WorkerKept(q)
    BY SameWorkerKept
  <1> QED
    BY <1>1, AbortKept

(* Almost every step gives no run such a code.                             *)
Tame == \A q \in Runs : run'[q].code \in BadCodes => run'[q].code = run[q].code

LEMMA TameKept == ASSUME Tame PROVE \A q \in Runs : CodeKept(q)
PROOF BY DEF Tame, CodeKept

LEMMA TameStill == ASSUME UNCHANGED run PROVE Tame
PROOF BY DEF Tame

LEMMA TameMove ==
    ASSUME NEW r \in Runs, NEW status, NEW code, code \notin BadCodes, run' = Move({r}, status, code)
    PROVE  Tame
PROOF
  <1>1. run'[r].code = code
    BY DEF Move, To, Row
  <1>2. \A q \in Runs \ {r} : run'[q] = run[q]
    BY DEF Move
  <1> QED
    BY <1>1, <1>2 DEF Tame

LEMMA TameFailed ==
    ASSUME NEW seen, SeenOK(seen, run), NEW r \in Runs
    PROVE  Failed(seen)[r] = run[r] \/ Failed(seen)[r].code \notin BadCodes
PROOF
  <1> SUFFICES ASSUME \E s \in Unmoved(seen) : s.run = r PROVE Failed(seen)[r].code \notin BadCodes
    BY DEF Failed
  <1> DEFINE c == CHOOSE s \in Unmoved(seen) : s.run = r
  <1>1. c \in Unmoved(seen)
    OBVIOUS
  <1>2. Failed(seen)[r] = To(run[r], "FAILED", c.code)
    BY DEF Failed
  <1> HIDE DEF c
  <1>3. c.code \notin BadCodes
    BY <1>1 DEF Unmoved, SeenOK, SeenStates, BadCodes
  <1> QED
    BY <1>2, <1>3 DEF To, Row

(* Claims, heartbeats and what the worker does with its events.            *)
LEMMA LoopAbort ==
    ASSUME IInv, KeyInv, OrderInv, AbortInv, [Next]_vars, NEW r \in Runs,
           \/ Heartbeat(r) \/ WorkerShutdown(r) \/ Produce(r) \/ FlushCheck(r) \/ FlushAppend(r)
    PROVE  AbortInv'
PROOF
  <1>1. worker[r] \in Workers /\ run[r] \in RowStates
    BY WorkerType DEF IInv
  <1>2. ASSUME worker[r].at = "loop"
        PROVE  r \in Created /\ run'[r].approved = run[r].approved
    <2>1. r \in Created
      BY <1>2 DEF KeyInv, Created, Is
    <2> QED
      BY <2>1, ApprovedKept DEF OrderInv
  <1>3. EventsOf(r) \subseteq EventsOf(r)'
    BY LogNext, EventsGrow DEF OrderInv
  <1>4. CASE Heartbeat(r)
    <2>1. PICK abort : worker' = [worker EXCEPT ![r].abort = abort]
      BY <1>4 DEF Heartbeat
    <2> DEFINE w == [worker[r] EXCEPT !.abort = abort]
    <2>2. worker' = [worker EXCEPT ![r] = w]
      BY <2>1
    <2>3. w.at = "loop" /\ w.told = worker[r].told /\ w.pending = worker[r].pending /\ worker[r].at = "loop"
      BY <1>1, <1>4 DEF Workers, Heartbeat
    <2> HIDE DEF w
    <2>4. run'[r].code = run[r].code /\ run'[r].status = run[r].status /\ \A q \in Runs \ {r} : run'[q] = run[q]
      BY <1>1, <1>4 DEF Heartbeat, RowStates, IInv
    <2>5. Tame
      BY <2>4 DEF Tame
    <2>6. worker[r].told /\ run[r].approved /\ run[r].status = "RUNNING" =>
              worker[r].pending \/ "result" \in EventsOf(r)
      BY <2>3 DEF AbortInv, Promised, Is
    <2> QED
      BY <1>2, <1>3, <2>2, <2>3, <2>4, <2>5, <2>6, TameKept, OneKept
  <1>5. CASE WorkerShutdown(r)
    <2> DEFINE w == [worker[r] EXCEPT !.abort = "worker_shutdown"]
    <2>1. worker' = [worker EXCEPT ![r] = w] /\ UNCHANGED run
      BY <1>5 DEF WorkerShutdown, conversation
    <2>2. w.at = "loop" /\ w.told = worker[r].told /\ w.pending = worker[r].pending /\ worker[r].at = "loop"
      BY <1>1, <1>5 DEF Workers, WorkerShutdown
    <2> HIDE DEF w
    <2>3. worker[r].told /\ run[r].approved /\ run[r].status = "RUNNING" =>
              worker[r].pending \/ "result" \in EventsOf(r)
      BY <2>2 DEF AbortInv, Promised, Is
    <2> QED
      BY <1>2, <1>3, <2>1, <2>2, <2>3, TameStill, TameKept, OneKept
  <1>6. CASE Produce(r)
    <2> DEFINE w == [worker[r] EXCEPT !.pending = TRUE, !.told = run[r].approved]
    <2>1. worker' = [worker EXCEPT ![r] = w] /\ UNCHANGED run
      BY <1>6 DEF Produce, conversation
    <2>2. w.at = "loop" /\ w.pending /\ worker[r].at = "loop"
      BY <1>1, <1>6 DEF Workers, Produce, InLoop
    <2> HIDE DEF w
    <2> QED
      BY <2>1, <2>2, TameStill, TameKept, OneKept
  <1>7. CASE FlushCheck(r)
    <2>1. CASE Is(r, "RUNNING")
      BY <1>7, <2>1, TameStill, TameKept, NoneKept DEF FlushCheck
    <2>2. CASE ~Is(r, "RUNNING")
      <3> DEFINE w == [worker[r] EXCEPT !.pending = FALSE]
      <3>1. worker' = [worker EXCEPT ![r] = w] /\ UNCHANGED run
        BY <1>7, <2>2 DEF FlushCheck
      <3>2. w.at = "loop" /\ worker[r].at = "loop"
        BY <1>1, <1>7 DEF Workers, FlushCheck, InLoop
      <3>3. run'[r].status # "RUNNING"
        BY <2>2, <3>1 DEF Is
      <3> HIDE DEF w
      <3> QED
        BY <3>1, <3>2, <3>3, TameStill, TameKept, OneKept
    <2> QED
      BY <2>1, <2>2
  <1>8. CASE FlushAppend(r)
    <2> DEFINE w == [worker[r] EXCEPT !.pending = FALSE]
    <2>1. worker' = [worker EXCEPT ![r] = w] /\ UNCHANGED run /\ log' = log \o Pending(r)
      BY <1>8 DEF FlushAppend
    <2>2. w.at = worker[r].at /\ w.told = worker[r].told
      BY <1>1 DEF Workers
    <2> HIDE DEF w
    <2>3. ASSUME worker[r].at = "loop", worker[r].told, run[r].approved, run[r].status = "RUNNING"
          PROVE  "result" \in EventsOf(r)'
      <3>1. CASE "result" \in EventsOf(r)
        BY <1>3, <3>1
      <3>2. CASE worker[r].pending
        <4>1. Pending(r) = <<Event(r, "result")>>
          BY <2>3, <3>2 DEF Pending, Unit
        <4>2. Pending(r) \in Seq(Events) /\ 1 \in DOMAIN Pending(r)
              /\ Pending(r)[1].run = r /\ Pending(r)[1].what = "result"
          BY <4>1, PendingType DEF Event
        <4> QED
          BY <2>1, <4>2, EventsGrow DEF OrderInv
      <3> QED
        BY <2>3, <3>1, <3>2 DEF AbortInv, Promised, Is
    <2>4. worker[r].at \in {"none", "init"} => ~worker[r].told
      BY DEF AbortInv
    <2>5. w.at # "none" => worker[r].at # "none"
      BY <2>2
    <2> QED
      BY <2>1, <2>2, <2>3, <2>4, <2>5, TameStill, TameKept, OneKept
  <1> QED
    BY <1>4, <1>5, <1>6, <1>7, <1>8

(* A worker that leaves the loop has nothing more to keep.                 *)
LEMMA LeaverKept ==
    ASSUME IInv, KeyInv, OrderInv, AbortInv, [Next]_vars, \A q \in Runs : CodeKept(q), NEW r \in Runs,
           NEW w, worker' = [worker EXCEPT ![r] = w], worker[r].at # "none",
           w.at \in {"cleanup", "clear", "catch", "gone"}
    PROVE  AbortInv'
PROOF BY OneKept

(* The end of a run that was told to stop: as such only if the result of   *)
(* an approved call is in the history or goes in now.                      *)
LEMMA FinishKept ==
    ASSUME IInv, KeyInv, OrderInv, AbortInv, [Next]_vars, NEW r \in Runs, worker[r].at = "loop",
           NEW status, NEW code, NEW last \in {<<>>, <<Event(r, "interrupt")>>},
           Finish(r, status, code, last),
           code \in BadCodes => ~run[r].approved \/ worker[r].told
    PROVE  AbortInv'
PROOF
  <1>1. worker[r] \in Workers /\ run[r] \in RowStates
    BY WorkerType DEF IInv
  <1> DEFINE w == [worker[r] EXCEPT !.at = "cleanup", !.pending = FALSE]
  <1>2. worker' = [worker EXCEPT ![r] = w]
    BY DEF Finish
  <1>3. w.at = "cleanup"
    BY <1>1 DEF Workers
  <1> HIDE DEF w
  <1>4. CASE ~Is(r, "RUNNING")
    BY <1>2, <1>3, <1>4, TameStill, TameKept, LeaverKept DEF Finish
  <1>5. CASE Is(r, "RUNNING")
    <2>1. run'[r].approved = run[r].approved /\ \A q \in Runs \ {r} : run'[q] = run[q]
      BY <1>5 DEF Finish, Move, To, Row
    <2>2. run'[r].code = code
      BY <1>5 DEF Finish, Move, To, Row
    <2>3. ASSUME code \in BadCodes, run[r].approved PROVE "result" \in EventsOf(r)'
      <3>1. worker[r].pending \/ "result" \in EventsOf(r)
        BY <1>5, <2>3 DEF AbortInv, Promised
      <3>2. CASE "result" \in EventsOf(r)
        BY <3>2, LogNext, EventsGrow DEF OrderInv
      <3>3. CASE worker[r].pending
        <4> DEFINE p == <<Event(r, "result")>>
        <4>1. Pending(r) = p /\ log' = log \o Pending(r) \o last
          BY <1>5, <2>3, <3>3 DEF Finish, Pending, Unit
        <4>2. p \in Seq(Events) /\ last \in Seq(Events) /\ log \in Seq(Events)
          <5>1. Event(r, "result") \in Events /\ Event(r, "interrupt") \in Events
            BY DEF Event, Events
          <5>2. p \in Seq(Events)
            BY <5>1
          <5>3. last \in Seq(Events)
            <6>1. CASE last = <<>>
              BY <6>1
            <6>2. CASE last = <<Event(r, "interrupt")>>
              BY <5>1, <6>2
            <6> QED
              BY <6>1, <6>2
          <5> QED
            BY <5>2, <5>3 DEF OrderInv
        <4>3. p[1].run = r /\ p[1].what = "result" /\ Len(p) = 1
          BY DEF Event
        <4> HIDE DEF p
        <4> DEFINE s == p \o last
        <4>4. s \in Seq(Events) /\ log' = log \o s /\ 1 \in DOMAIN s /\ s[1] = p[1]
          <5>1. log' = log \o p \o last
            BY <4>1
          <5>2. s \in Seq(Events) /\ log' = log \o s
            BY <4>2, <5>1
          <5>3. Len(last) \in Nat /\ Len(s) = Len(p) + Len(last) /\ DOMAIN s = 1..Len(s)
            BY <4>2
          <5>4. 1 \in DOMAIN s /\ s[1] = p[1]
            BY <4>2, <4>3, <5>3
          <5> QED
            BY <5>2, <5>4
        <4> HIDE DEF s
        <4> QED
          BY <4>2, <4>3, <4>4, EventsGrow
      <3> QED
        BY <3>1, <3>2, <3>3
    <2>4. \A q \in Runs : CodeKept(q)
      BY <2>1, <2>2, <2>3 DEF CodeKept
    <2> QED
      BY <1>2, <1>3, <2>4, LeaverKept
  <1> QED
    BY <1>4, <1>5

(* The worker leaves the loop, or later the run.                           *)
LEMMA EndAbort ==
    ASSUME IInv, KeyInv, OrderInv, AbortInv, [Next]_vars, NEW r \in Runs,
           Complete(r) \/ Aborted(r) \/ LoopFails(r)
    PROVE  AbortInv'
PROOF
  <1>1. worker[r].at = "loop"
    BY DEF Complete, Aborted, LoopFails, InLoop
  <1>2. ASSUME NEW status, NEW code, NEW last \in {<<>>, <<Event(r, "interrupt")>>},
               Finish(r, status, code, last),
               code \in BadCodes => ~run[r].approved \/ worker[r].told
        PROVE  AbortInv'
    BY <1>1, <1>2, FinishKept
  <1>3. "none" \notin BadCodes /\ "outcome_unknown" \notin BadCodes /\ "other" \notin BadCodes
    BY DEF BadCodes
  <1>4. ASSUME NEW otherwise, FailureCode(r, otherwise) \in BadCodes
        PROVE  ~run[r].approved \/ worker[r].told
    BY <1>3, <1>4 DEF FailureCode
  <1>5. CASE Complete(r)
    <2>1. CASE Finish(r, "SUCCEEDED", "none", <<>>)
      BY <1>2, <1>3, <2>1
    <2>2. CASE Finish(r, "AWAITING_APPROVAL", "none", <<Event(r, "interrupt")>>)
      BY <1>2, <1>3, <2>2
    <2> QED
      BY <1>5, <2>1, <2>2 DEF Complete
  <1>6. CASE LoopFails(r)
    BY <1>2, <1>4, <1>6 DEF LoopFails
  <1>7. CASE Aborted(r)
    <2>1. CASE worker[r].abort = "fenced"
               /\ worker' = [worker EXCEPT ![r].at = "cleanup", ![r].pending = FALSE] /\ UNCHANGED conversation
      <3> DEFINE w == [worker[r] EXCEPT !.at = "cleanup", !.pending = FALSE]
      <3>1. worker' = [worker EXCEPT ![r] = w] /\ UNCHANGED run
        BY <2>1 DEF conversation
      <3>2. w.at = "cleanup"
        BY WorkerType DEF Workers
      <3> HIDE DEF w
      <3> QED
        BY <1>1, <3>1, <3>2, TameStill, TameKept, LeaverKept
    <2>2. CASE FailureCode(r, "cancelled") = "cancelled" /\ Finish(r, "CANCELLED", "cancelled", <<>>)
      <3>1. "cancelled" \in BadCodes
        BY DEF BadCodes
      <3> QED
        BY <1>2, <1>4, <2>2, <3>1
    <2>3. CASE Finish(r, "FAILED", "outcome_unknown", <<>>)
      BY <1>2, <1>3, <2>3
    <2>4. CASE Finish(r, "FAILED", FailureCode(r, "worker_shutdown"), <<>>)
      BY <1>2, <1>4, <2>4
    <2> QED
      BY <1>7, <2>1, <2>2, <2>3, <2>4 DEF Aborted
  <1> QED
    BY <1>5, <1>6, <1>7

LEMMA LeaveAbort ==
    ASSUME IInv, KeyInv, OrderInv, AbortInv, [Next]_vars, NEW r \in Runs,
           \/ InitFails(r) \/ LastWriteFails(r) \/ DeleteKey(r) \/ ClearPointer(r)
           \/ CleanupFails(r) \/ Catch(r) \/ WorkerDies(r)
    PROVE  AbortInv'
PROOF
  <1>1. worker[r] \in Workers
    BY WorkerType
  <1>2. worker[r].at # "none"
    BY DEF InitFails, LastWriteFails, DeleteKey, ClearPointer, CleanupFails, Catch, WorkerDies
  <1>3. ASSUME Tame, NEW w, worker' = [worker EXCEPT ![r] = w],
               w.at \in {"cleanup", "clear", "catch", "gone"}
        PROVE  AbortInv'
    BY <1>2, <1>3, TameKept, LeaverKept
  <1>4. \A at : [worker[r] EXCEPT !.at = at].at = at
    BY <1>1 DEF Workers
  <1>5. ASSUME NEW at \in {"clear", "catch"}, UNCHANGED run, worker' = [worker EXCEPT ![r].at = at]
        PROVE  AbortInv'
    <2> DEFINE w == [worker[r] EXCEPT !.at = at]
    <2>1. worker' = [worker EXCEPT ![r] = w] /\ w.at = at
      BY <1>4, <1>5
    <2> HIDE DEF w
    <2> QED
      BY <1>3, <1>5, <2>1, TameStill
  <1>6. ASSUME Tame, worker' = [worker EXCEPT ![r] = Gone] PROVE AbortInv'
    BY <1>3, <1>6, GoneType
  <1>7. CASE InitFails(r) \/ DeleteKey(r) \/ ClearPointer(r) \/ CleanupFails(r) \/ WorkerDies(r)
    <2>1. UNCHANGED run
      BY <1>7 DEF InitFails, DeleteKey, ClearPointer, CleanupFails, WorkerDies, conversation
    <2>2. \/ \E at \in {"clear", "catch"} : worker' = [worker EXCEPT ![r].at = at]
          \/ worker' = [worker EXCEPT ![r] = Gone]
      BY <1>7 DEF InitFails, DeleteKey, ClearPointer, CleanupFails, WorkerDies, AfterCleanup, At, Leaves
    <2> QED
      BY <1>5, <1>6, <2>1, <2>2, TameStill
  <1>8. CASE LastWriteFails(r)
    <2> DEFINE thrown == worker[r].abort = "none"
               w == [worker[r] EXCEPT !.at = "cleanup", !.pending = FALSE, !.thrown = thrown]
    <2>1. worker' = [worker EXCEPT ![r] = w] /\ UNCHANGED run
      BY <1>8 DEF LastWriteFails, conversation
    <2>2. w.at = "cleanup"
      BY <1>1 DEF Workers
    <2> HIDE DEF w
    <2> QED
      BY <1>3, <2>1, <2>2, TameStill
  <1>9. CASE Catch(r)
    <2> DEFINE w == [worker[r] EXCEPT !.at = "cleanup", !.thrown = FALSE]
    <2>1. worker' = [worker EXCEPT ![r] = w] \/ worker' = [worker EXCEPT ![r] = Gone]
      BY <1>9 DEF Catch, AfterCatch
    <2>2. w.at = "cleanup"
      BY <1>1 DEF Workers
    <2> HIDE DEF w
    <2>3. CatchCodes(r) \cap BadCodes = {}
      BY DEF CatchCodes, FailureCode, BadCodes
    <2>4. Tame
      BY <1>9, <2>3, TameMove, TameStill DEF Catch
    <2> QED
      BY <1>3, <1>6, <2>1, <2>2, <2>4
  <1> QED
    BY <1>7, <1>8, <1>9

(* The worker that claims a run, and mints its key, has told nothing yet.  *)
LEMMA EnterAbort ==
    ASSUME IInv, KeyInv, OrderInv, AbortInv, [Next]_vars, NEW r \in Runs, Claim(r) \/ MintKey(r)
    PROVE  AbortInv'
PROOF
  <1>1. worker[r] \in Workers
    BY WorkerType
  <1>2. worker[r].at \in {"none", "init"} /\ ~worker[r].told
    BY DEF Claim, MintKey, KeyInv, Is, AbortInv
  <1>3. PICK at \in {"init", "loop"} : worker' = [worker EXCEPT ![r].at = at]
    BY DEF Claim, MintKey, At
  <1> DEFINE w == [worker[r] EXCEPT !.at = at]
  <1>4. worker' = [worker EXCEPT ![r] = w] /\ w.at # "none" /\ ~w.told
    <2>1. w.at = at /\ w.told = worker[r].told
      BY <1>1 DEF Workers
    <2>2. worker' = [worker EXCEPT ![r] = w]
      BY <1>3
    <2> QED
      BY <1>2, <2>1, <2>2
  <1> HIDE DEF w
  <1>5. Tame
    <2>1. CASE Claim(r)
      BY <2>1, TameMove DEF Claim, BadCodes
    <2>2. CASE MintKey(r)
      BY <2>2, TameStill DEF MintKey, conversation
    <2> QED
      BY <2>1, <2>2
  <1>6. Claim(r) => run'[r].code = "none"
    BY DEF Claim, Move, To, Row
  <1>7. MintKey(r) => worker[r].at # "none"
    BY DEF MintKey
  <1> QED
    BY <1>4, <1>5, <1>6, <1>7, TameKept, OneKept

(* The web and the readers: a run that is cancelled in the queue has no    *)
(* worker.                                                                 *)
LEMMA RequestAbort ==
    ASSUME IInv, KeyInv, OrderInv, AbortInv, [Next]_vars, Request PROVE AbortInv'
PROOF
  <1>1. UNCHANGED worker
    BY DEF Request, CreateBegin, CreateCommit, DecideCommit, CancelCommit, TransactionDies, Enqueue,
           AddThrows, EnqueueFailed, DecideBegin, CancelBegin, Begin, actors
  <1>2. "other" \notin BadCodes /\ "none" \notin BadCodes
    BY DEF BadCodes
  <1>3. CASE CreateCommit
    <2>1. SeenOK(tx.seen, run)
      BY <1>3 DEF CreateCommit, IInv, TxOK
    <2>2. UNCHANGED run => Tame
      BY TameStill
    <2>3. ASSUME NEW n \in Fresh, Create(Failed(tx.seen), n), NEW q \in Runs
          PROVE  run'[q].code = run[q].code \/ run'[q].code \notin BadCodes
      <3>1. run'[q] \in {Row("QUEUED", "none", FALSE), To(Failed(tx.seen)[q], "CANCELLED", "other"),
                         Failed(tx.seen)[q]}
        BY <2>3 DEF Create
      <3>2. Row("QUEUED", "none", FALSE).code = "none"
            /\ To(Failed(tx.seen)[q], "CANCELLED", "other").code = "other"
        BY DEF To, Row
      <3> QED
        BY <1>2, <2>1, <3>1, <3>2, TameFailed
    <2> QED
      BY <1>1, <1>3, <2>2, <2>3, TameKept, NoneKept DEF CreateCommit, Tame
  <1>4. CASE DecideCommit
    <2>1. tx.run \in Runs
      BY <1>4 DEF DecideCommit, IInv, TxOK
    <2>2. UNCHANGED run => Tame
      BY TameStill
    <2>3. run' = Move({tx.run}, "FAILED", "other") => Tame
      BY <1>2, <2>1, TameMove
    <2>4. ASSUME NEW n \in Fresh, Decide(tx.run, n) PROVE Tame
      <3>1. ASSUME NEW q \in Runs
            PROVE  run'[q] \in {Row("QUEUED", "none", tx.yes), To(run[q], "SUCCEEDED", "none"), run[q]}
        BY <2>1, <2>4 DEF Decide, IInv
      <3>2. Row("QUEUED", "none", tx.yes).code = "none" /\ \A row : To(row, "SUCCEEDED", "none").code = "none"
        BY DEF To, Row
      <3> QED
        BY <1>2, <3>1, <3>2 DEF Tame
    <2> QED
      BY <1>1, <1>4, <2>2, <2>3, <2>4, TameKept, NoneKept DEF DecideCommit
  <1>5. CASE CancelCommit
    <2> DEFINE idle == {r \in DOMAIN tx.seen : Unread(r)}
               signalled == {r \in DOMAIN tx.seen \ idle : Is(r, "RUNNING")}
    <2>1. Cancel(idle, signalled)
      BY <1>5 DEF CancelCommit
    <2> HIDE DEF idle, signalled
    <2>2. ASSUME NEW q \in Runs PROVE CodeKept(q)
      <3>1. CASE q \in idle /\ Is(q, "QUEUED")
        BY <1>1, <3>1 DEF KeyInv, Is, CodeKept
      <3>2. CASE q \in idle /\ ~Is(q, "QUEUED") /\ q \notin signalled
        <4>1. run'[q] = To(run[q], "CANCELLED", "other")
          BY <2>1, <3>2 DEF Cancel
        <4>2. run'[q].code = "other"
          BY <4>1 DEF To, Row
        <4> QED
          BY <1>2, <4>2 DEF CodeKept
      <3>3. CASE q \in signalled /\ q \notin idle
        <4>1. run'[q] = [run[q] EXCEPT !.cancelRequested = TRUE]
          BY <2>1, <3>3 DEF Cancel
        <4>2. run'[q].code = run[q].code
          BY <4>1 DEF IInv, RowStates
        <4> QED
          BY <4>2 DEF CodeKept
      <3>4. CASE q \notin idle /\ q \notin signalled
        BY <2>1, <3>4 DEF Cancel, CodeKept
      <3>5. q \in signalled => q \notin idle
        BY DEF signalled
      <3> QED
        BY <3>1, <3>2, <3>3, <3>4, <3>5
    <2> QED
      BY <1>1, <2>2, NoneKept
  <1>6. ASSUME NEW r \in Runs, EnqueueFailed(r) PROVE AbortInv'
    <2>1. Tame
      BY <1>2, <1>6, TameMove, TameStill DEF EnqueueFailed
    <2> QED
      BY <1>1, <2>1, TameKept, NoneKept
  <1>7. CASE UNCHANGED run
    BY <1>1, <1>7, TameStill, TameKept, NoneKept
  <1> QED
    BY <1>3, <1>4, <1>5, <1>6, <1>7
       DEF Request, CreateBegin, TransactionDies, Enqueue, AddThrows, DecideBegin, CancelBegin, Begin,
           conversation

LEMMA AbortNext == IInv /\ KeyInv /\ OrderInv /\ AbortInv /\ [Next]_vars => AbortInv'
PROOF
  <1> SUFFICES ASSUME IInv, KeyInv, OrderInv, AbortInv, [Next]_vars PROVE AbortInv'
    OBVIOUS
  <1>1. ASSUME NEW r \in Runs, Time(r) PROVE AbortInv'
    <2>1. UNCHANGED worker
      BY <1>1 DEF Time, HeartbeatAges, DeadlinePasses, actors
    <2>2. PICK age : run' = [run EXCEPT ![r] = [run[r] EXCEPT !.age = age]]
      BY <1>1 DEF Time, HeartbeatAges, DeadlinePasses
    <2>3. Tame
      BY <2>2 DEF Tame, IInv, RowStates
    <2> QED
      BY <2>1, <2>3, TameKept, NoneKept
  <1>2. ASSUME NEW r \in Runs, Work(r) PROVE AbortInv'
    <2>1. CASE JobStalls(r)
      <3>1. UNCHANGED worker /\ UNCHANGED run
        BY <2>1 DEF JobStalls, conversation
      <3> QED
        BY <3>1, TameStill, TameKept, NoneKept
    <2> QED
      BY <1>2, <2>1, LoopAbort, EndAbort, LeaveAbort, EnterAbort DEF Work, Loop
  <1>3. ASSUME NEW p \in Readers, Read(p) PROVE AbortInv'
    <2>1. UNCHANGED worker
      BY <1>3 DEF Read, ReadStale, WriteStale, CleanClear, CleanDelete, ClaimMiss
    <2>2. CASE WriteStale(p)
      <3>1. SeenOK(op[p].seen, run) /\ run' = Failed(op[p].seen)
        BY <2>2 DEF WriteStale, IInv, OpOK
      <3>2. Tame
        BY <3>1, TameFailed DEF Tame
      <3> QED
        BY <2>1, <3>2, TameKept, NoneKept
    <2>3. CASE UNCHANGED run
      BY <2>1, <2>3, TameStill, TameKept, NoneKept
    <2> QED
      BY <1>3, <2>2, <2>3 DEF Read, ReadStale, CleanClear, CleanDelete, ClaimMiss, conversation
  <1>4. CASE UNCHANGED vars
    <2>1. UNCHANGED worker /\ UNCHANGED run
      BY <1>4 DEF vars
    <2> QED
      BY <2>1, TameStill, TameKept, NoneKept
  <1> QED
    BY <1>1, <1>2, <1>3, <1>4, RequestAbort DEF Next

(* failureCodeAfterApproval: a run that continues an approved call ends as cancelled or shut *)
(* down only if the result of the call is in the history, whatever flushes were lost, refused*)
(* or still under way when it was aborted.                                                   *)
THEOREM AbortTellsOutcomeHolds == Spec => []AbortTellsOutcome
PROOF
  <1>1. Init => KeyInv /\ OrderInv /\ AbortInv
    <2> SUFFICES ASSUME Init PROVE KeyInv /\ OrderInv /\ AbortInv
      OBVIOUS
    <2>1. KeyInv
      BY InitKeys
    <2>2. OrderInv
      BY InitOrder
    <2>3. AbortInv
      BY DEF Init, AbortInv, AbortTellsOutcome, Promised, NoWorker
    <2> QED
      BY <2>1, <2>2, <2>3
  <1>2. AbortInv => AbortTellsOutcome
    BY DEF AbortInv
  <1> QED
    BY <1>1, <1>2, AbortNext, OrderNext, KeysPreserved, Invariant, PTL DEF Spec

-----------------------------------------------------------------------------
(* The rest of the types.                                                  *)

Jobs == {"none", "adding", "refused", "waiting"}

RestInv ==
    /\ deleted \in BOOLEAN
    /\ tx.doing = "cancel" => tx.deleting \in BOOLEAN
    /\ pointers \subseteq Runs
    /\ job \in [Runs -> Jobs]

LEMMA FlushRest ==
    ASSUME RestInv, NEW r, tx' = tx \/ tx' = Idle \/ tx' = Flushing(r)
    PROVE  tx'.doing = "cancel" => tx'.deleting \in BOOLEAN
PROOF BY DEF RestInv, Idle, Flushing

LEMMA BeginRest ==
    ASSUME RestInv, NEW what, Begin(what), what.doing = "cancel" => what.deleting \in BOOLEAN
    PROVE  RestInv'
PROOF BY DEF RestInv, Begin, access, actors

LEMMA WorkRest == ASSUME RestInv, NEW r \in Runs, Work(r) PROVE RestInv'
PROOF
  <1>1. CASE Claim(r) \/ WorkerDies(r) \/ JobStalls(r)
    <2>1. PICK state \in Jobs : job' = [job EXCEPT ![r] = state]
      BY <1>1 DEF Claim, WorkerDies, JobStalls, Jobs
    <2>2. UNCHANGED <<deleted, pointers>> /\ (tx' = tx \/ tx' = Idle)
      BY <1>1 DEF Claim, WorkerDies, JobStalls, conversation, access
    <2> QED
      BY <2>1, <2>2, FlushRest DEF RestInv
  <1>2. CASE InitFails(r) \/ MintKey(r) \/ DeleteKey(r) \/ ClearPointer(r) \/ CleanupFails(r) \/ Catch(r)
    <2>1. UNCHANGED <<tx, deleted, job>> /\ pointers' \subseteq pointers \cup {r}
      BY <1>2 DEF InitFails, MintKey, DeleteKey, ClearPointer, CleanupFails, Catch, AfterCatch,
                  conversation, access
    <2> QED
      BY <2>1, FlushRest DEF RestInv
  <1>3. CASE Loop(r)
    <2>1. UNCHANGED <<deleted, pointers, job>> /\ (tx' = tx \/ tx' = Idle \/ tx' = Flushing(r))
      BY <1>3 DEF Loop, Heartbeat, WorkerShutdown, Produce, FlushCheck, FlushAppend, Complete, Aborted,
                  LoopFails, LastWriteFails, Finish, conversation, access
    <2> QED
      BY <2>1, FlushRest DEF RestInv
  <1> QED
    BY <1>1, <1>2, <1>3 DEF Work

LEMMA RequestRest == ASSUME IInv, RestInv, Request PROVE RestInv'
PROOF
  <1>1. CASE CreateCommit
    <2>1. UNCHANGED <<deleted, pointers>> /\ tx' = Idle
      BY <1>1 DEF CreateCommit, access
    <2>2. job' = job \/ \E n \in Fresh : job' = [job EXCEPT ![n] = "adding"]
      BY <1>1 DEF CreateCommit, Create
    <2> QED
      BY <2>1, <2>2, FlushRest DEF RestInv, Fresh, Jobs
  <1>2. CASE DecideCommit
    <2>1. UNCHANGED <<deleted, pointers>> /\ tx' = Idle
      BY <1>2 DEF DecideCommit, access
    <2>2. job' = job \/ \E n \in Fresh : job' = [job EXCEPT ![n] = "adding"]
      BY <1>2 DEF DecideCommit, Decide
    <2> QED
      BY <2>1, <2>2, FlushRest DEF RestInv, Fresh, Jobs
  <1>3. CASE CancelCommit
    <2>1. /\ deleted' = (deleted \/ tx.deleting) /\ tx.doing = "cancel"
          /\ pointers' = pointers /\ tx' = Idle
      BY <1>3 DEF CancelCommit, access
    <2>2. PICK removed : job' = [r \in Runs |-> IF r \in removed THEN "none" ELSE job[r]]
      BY <1>3 DEF CancelCommit, Cancel
    <2>3. job' \in [Runs -> Jobs]
      BY <2>2 DEF RestInv, Jobs
    <2>4. deleted' \in BOOLEAN
      BY <2>1 DEF RestInv
    <2> QED
      BY <2>1, <2>3, <2>4, FlushRest DEF RestInv
  <1>4. CASE TransactionDies
    <2>1. UNCHANGED <<deleted, pointers, job>> /\ tx' = Idle
      BY <1>4 DEF TransactionDies, access, actors
    <2> QED
      BY <2>1, FlushRest DEF RestInv
  <1>5. ASSUME NEW r \in Runs, Enqueue(r) \/ AddThrows(r) \/ EnqueueFailed(r) PROVE RestInv'
    <2>1. UNCHANGED <<deleted, pointers, tx>>
      BY <1>5 DEF Enqueue, AddThrows, EnqueueFailed, conversation, access
    <2>2. PICK state \in Jobs : job' = [job EXCEPT ![r] = state]
      BY <1>5 DEF Enqueue, AddThrows, EnqueueFailed, Jobs
    <2> QED
      BY <2>1, <2>2, FlushRest DEF RestInv
  <1>6. CASE CreateBegin
    BY <1>6, BeginRest DEF CreateBegin
  <1>7. ASSUME NEW r \in Runs, NEW yes \in BOOLEAN, DecideBegin(r, yes) PROVE RestInv'
    BY <1>7, BeginRest DEF DecideBegin
  <1>8. ASSUME NEW S, NEW deleting \in BOOLEAN, CancelBegin(S, deleting) PROVE RestInv'
    <2> DEFINE what == [doing |-> "cancel", seen |-> [r \in S |-> run[r].status], deleting |-> deleting]
    <2>1. Begin(what) /\ what.deleting \in BOOLEAN
      BY <1>8 DEF CancelBegin
    <2> HIDE DEF what
    <2> QED
      BY <2>1, BeginRest
  <1> QED
    BY <1>1, <1>2, <1>3, <1>4, <1>5, <1>6, <1>7, <1>8 DEF Request

LEMMA RestNext == IInv /\ KeyInv /\ RestInv /\ [Next]_vars => RestInv'
PROOF
  <1> SUFFICES ASSUME IInv, KeyInv, RestInv, [Next]_vars PROVE RestInv'
    OBVIOUS
  <1>1. CASE (\E r \in Runs : Time(r)) \/ UNCHANGED vars
    <2>1. UNCHANGED <<tx, deleted, pointers, job>>
      BY <1>1 DEF Time, HeartbeatAges, DeadlinePasses, access, actors, vars
    <2> QED
      BY <2>1, FlushRest DEF RestInv
  <1>2. ASSUME NEW p \in Readers, Read(p) PROVE RestInv'
    <2>1. UNCHANGED <<tx, deleted>> /\ pointers' \subseteq pointers
      BY <1>2 DEF Read, ReadStale, WriteStale, CleanClear, CleanDelete, ClaimMiss, conversation, access
    <2>2. job' = job \/ \E r \in Runs : job' = [job EXCEPT ![r] = "none"]
      BY <1>2 DEF Read, ReadStale, WriteStale, CleanClear, CleanDelete, ClaimMiss
    <2> QED
      BY <2>1, <2>2, FlushRest DEF RestInv, Jobs
  <1> QED
    BY <1>1, <1>2, WorkRest, RequestRest DEF Next

(* The shape of rows, events, workers and jobs; and that heartbeats and cancellations are    *)
(* only on a running row, and error codes on a settled one.                                  *)
THEOREM Typing == Spec => []TypeOK
PROOF
  <1>1. Init => KeyInv /\ OrderInv /\ CancelInv /\ RestInv
    <2>1. ASSUME Init PROVE RestInv
      <3>1. tx.doing # "cancel"
        BY <2>1 DEF Init, Idle
      <3>2. job \in [Runs -> Jobs]
        BY <2>1 DEF Init, Jobs
      <3>3. deleted \in BOOLEAN /\ pointers \subseteq Runs
        BY <2>1 DEF Init
      <3> QED
        BY <3>1, <3>2, <3>3 DEF RestInv
    <2> QED
      BY <2>1, InitKeys, InitOrder, InitCancel
  <1>2. IInv /\ KeyInv /\ OrderInv /\ CancelInv /\ RestInv => TypeOK
    <2> SUFFICES ASSUME IInv, KeyInv, OrderInv, CancelInv, RestInv PROVE TypeOK
      OBVIOUS
    <2>1. run = [r \in Runs |-> run[r]] /\ \A r \in Runs : run[r] \in Rows
      BY DEF IInv, OrderInv, Fine, RowFine
    <2>2. run \in [Runs -> Rows]
      BY <2>1
    <2>3. ASSUME NEW r \in Runs
          PROVE  /\ ~Is(r, "RUNNING") => run[r].heartbeatAt = 0 /\ ~run[r].cancelRequested
                 /\ run[r].age = "stale" => Is(r, "RUNNING")
                 /\ run[r].code # "none" => run[r].status \in {"FAILED", "CANCELLED"}
      BY DEF OrderInv, Fine, RowFine, Is
    <2>4. keys \subseteq Runs
      BY DEF KeyInv, KeysAreNamed, RestInv
    <2> QED
      BY <2>2, <2>3, <2>4 DEF TypeOK, OrderInv, KeyInv, CancelInv, RestInv, Jobs
  <1> QED
    BY <1>1, <1>2, RestNext, CancelNext, OrderNext, KeysPreserved, Invariant, PTL DEF Spec
=============================================================================
