------------------------ MODULE AuditLogRelayProofs ------------------------
(***************************************************************************)
(* Proofs about AuditLogRelay, for any events, tasks, batch size and       *)
(* bounds: no event leaves the outbox before ClickHouse has it, only a     *)
(* batch that was rolled back after its insert is sent again, and a        *)
(* stopped task leaves no lease behind.                                    *)
(*                                                                         *)
(* Nothing in the argument of the first two is about the lease. The rows   *)
(* of two open transactions are disjoint and still staged; a row that is   *)
(* staged and not in a transaction that has sent it has no copy but undone *)
(* ones. The last, and the full types, follow from what a task knows of    *)
(* the lease at each of its steps (TasksInv).                              *)
(***************************************************************************)
EXTENDS AuditLogRelay, NumberSetsProofs, FiniteSetTheorems, TLAPS

InBatch == {"insert", "delete"}

Shape ==
    /\ staged \subseteq written /\ written \subseteq Rows
    /\ copies \in [Rows -> Nat] /\ undone \in [Rows -> Nat]
    /\ task \in [Tasks -> States]

Locks ==
    /\ \A t \in Tasks : task[t].open => task[t].at \in InBatch /\ task[t].claimed \subseteq staged
    /\ \A t, s \in Tasks : t # s /\ task[t].open /\ task[s].open =>
          task[t].claimed \cap task[s].claimed = {}

Inserted == \A t \in Tasks : At(t, "delete") => \A r \in Sent(t) : copies[r] > 0

(* A transaction that can still commit has sent r.                         *)
Sending(t, r) == task[t].open /\ task[t].at = "delete" /\ r \in Sent(t)

Counted ==
    \A r \in Rows :
        /\ copies[r] <= undone[r] + 1
        /\ (r \in staged \/ r \notin written) /\ (\A t \in Tasks : ~Sending(t, r)) =>
              copies[r] <= undone[r]

IInv == Shape /\ Locks /\ Inserted /\ NoRowLost /\ Counted

-----------------------------------------------------------------------------
LEMMA Counts ==
    ASSUME NEW count \in [Rows -> Nat], NEW S
    PROVE  /\ More(count, S) \in [Rows -> Nat]
           /\ \A r \in Rows : r \in S => More(count, S)[r] = count[r] + 1
           /\ \A r \in Rows : r \notin S => More(count, S)[r] = count[r]
PROOF BY DEF More

LEMMA NoFailures == 0 \in 0..HandoverAfter - 1
PROOF BY DEF HandoverAfter

LEMMA TaskType ==
    ASSUME Shape, NEW t \in Tasks
    PROVE  task[t] \in States /\ Sent(t) \subseteq Rows /\ Sent(t) \subseteq task[t].claimed
PROOF BY DEF Shape, States, Sent, Mappable

(* A task that is not in a batch has no transaction.                       *)
LEMMA ClosedOutside ==
    ASSUME IInv, NEW t \in Tasks, task[t].at \notin InBatch
    PROVE  task[t].open = FALSE
PROOF BY TaskType DEF IInv, Locks, States

-----------------------------------------------------------------------------
(* Steps of a task by what they do to the rows: nothing, before or outside *)
(* a batch.                                                                *)
LEMMA OutsideBatch ==
    ASSUME IInv, NEW t \in Tasks, NEW st \in States, Become(t, st), UNCHANGED rows,
           task[t].at \notin InBatch, st.at \notin InBatch, st.open = FALSE
    PROVE  IInv'
PROOF
  <1>1. Shape /\ UNCHANGED <<written, staged, copies, undone>>
    BY DEF IInv, rows
  <1>2. /\ task' = [task EXCEPT ![t] = st] /\ task'[t] = st
        /\ \A s \in Tasks \ {t} : task'[s] = task[s]
    BY <1>1 DEF Become, Shape
  <1>3. Shape'
    BY <1>1, <1>2 DEF Shape
  <1>4. Locks'
    BY <1>1, <1>2 DEF IInv, Locks
  <1>5. Inserted'
    BY <1>1, <1>2 DEF IInv, Inserted, At, Sent, InBatch
  <1>6. NoRowLost'
    BY <1>1 DEF IInv, NoRowLost
  <1>7. ASSUME NEW s \in Tasks, NEW r \in Rows PROVE Sending(s, r) <=> Sending(s, r)'
    BY <1>2 DEF Sending, Sent, InBatch
  <1>8. Counted'
    BY <1>1, <1>7 DEF IInv, Counted
  <1> QED
    BY <1>3, <1>4, <1>5, <1>6, <1>8 DEF IInv

(* Nothing, and the batch goes on.                                         *)
LEMMA SameBatch ==
    ASSUME IInv, NEW t \in Tasks, NEW st \in States, Become(t, st), UNCHANGED rows,
           st.at = task[t].at, st.open = task[t].open, st.claimed = task[t].claimed
    PROVE  IInv'
PROOF
  <1>1. Shape /\ UNCHANGED <<written, staged, copies, undone>>
    BY DEF IInv, rows
  <1>2. /\ task' = [task EXCEPT ![t] = st]
        /\ \A s \in Tasks : /\ task'[s].at = task[s].at /\ task'[s].open = task[s].open
                             /\ task'[s].claimed = task[s].claimed
    BY <1>1 DEF Become, Shape
  <1>3. Shape'
    BY <1>1, <1>2 DEF Shape
  <1>4. Locks' /\ Inserted' /\ NoRowLost'
    BY <1>1, <1>2 DEF IInv, Locks, Inserted, At, Sent, NoRowLost
  <1>5. Counted'
    BY <1>1, <1>2 DEF IInv, Counted, Sending, Sent
  <1> QED
    BY <1>3, <1>4, <1>5 DEF IInv

(* The batch ends without its transaction.                                 *)
LEMMA BatchRolledBack ==
    ASSUME IInv, NEW t \in Tasks, NEW st \in States, Become(t, st),
           st.at \notin InBatch, st.open = FALSE, RolledBack(t)
    PROVE  IInv'
PROOF
  <1>1. PICK in \in {{}, Sent(t)} :
            /\ At(t, "delete") => in = {}
            /\ copies' = More(copies, in)
            /\ undone' = More(undone, IF At(t, "delete") /\ task[t].open THEN Sent(t) ELSE in)
    BY DEF RolledBack, At
  <1>2. Shape /\ UNCHANGED <<written, staged>> /\ copies \in [Rows -> Nat] /\ undone \in [Rows -> Nat]
    BY DEF IInv, Shape, RolledBack
  <1>3. /\ task' = [task EXCEPT ![t] = st] /\ task'[t] = st
        /\ \A s \in Tasks \ {t} : task'[s] = task[s]
    BY <1>2 DEF Become, Shape
  <1>4. /\ copies' \in [Rows -> Nat] /\ undone' \in [Rows -> Nat]
        /\ \A r \in Rows : copies[r] <= copies'[r]
        /\ \A r \in Rows : copies'[r] <= copies[r] + 1 /\ undone[r] <= undone'[r]
        /\ \A r \in Rows : copies'[r] > copies[r] => undone'[r] = undone[r] + 1
        /\ \A r \in Rows : Sending(t, r) => copies'[r] = copies[r] /\ undone'[r] = undone[r] + 1
    BY <1>1, <1>2, Counts DEF Sending, At
  <1>5. Shape'
    BY <1>2, <1>3, <1>4 DEF Shape
  <1>6. Locks'
    BY <1>2, <1>3 DEF IInv, Locks
  <1>7. Inserted'
    <2> SUFFICES ASSUME NEW s \in Tasks, At(s, "delete")', NEW r \in Sent(s)' PROVE copies'[r] > 0
      BY DEF Inserted
    <2>1. s # t /\ At(s, "delete") /\ r \in Sent(s)
      BY <1>3 DEF At, Sent, InBatch
    <2>2. r \in Rows
      BY <1>2, <2>1, TaskType
    <2>3. copies[r] > 0
      BY <2>1 DEF IInv, Inserted
    <2> QED
      BY <1>2, <1>4, <2>2, <2>3
  <1>8. NoRowLost'
    BY <1>2, <1>4 DEF IInv, NoRowLost, Shape
  <1>9. Counted'
    <2>1. ASSUME NEW r \in Rows PROVE copies'[r] <= undone'[r] + 1
      <3>1. copies[r] <= undone[r] + 1
        BY DEF IInv, Counted
      <3> QED
        BY <1>2, <1>4, <3>1
    <2>2. ASSUME NEW r \in Rows, r \in staged \/ r \notin written, \A s \in Tasks : ~Sending(s, r)'
          PROVE  copies'[r] <= undone'[r]
      <3>1. \A s \in Tasks \ {t} : ~Sending(s, r)
        BY <1>3, <2>2 DEF Sending, Sent
      <3>2. CASE Sending(t, r)
        <4>1. copies[r] <= undone[r] + 1
          BY DEF IInv, Counted
        <4> QED
          BY <1>2, <1>4, <3>2, <4>1
      <3>3. CASE ~Sending(t, r)
        <4>1. copies[r] <= undone[r]
          BY <2>2, <3>1, <3>3 DEF IInv, Counted
        <4> QED
          BY <1>2, <1>4, <4>1
      <3> QED
        BY <3>2, <3>3
    <2> QED
      BY <1>2, <2>1, <2>2 DEF Counted
  <1> QED
    BY <1>5, <1>6, <1>7, <1>8, <1>9 DEF IInv

(* The batch ends with its transaction: what it sent leaves the outbox.    *)
LEMMA BatchCommitted ==
    ASSUME IInv, NEW t \in Tasks, NEW st \in States, Become(t, st),
           st.at \notin InBatch, st.open = FALSE,
           At(t, "delete"), task[t].open, Committed(t)
    PROVE  IInv'
PROOF
  <1>1. Shape /\ UNCHANGED <<written, copies, undone>> /\ staged' = staged \ Sent(t)
    BY DEF IInv, Committed
  <1>2. /\ task' = [task EXCEPT ![t] = st] /\ task'[t] = st
        /\ \A s \in Tasks \ {t} : task'[s] = task[s]
    BY <1>1 DEF Become, Shape
  <1>3. Shape'
    BY <1>1, <1>2 DEF Shape
  <1>4. Sent(t) \subseteq task[t].claimed
    BY <1>1, TaskType
  <1>5. Locks'
    <2>1. ASSUME NEW s \in Tasks, s # t, task[s].open
          PROVE  task[s].claimed \subseteq staged'
      BY <1>1, <1>4, <2>1 DEF IInv, Locks
    <2> QED
      BY <1>2, <2>1 DEF IInv, Locks
  <1>6. Inserted'
    BY <1>1, <1>2 DEF IInv, Inserted, At, Sent, InBatch
  <1>7. NoRowLost'
    BY <1>1 DEF IInv, NoRowLost, Inserted
  <1>8. Counted'
    <2>1. ASSUME NEW r \in Rows, r \in staged' \/ r \notin written, \A s \in Tasks : ~Sending(s, r)'
          PROVE  copies[r] <= undone[r]
      <3>1. \A s \in Tasks \ {t} : ~Sending(s, r)
        BY <1>2, <2>1 DEF Sending, Sent
      <3>2. r \notin Sent(t)
        BY <1>1, <1>4, <2>1 DEF IInv, Shape, Locks
      <3> QED
        BY <1>1, <2>1, <3>1, <3>2 DEF IInv, Counted, Sending
    <2> QED
      BY <1>1, <2>1 DEF IInv, Counted
  <1> QED
    BY <1>3, <1>5, <1>6, <1>7, <1>8 DEF IInv

-----------------------------------------------------------------------------
(* One lemma per action, or for those that move a task outside its batch.  *)

LEMMA StageStep == ASSUME IInv, NEW r \in Rows, Stage(r) PROVE IInv'
PROOF
  <1>1. /\ r \notin written /\ written' = written \cup {r} /\ staged' = staged \cup {r}
        /\ UNCHANGED <<copies, undone, task>> /\ Shape
    BY DEF Stage, IInv
  <1>2. Shape' /\ Locks' /\ Inserted' /\ NoRowLost'
    BY <1>1 DEF IInv, Shape, Locks, Inserted, At, Sent, NoRowLost
  <1>3. Counted'
    BY <1>1 DEF IInv, Counted, Sending, Sent
  <1> QED
    BY <1>2, <1>3 DEF IInv

LEMMA FallDueStep == ASSUME IInv, NEW r \in Rows, FallDue(r) PROVE IInv'
PROOF BY DEF FallDue, IInv, Shape, Locks, Inserted, At, Sent, NoRowLost, Counted, Sending

LEMMA RowsAndTasksKept == ASSUME IInv, UNCHANGED <<rows, task>> PROVE IInv'
PROOF BY DEF rows, IInv, Shape, Locks, Inserted, At, Sent, NoRowLost, Counted, Sending

LEMMA TickStep == ASSUME IInv, NEW t \in Tasks, Tick(t) PROVE IInv'
PROOF
  <1> DEFINE place == IF task[t].holdsLease THEN "renew" ELSE "acquire"
             st == [task[t] EXCEPT !.at = place]
  <1>1. Become(t, st) /\ UNCHANGED rows /\ task[t].at = "idle"
    BY DEF Tick, Go, At
  <1>2. task[t] \in States /\ task[t].open = FALSE /\ place \in {"renew", "acquire"}
    BY <1>1, TaskType, ClosedOutside DEF IInv, InBatch
  <1> HIDE DEF place
  <1>3. st \in States /\ st.at \notin InBatch /\ st.open = FALSE
    BY <1>2 DEF States, InBatch
  <1> QED
    BY <1>1, <1>3, OutsideBatch DEF InBatch

(* renew, acquire and the check move between places outside a batch.       *)
LEMMA LeaseStep == ASSUME IInv, NEW t \in Tasks, Lease(t) PROVE IInv'
PROOF
  <1>1. UNCHANGED rows /\ task[t].at \in {"renew", "acquire", "check"}
    BY DEF Lease, Renew, AcquireFree, AcquireRefused, AcquireSkipped, AcquireResent, Check, At
  <1>2. task[t] \in States /\ task[t].open = FALSE
    BY <1>1, TaskType, ClosedOutside DEF IInv, InBatch
  <1>3. \E place \in {"held", "acquire", "check", "idle"}, holds \in BOOLEAN :
            Become(t, [task[t] EXCEPT !.at = place, !.holdsLease = holds])
    <2>1. ASSUME NEW place \in {"held", "acquire", "check", "idle"}, Go(t, place)
          PROVE  Become(t, [task[t] EXCEPT !.at = place, !.holdsLease = task[t].holdsLease])
      <3>1. [task[t] EXCEPT !.at = place]
                = [task[t] EXCEPT !.at = place, !.holdsLease = task[t].holdsLease]
        BY <1>2 DEF States
      <3> QED
        BY <2>1, <3>1 DEF Go
    <2>2. task[t].holdsLease \in BOOLEAN
      BY <1>2 DEF States
    <2>3. CASE Renew(t)
      BY <2>1, <2>2, <2>3 DEF Renew
    <2>4. CASE AcquireFree(t)
      BY <2>4 DEF AcquireFree
    <2>5. CASE AcquireRefused(t)
      BY <2>1, <2>2, <2>5 DEF AcquireRefused
    <2>6. CASE AcquireSkipped(t)
      BY <2>1, <2>2, <2>6 DEF AcquireSkipped
    <2>8. CASE AcquireResent(t)
      BY <2>1, <2>2, <2>8 DEF AcquireResent
    <2>7. CASE Check(t)
      BY <2>7 DEF Check
    <2> QED
      BY <2>3, <2>4, <2>5, <2>6, <2>7, <2>8 DEF Lease
  <1>4. PICK place \in {"held", "acquire", "check", "idle"}, holds \in BOOLEAN :
            Become(t, [task[t] EXCEPT !.at = place, !.holdsLease = holds])
    BY <1>3
  <1> DEFINE st == [task[t] EXCEPT !.at = place, !.holdsLease = holds]
  <1>5. st \in States /\ st.at = place /\ st.open = FALSE
    BY <1>2 DEF States
  <1>6. Become(t, st)
    BY <1>4
  <1> HIDE DEF st
  <1>7. st.at \notin InBatch /\ task[t].at \notin InBatch
    BY <1>1, <1>5 DEF InBatch
  <1> QED
    BY <1>1, <1>5, <1>6, <1>7, OutsideBatch

(* What the catch block makes of a task is outside its batch.              *)
LEMMA BackedOff ==
    ASSUME IInv, NEW t \in Tasks, BackOff(t)
    PROVE  \E st \in States : Become(t, st) /\ st.at \notin InBatch /\ st.open = FALSE
PROOF
  <1>1. task[t] \in States
    BY TaskType DEF IInv
  <1>2. Ended(t) \in States /\ Ended(t).at = "idle" /\ Ended(t).open = FALSE
    BY <1>1 DEF Ended, States
  <1>3. CASE task[t].failures + 1 < HandoverAfter
    <2> DEFINE st == [Ended(t) EXCEPT !.failures = @ + 1]
    <2>1. Ended(t).failures = task[t].failures
      BY <1>1 DEF Ended, States
    <2>2. Ended(t).failures + 1 \in 0..HandoverAfter - 1
      BY <1>1, <1>3, <2>1 DEF States, HandoverAfter
    <2>3. st \in States /\ st.at = "idle" /\ st.open = FALSE
      BY <1>2, <2>2 DEF States
    <2>4. Become(t, st)
      BY <1>3 DEF BackOff
    <2> QED
      BY <2>3, <2>4 DEF InBatch
  <1>4. CASE ~(task[t].failures + 1 < HandoverAfter)
    <2> DEFINE state == [Ended(t) EXCEPT !.failures = 0]
               st == [state EXCEPT !.holdsLease = FALSE]
    <2>1. state \in States /\ state.at = "idle" /\ state.open = FALSE
      BY <1>2, NoFailures DEF States
    <2>2. Become(t, st)
      BY <1>4 DEF BackOff, ReleaseLease
    <2> HIDE DEF state
    <2>3. st \in States /\ st.at = "idle" /\ st.open = FALSE
      BY <2>1 DEF States
    <2> QED
      BY <2>2, <2>3 DEF InBatch
  <1> QED
    BY <1>3, <1>4

LEMMA StoppedMeanwhileStep == ASSUME IInv, NEW t \in Tasks, StoppedMeanwhile(t) PROVE IInv'
PROOF
  <1> DEFINE state == [task[t] EXCEPT !.at = "idle"]
             st == [state EXCEPT !.holdsLease = FALSE]
  <1>1. Become(t, st) /\ UNCHANGED rows /\ task[t].at = "held"
    BY DEF StoppedMeanwhile, ReleaseLease, At
  <1>2. task[t] \in States /\ task[t].open = FALSE
    BY <1>1, TaskType, ClosedOutside DEF IInv, InBatch
  <1>3. state \in States /\ state.at = "idle" /\ state.open = FALSE
    BY <1>2 DEF States
  <1> HIDE DEF state
  <1>4. st \in States /\ st.at = "idle" /\ st.open = FALSE
    BY <1>3 DEF States
  <1> QED
    BY <1>1, <1>4, OutsideBatch DEF InBatch

(* The rows are staged, and in no open transaction.                        *)
LEMMA ClaimStep == ASSUME IInv, NEW t \in Tasks, Claim(t) PROVE IInv'
PROOF
  <1> DEFINE mine == Oldest(Due(staged \ Locked))
             st == [task[t] EXCEPT !.at = "insert", !.open = TRUE, !.claimed = mine]
  <1>1. Become(t, st) /\ UNCHANGED <<written, staged, copies, undone>> /\ task[t].at = "held" /\ Shape
    BY DEF Claim, At, rows, IInv
  <1>2. mine \subseteq staged \ Locked
    BY DEF Oldest, Due
  <1>3. \A s \in Tasks : task[s].open => mine \cap task[s].claimed = {}
    <2> SUFFICES ASSUME NEW s \in Tasks, task[s].open, NEW r \in mine, r \in task[s].claimed PROVE FALSE
      OBVIOUS
    <2>1. r \in Locked
      BY DEF Locked
    <2> QED
      BY <1>2, <2>1
  <1>4. mine \in SUBSET Rows /\ mine \subseteq staged
    BY <1>1, <1>2 DEF Shape
  <1> HIDE DEF mine
  <1>5. st \in States /\ st.at = "insert" /\ st.claimed = mine
    BY <1>1, <1>4, TaskType DEF States
  <1> HIDE DEF st
  <1>6. /\ task' = [task EXCEPT ![t] = st] /\ task'[t] = st
        /\ \A s \in Tasks \ {t} : task'[s] = task[s]
    BY <1>1 DEF Become, Shape
  <1>7. Shape'
    BY <1>1, <1>5, <1>6 DEF Shape
  <1>8. Locks'
    BY <1>1, <1>3, <1>4, <1>5, <1>6 DEF IInv, Locks, InBatch
  <1>9. Inserted' /\ NoRowLost'
    BY <1>1, <1>5, <1>6 DEF IInv, Inserted, At, Sent, NoRowLost
  <1>10. Counted'
    <2>1. ASSUME NEW s \in Tasks, NEW r \in Rows PROVE Sending(s, r) <=> Sending(s, r)'
      BY <1>1, <1>5, <1>6 DEF Sending, Sent
    <2> QED
      BY <1>1, <2>1 DEF IInv, Counted
  <1> QED
    BY <1>7, <1>8, <1>9, <1>10 DEF IInv

LEMMA InsertStep == ASSUME IInv, NEW t \in Tasks, Insert(t) PROVE IInv'
PROOF
  <1> DEFINE st == [task[t] EXCEPT !.at = "delete"]
  <1>1. /\ Become(t, st) /\ UNCHANGED <<written, staged>> /\ task[t].at = "insert" /\ Shape
        /\ copies' = More(copies, Sent(t))
        /\ undone' = More(undone, IF task[t].open THEN {} ELSE Sent(t))
    BY DEF Insert, Go, At, IInv
  <1>2. st \in States /\ st.at = "delete" /\ st.claimed = task[t].claimed /\ st.open = task[t].open
    BY <1>1, TaskType DEF States
  <1> HIDE DEF st
  <1>3. /\ task' = [task EXCEPT ![t] = st] /\ task'[t] = st
        /\ \A s \in Tasks \ {t} : task'[s] = task[s]
        /\ \A s \in Tasks : Sent(s)' = Sent(s) /\ task'[s].open = task[s].open
    BY <1>1, <1>2 DEF Become, Shape, Sent
  <1>4. /\ copies \in [Rows -> Nat] /\ undone \in [Rows -> Nat]
        /\ copies' \in [Rows -> Nat] /\ undone' \in [Rows -> Nat]
        /\ \A r \in Rows : copies'[r] >= copies[r] /\ undone'[r] >= undone[r]
        /\ \A r \in Sent(t) : r \in Rows /\ copies'[r] = copies[r] + 1
        /\ \A r \in Rows \ Sent(t) : copies'[r] = copies[r]
        /\ ~task[t].open => \A r \in Sent(t) : undone'[r] = undone[r] + 1
    <2>1. copies \in [Rows -> Nat] /\ undone \in [Rows -> Nat] /\ Sent(t) \subseteq Rows
      BY <1>1, TaskType DEF Shape
    <2> QED
      BY <1>1, <2>1, Counts
  <1>5. Shape'
    BY <1>1, <1>2, <1>3, <1>4 DEF Shape
  <1>6. Locks'
    BY <1>1, <1>2, <1>3 DEF IInv, Locks, InBatch
  <1>7. Inserted'
    <2> SUFFICES ASSUME NEW s \in Tasks, At(s, "delete")', NEW r \in Sent(s) PROVE copies'[r] > 0
      BY <1>3 DEF Inserted
    <2>1. CASE s = t
      BY <1>4, <2>1
    <2>2. CASE s # t
      <3>1. copies[r] > 0 /\ r \in Rows
        BY <1>1, <1>3, <2>2, TaskType DEF IInv, Inserted, At
      <3> QED
        BY <1>4, <3>1
    <2> QED
      BY <2>1, <2>2
  <1>8. NoRowLost'
    BY <1>1, <1>4 DEF IInv, NoRowLost, Shape
  <1>9. Counted'
    <2>1. ASSUME NEW r \in Rows, NEW s \in Tasks \ {t} PROVE Sending(s, r)' <=> Sending(s, r)
      BY <1>3 DEF Sending
    <2>2. ASSUME NEW r \in Rows PROVE ~Sending(t, r) /\ (Sending(t, r)' <=> task[t].open /\ r \in Sent(t))
      BY <1>1, <1>2, <1>3 DEF Sending
    <2>3. ASSUME NEW r \in Rows, r \notin Sent(t)
          PROVE  /\ copies'[r] <= undone'[r] + 1
                 /\ (r \in staged \/ r \notin written) /\ (\A s \in Tasks : ~Sending(s, r)') =>
                       copies'[r] <= undone'[r]
      <3>1. /\ copies[r] <= undone[r] + 1
            /\ (r \in staged \/ r \notin written) /\ (\A s \in Tasks : ~Sending(s, r)') =>
                  copies[r] <= undone[r]
        BY <2>1, <2>2 DEF IInv, Counted
      <3> QED
        BY <1>4, <2>3, <3>1
    <2>4. ASSUME NEW r \in Sent(t), ~task[t].open
          PROVE  /\ copies'[r] <= undone'[r] + 1
                 /\ (r \in staged \/ r \notin written) /\ (\A s \in Tasks : ~Sending(s, r)') =>
                       copies'[r] <= undone'[r]
      <3>1. r \in Rows
        BY <1>4
      <3>2. /\ copies[r] <= undone[r] + 1
            /\ (r \in staged \/ r \notin written) /\ (\A s \in Tasks : ~Sending(s, r)') =>
                  copies[r] <= undone[r]
        BY <2>1, <2>2, <3>1 DEF IInv, Counted
      <3> QED
        BY <1>4, <2>4, <3>1, <3>2
    <2>5. ASSUME NEW r \in Sent(t), task[t].open
          PROVE  copies'[r] <= undone'[r] + 1 /\ Sending(t, r)'
      <3>1. r \in Rows /\ r \in staged
        BY <1>1, <1>4, <2>5, TaskType DEF IInv, Locks
      <3>2. \A s \in Tasks : ~Sending(s, r)
        <4>1. \A s \in Tasks : Sent(s) \subseteq task[s].claimed
          BY <1>1, TaskType
        <4>2. r \in task[t].claimed
          BY <4>1
        <4>3. \A s \in Tasks \ {t} : task[s].open => r \notin task[s].claimed
          BY <2>5, <4>2 DEF IInv, Locks
        <4> QED
          BY <4>1, <4>3, <2>2, <3>1 DEF Sending
      <3>3. copies[r] <= undone[r]
        BY <3>1, <3>2 DEF IInv, Counted
      <3> QED
        BY <1>4, <2>2, <2>5, <3>1, <3>3
    <2> QED
      BY <1>1, <1>4, <2>3, <2>4, <2>5 DEF Counted
  <1> QED
    BY <1>5, <1>6, <1>7, <1>8, <1>9 DEF IInv

LEMMA ClaimFailsStep == ASSUME IInv, NEW t \in Tasks, ClaimFails(t) PROVE IInv'
PROOF
  <1>1. UNCHANGED rows /\ BackOff(t) /\ task[t].at \notin InBatch
    BY DEF ClaimFails, At, InBatch
  <1> QED
    BY <1>1, BackedOff, OutsideBatch

(* A batch that stops before its insert has sent anything leaves the counts. *)
LEMMA NothingSent ==
    ASSUME IInv, NEW t \in Tasks, At(t, "insert"), UNCHANGED rows
    PROVE  RolledBack(t)
PROOF
  <1>1. copies \in [Rows -> Nat] /\ undone \in [Rows -> Nat] /\ ~At(t, "delete")
    BY DEF IInv, Shape, At
  <1>2. copies = More(copies, {}) /\ undone = More(undone, {})
    BY <1>1 DEF More
  <1> QED
    BY <1>1, <1>2 DEF RolledBack, rows

LEMMA BatchFailsStep ==
    ASSUME IInv, NEW t \in Tasks,
           InsertFails(t) \/ InsertAnswerLost(t) \/ DeleteFails(t) \/ CommitFails(t)
    PROVE  IInv'
PROOF
  <1>1. BackOff(t)
    BY DEF InsertFails, InsertAnswerLost, DeleteFails, CommitFails
  <1>2. PICK st \in States : Become(t, st) /\ st.at \notin InBatch /\ st.open = FALSE
    BY <1>1, BackedOff
  <1>3. CASE InsertFails(t)
    BY <1>2, <1>3, NothingSent, BatchRolledBack DEF InsertFails
  <1>4. CASE InsertAnswerLost(t) \/ DeleteFails(t)
    BY <1>2, <1>4, BatchRolledBack DEF InsertAnswerLost, DeleteFails
  <1>5. CASE CommitFails(t)
    BY <1>2, <1>5, BatchRolledBack, BatchCommitted DEF CommitFails
  <1> QED
    BY <1>3, <1>4, <1>5

LEMMA CommitStep == ASSUME IInv, NEW t \in Tasks, Commit(t) PROVE IInv'
PROOF
  <1> DEFINE st == [Ended(t) EXCEPT !.failures = 0]
  <1>1. Ended(t) \in States /\ Ended(t).at = "idle" /\ Ended(t).open = FALSE
    BY TaskType DEF IInv, Ended, States
  <1>2. st \in States /\ st.at \notin InBatch /\ st.open = FALSE
    BY <1>1, NoFailures DEF States, InBatch
  <1>3. Become(t, st) /\ At(t, "delete") /\ task[t].open /\ Committed(t)
    BY DEF Commit
  <1> HIDE DEF st
  <1> QED
    BY <1>2, <1>3, BatchCommitted

(* What was sent under the transaction counts as undone, and others may claim the rows. *)
LEMMA TimesOutStep == ASSUME IInv, NEW t \in Tasks, TimesOut(t) PROVE IInv'
PROOF
  <1> DEFINE st == [task[t] EXCEPT !.open = FALSE]
  <1>1. /\ Become(t, st) /\ UNCHANGED <<written, staged, copies>> /\ Shape /\ task[t].open
        /\ undone' = More(undone, IF At(t, "delete") THEN Sent(t) ELSE {})
    BY DEF TimesOut, IInv
  <1>2. st \in States /\ st.at = task[t].at /\ st.claimed = task[t].claimed /\ st.open = FALSE
    BY <1>1, TaskType DEF States
  <1> HIDE DEF st
  <1>3. /\ task' = [task EXCEPT ![t] = st] /\ task'[t] = st
        /\ \A s \in Tasks \ {t} : task'[s] = task[s]
        /\ \A s \in Tasks : Sent(s)' = Sent(s) /\ task'[s].at = task[s].at
    BY <1>1, <1>2 DEF Become, Shape, Sent
  <1>4. /\ undone' \in [Rows -> Nat] /\ \A r \in Rows : undone'[r] >= undone[r]
        /\ \A r \in Rows : Sending(t, r) => undone'[r] = undone[r] + 1
    BY <1>1, Counts DEF Shape, Sending, At
  <1>5. Shape'
    BY <1>1, <1>2, <1>3, <1>4 DEF Shape
  <1>6. Locks' /\ Inserted' /\ NoRowLost'
    BY <1>1, <1>2, <1>3 DEF IInv, Locks, Inserted, At, NoRowLost
  <1>7. Counted'
    <2>1. ASSUME NEW r \in Rows PROVE copies[r] <= undone'[r] + 1
      <3>1. copies[r] <= undone[r] + 1
        BY DEF IInv, Counted
      <3> QED
        BY <1>1, <1>4, <3>1 DEF Shape
    <2>2. ASSUME NEW r \in Rows, r \in staged \/ r \notin written, \A s \in Tasks : ~Sending(s, r)'
          PROVE  copies[r] <= undone'[r]
      <3>1. \A s \in Tasks \ {t} : ~Sending(s, r)
        BY <1>3, <2>2 DEF Sending
      <3>2. CASE Sending(t, r)
        <4>1. copies[r] <= undone[r] + 1
          BY DEF IInv, Counted
        <4> QED
          BY <1>1, <1>4, <3>2, <4>1 DEF Shape
      <3>3. CASE ~Sending(t, r)
        <4>1. copies[r] <= undone[r]
          BY <2>2, <3>1, <3>3 DEF IInv, Counted
        <4> QED
          BY <1>1, <1>4, <4>1 DEF Shape
      <3> QED
        BY <3>2, <3>3
    <2> QED
      BY <1>1, <2>1, <2>2 DEF Counted
  <1> QED
    BY <1>5, <1>6, <1>7 DEF IInv

LEMMA StopStep == ASSUME IInv, NEW t \in Tasks, Stop(t) PROVE IInv'
PROOF
  <1> DEFINE state == [task[t] EXCEPT !.stopped = TRUE]
             st == [state EXCEPT !.holdsLease = FALSE]
  <1>1. Become(t, st) /\ UNCHANGED rows
    BY DEF Stop, ReleaseLease
  <1>2. state \in States /\ state.at = task[t].at /\ state.open = task[t].open
        /\ state.claimed = task[t].claimed
    BY TaskType DEF IInv, States
  <1> HIDE DEF state
  <1>3. st \in States /\ st.at = task[t].at /\ st.open = task[t].open /\ st.claimed = task[t].claimed
    BY <1>2 DEF States
  <1> HIDE DEF st
  <1> QED
    BY <1>1, <1>3, SameBatch

LEMMA StartedType == ASSUME NEW at \in {"idle", "down"} PROVE
    [Started EXCEPT !.at = at] \in States /\ [Started EXCEPT !.at = at].open = FALSE
PROOF BY NoFailures DEF Started, States

LEMMA EndStep == ASSUME IInv, NEW t \in Tasks, End(t) PROVE IInv'
PROOF
  <1> DEFINE st == [Started EXCEPT !.at = "down"]
  <1>1. st \in States /\ st.open = FALSE /\ st.at = "down"
    BY StartedType DEF Started
  <1>2. Become(t, st) /\ RolledBack(t)
    BY DEF End
  <1> HIDE DEF st
  <1> QED
    BY <1>1, <1>2, BatchRolledBack DEF InBatch

LEMMA RestartStep == ASSUME IInv, NEW t \in Tasks, Restart(t) PROVE IInv'
PROOF
  <1>1. Started \in States /\ Started.at = "idle" /\ Started.open = FALSE
    BY NoFailures DEF Started, States
  <1>2. Become(t, Started) /\ UNCHANGED rows /\ task[t].at = "down"
    BY DEF Restart, At
  <1> QED
    BY <1>1, <1>2, OutsideBatch DEF InBatch

-----------------------------------------------------------------------------
LEMMA InitHolds == Init => IInv
PROOF
  <1> SUFFICES ASSUME Init PROVE IInv
    OBVIOUS
  <1>1. Started \in States /\ Started.at = "idle" /\ Started.open = FALSE
    BY NoFailures DEF Started, States
  <1>2. \A t \in Tasks : task[t] = Started
    BY DEF Init
  <1>3. Shape
    BY <1>1 DEF Init, Shape
  <1>4. Locks /\ Inserted /\ NoRowLost
    BY <1>1, <1>2 DEF Init, Locks, Inserted, At, NoRowLost
  <1>5. Counted
    BY DEF Init, Counted
  <1> QED
    BY <1>3, <1>4, <1>5 DEF IInv

LEMMA BatchStep == ASSUME IInv, NEW t \in Tasks, Batch(t) PROVE IInv'
PROOF
  <1>1. CASE StoppedMeanwhile(t) \/ Claim(t) \/ ClaimFails(t)
    BY <1>1, StoppedMeanwhileStep, ClaimStep, ClaimFailsStep
  <1>2. CASE Insert(t)
    BY <1>2, InsertStep
  <1>3. CASE InsertFails(t) \/ InsertAnswerLost(t) \/ DeleteFails(t) \/ CommitFails(t)
    BY <1>3, BatchFailsStep
  <1>4. CASE TimesOut(t) \/ Commit(t)
    BY <1>4, TimesOutStep, CommitStep
  <1> QED
    BY <1>1, <1>2, <1>3, <1>4 DEF Batch

LEMMA StepHolds == IInv /\ [Next]_vars => IInv'
PROOF
  <1> SUFFICES ASSUME IInv, [Next]_vars PROVE IInv'
    OBVIOUS
  <1>1. ASSUME NEW r \in Rows, Stage(r) \/ FallDue(r) PROVE IInv'
    BY <1>1, StageStep, FallDueStep
  <1>2. ASSUME NEW t \in Tasks, Tick(t) \/ Lease(t) PROVE IInv'
    BY <1>2, TickStep, LeaseStep
  <1>3. ASSUME NEW t \in Tasks, Batch(t) PROVE IInv'
    BY <1>3, BatchStep
  <1>4. ASSUME NEW t \in Tasks, Break(t) PROVE IInv'
    BY <1>4, RowsAndTasksKept DEF Break
  <1>5. ASSUME NEW t \in Tasks, Stop(t) \/ End(t) \/ Restart(t) PROVE IInv'
    BY <1>5, StopStep, EndStep, RestartStep
  <1>6. CASE Expire
    BY <1>6, RowsAndTasksKept DEF Expire
  <1>7. CASE UNCHANGED vars
    BY <1>7, RowsAndTasksKept DEF vars
  <1> QED
    BY <1>1, <1>2, <1>3, <1>4, <1>5, <1>6, <1>7 DEF Next

(* relayBatch: an event that the web application has staged stays in the outbox until     *)
(* ClickHouse has it, whatever fails, for any number of tasks and any batch size.         *)
THEOREM NoRowLostHolds == Spec => []NoRowLost
PROOF
  <1>1. IInv => NoRowLost
    BY DEF IInv
  <1> QED
    BY <1>1, InitHolds, StepHolds, PTL DEF Spec

(* claimStagingRows: an event is sent again only after a batch that sent it rolled back,  *)
(* however many tasks relay without the lease.                                            *)
THEOREM RepeatedOnlyRolledBackHolds == Spec => []RepeatedOnlyRolledBack
PROOF
  <1>1. IInv => RepeatedOnlyRolledBack
    BY DEF IInv, Counted, RepeatedOnlyRolledBack
  <1> QED
    BY <1>1, InitHolds, StepHolds, PTL DEF Spec

-----------------------------------------------------------------------------
(* The lease, and the sizes of the batches.                                *)

(* What a task is outside and inside its batch; one that was stopped holds *)
(* the lease only until the run that was taking it is skipped.             *)
TaskOK(st) ==
    /\ st \in States
    /\ st.at \notin InBatch => st.open = FALSE /\ st.claimed = {}
    /\ Cardinality(st.claimed) <= BatchSize
    /\ st.stopped /\ st.holdsLease => st.at = "held"
    /\ st.at = "down" => st.holdsLease = FALSE

LeaseKnown ==
    /\ lease \in Tasks \cup {Free, Gone} /\ leaked \in BOOLEAN
    /\ \A t \in Tasks : lease = t => leaked \/ task[t].holdsLease

TasksInv == LeaseKnown /\ \A t \in Tasks : TaskOK(task[t])

(* A task takes a step to st, and no other gets the lease by it.           *)
Honest(t, st) ==
    /\ Become(t, st) /\ TaskOK(st)
    /\ lease' \in Tasks \cup {Free, Gone} /\ leaked' \in BOOLEAN
    /\ lease' = t => leaked' \/ st.holdsLease
    /\ \A s \in Tasks \ {t} : lease' = s => lease = s /\ (leaked => leaked')

LEMMA HonestStep ==
    ASSUME Shape, TasksInv, NEW t \in Tasks, NEW st, Honest(t, st)
    PROVE  TasksInv'
PROOF
  <1>1. task'[t] = st /\ \A s \in Tasks \ {t} : task'[s] = task[s]
    BY DEF Honest, Become, Shape
  <1>2. \A s \in Tasks : TaskOK(task'[s])
    BY <1>1 DEF Honest, TasksInv
  <1>3. \A s \in Tasks : lease' = s => leaked' \/ task'[s].holdsLease
    BY <1>1 DEF Honest, TasksInv, LeaseKnown
  <1> QED
    BY <1>2, <1>3 DEF TasksInv, LeaseKnown, Honest

(* The step leaves the key alone.                                          *)
LEMMA LeaseUntouched ==
    ASSUME TasksInv, NEW t \in Tasks, NEW st, Become(t, st), TaskOK(st), UNCHANGED <<lease, leaked>>,
           task[t].holdsLease => st.holdsLease
    PROVE  Honest(t, st)
PROOF BY DEF TasksInv, LeaseKnown, Honest

(* What releaseLease makes of a task that is done with its batch, or of    *)
(* one that is stopped wherever it is.                                     *)
LEMMA Released ==
    ASSUME TasksInv, NEW t \in Tasks, NEW state \in States, ReleaseLease(t, state),
           state.holdsLease = task[t].holdsLease, Cardinality(state.claimed) <= BatchSize,
           state.at \notin InBatch => state.open = FALSE /\ state.claimed = {}
    PROVE  \E st : Honest(t, st)
PROOF
  <1> DEFINE st == [state EXCEPT !.holdsLease = FALSE]
  <1>1. Become(t, st) /\ IF state.holdsLease THEN Release(t) ELSE UNCHANGED <<lease, leaked>>
    BY DEF ReleaseLease
  <1>2. /\ st \in States /\ st.at = state.at /\ st.open = state.open /\ st.claimed = state.claimed
        /\ st.holdsLease = FALSE
    BY DEF States
  <1>3. TaskOK(st)
    BY <1>2 DEF TaskOK
  <1> HIDE DEF st
  <1>4. CASE ~state.holdsLease
    <2>1. UNCHANGED <<lease, leaked>> /\ ~task[t].holdsLease
      BY <1>1, <1>4
    <2> QED
      BY <1>1, <1>3, <2>1, LeaseUntouched
  <1>5. CASE state.holdsLease
    <2>1. Release(t)
      BY <1>1, <1>5
    <2>2. lease \in Tasks \cup {Free, Gone} /\ leaked \in BOOLEAN /\ t # Free
      BY TokenAssumption DEF TasksInv, LeaseKnown
    <2>3. lease' \in Tasks \cup {Free, Gone} /\ leaked' \in BOOLEAN
      BY <2>1, <2>2 DEF Release
    <2>4. lease' = t => leaked'
      BY <2>1, <2>2 DEF Release
    <2>5. \A s \in Tasks \ {t} : lease' = s => lease = s /\ (leaked => leaked')
      BY <2>1, TokenAssumption DEF Release
    <2> QED
      BY <1>1, <1>3, <2>3, <2>4, <2>5 DEF Honest
  <1> QED
    BY <1>4, <1>5

-----------------------------------------------------------------------------
(* The oldest rows of a set are no more than a batch.                      *)
LEMMA OldestBound ==
    ASSUME NEW S \in SUBSET Nat, IsFiniteSet(S)
    PROVE  IsFiniteSet(Oldest(S)) /\ Cardinality(Oldest(S)) <= BatchSize
PROOF
  <1>1. IsFiniteSet(Oldest(S)) /\ Oldest(S) \subseteq S
    BY FS_Subset DEF Oldest
  <1>2. CASE Oldest(S) = {}
    <2>1. Cardinality(Oldest(S)) = 0
      BY <1>2, FS_EmptySet
    <2> QED
      BY <1>1, <2>1, BoundAssumption
  <1>3. CASE Oldest(S) # {}
    <2>1. Oldest(S) \in SUBSET Nat
      BY <1>1
    <2>2. PICK m \in Oldest(S) : \A r \in Oldest(S) : r <= m
      BY <1>1, <1>3, <2>1, HasGreatest
    <2> DEFINE before == {q \in S : q < m}
    <2>3. Cardinality(before) < BatchSize
      BY <2>2 DEF Oldest
    <2>4. before \in SUBSET S
      OBVIOUS
    <2>5. Oldest(S) \ {m} \subseteq before
      <3> SUFFICES ASSUME NEW r \in Oldest(S), r # m PROVE r < m /\ r \in S
        OBVIOUS
      <3>1. r <= m /\ r \in Nat /\ m \in Nat /\ r \in S
        BY <1>1, <2>1, <2>2
      <3> QED
        BY <3>1
    <2> HIDE DEF before
    <2>6. IsFiniteSet(before)
      BY <2>4, FS_Subset
    <2>7. Cardinality(Oldest(S) \ {m}) <= Cardinality(before)
      BY <2>5, <2>6, FS_Subset
    <2>8. Cardinality(Oldest(S) \ {m}) = Cardinality(Oldest(S)) - 1
      BY <1>1, <2>2, FS_RemoveElement
    <2>9. Cardinality(Oldest(S)) \in Nat /\ Cardinality(before) \in Nat
      BY <1>1, <2>6, FS_CardinalityType
    <2>10. Cardinality(Oldest(S)) - 1 < BatchSize /\ BatchSize \in Nat
      BY <2>3, <2>7, <2>8, <2>9, BoundAssumption
    <2> QED
      BY <1>1, <2>9, <2>10
  <1> QED
    BY <1>1, <1>2, <1>3

LEMMA NoneClaimed == Cardinality({}) <= BatchSize
PROOF
  <1>1. Cardinality({}) = 0
    BY FS_EmptySet
  <1> QED
    BY <1>1, BoundAssumption

(* The step changes the place of a task at most, and takes the key at most *)
(* without the task's hearing of it.                                       *)
LEMMA GoHonest ==
    ASSUME TasksInv, NEW t \in Tasks, NEW place, Go(t, place),
           UNCHANGED <<lease, leaked>> \/ Unheard(t),
           place \in {"idle", "renew", "acquire", "check", "held"},
           task[t].at \notin InBatch, task[t].at # "held"
    PROVE  \E st : Honest(t, st)
PROOF
  <1> DEFINE st == [task[t] EXCEPT !.at = place]
  <1>1. TaskOK(task[t]) /\ Become(t, st)
    BY DEF TasksInv, Go
  <1>2. /\ st \in States /\ st.at = place /\ st.open = task[t].open /\ st.claimed = task[t].claimed
        /\ st.stopped = task[t].stopped /\ st.holdsLease = task[t].holdsLease
    BY <1>1 DEF TaskOK, States
  <1> HIDE DEF st
  <1>3. TaskOK(st)
    BY <1>1, <1>2 DEF TaskOK
  <1>4. CASE UNCHANGED <<lease, leaked>>
    BY <1>1, <1>2, <1>3, <1>4, LeaseUntouched
  <1>5. CASE Unheard(t)
    <2>1. lease' = t /\ leaked' = ~st.holdsLease
      BY <1>2, <1>5 DEF Unheard
    <2> QED
      BY <1>1, <1>3, <2>1 DEF Honest
  <1> QED
    BY <1>4, <1>5

LEMMA LeaseHonest ==
    ASSUME TasksInv, NEW t \in Tasks, Tick(t) \/ Lease(t)
    PROVE  \E st : Honest(t, st)
PROOF
  <1>1. TaskOK(task[t])
    BY DEF TasksInv
  <1>2. task[t].at \in {"idle", "renew", "acquire", "check"}
    BY DEF Tick, Lease, Renew, AcquireFree, AcquireRefused, AcquireSkipped, AcquireResent, Unheard, Check, At
  <1>3. CASE Tick(t)
    <2>1. PICK place \in {"renew", "acquire"} : Go(t, place)
      BY <1>3 DEF Tick
    <2> QED
      BY <1>2, <1>3, <2>1, GoHonest DEF Tick, InBatch
  <1>4. CASE Renew(t)
    <2>1. PICK place \in {"held", "acquire"} : Go(t, place)
      BY <1>4 DEF Renew
    <2> QED
      BY <1>2, <1>4, <2>1, GoHonest DEF Renew, InBatch
  <1>5. CASE AcquireRefused(t)
    <2>1. PICK place \in {"check", "idle"} : Go(t, place)
      BY <1>5 DEF AcquireRefused
    <2> QED
      BY <1>2, <1>5, <2>1, GoHonest DEF AcquireRefused, InBatch
  <1>6. CASE AcquireSkipped(t)
    BY <1>2, <1>6, GoHonest DEF AcquireSkipped, InBatch
  <1>9. CASE AcquireResent(t)
    <2>1. PICK place \in {"check", "idle"} : Go(t, place)
      BY <1>9 DEF AcquireResent
    <2> QED
      BY <1>2, <1>9, <2>1, GoHonest DEF AcquireResent, InBatch
  <1>7. CASE AcquireFree(t)
    <2> DEFINE st == [task[t] EXCEPT !.at = "held", !.holdsLease = TRUE]
    <2>1. lease' = t /\ leaked' = FALSE /\ Become(t, st)
      BY <1>7 DEF AcquireFree
    <2>2. /\ st \in States /\ st.at = "held" /\ st.open = task[t].open /\ st.claimed = task[t].claimed
          /\ st.holdsLease = TRUE
      BY <1>1 DEF TaskOK, States
    <2> HIDE DEF st
    <2>3. TaskOK(st)
      BY <1>1, <1>2, <2>2 DEF TaskOK, InBatch
    <2>4. Honest(t, st)
      BY <2>1, <2>2, <2>3 DEF Honest
    <2> QED
      BY <2>4
  <1>8. CASE Check(t)
    <2> DEFINE held == [task[t] EXCEPT !.at = "held", !.holdsLease = TRUE]
               idle == [task[t] EXCEPT !.at = "idle", !.holdsLease = FALSE]
    <2>1. /\ held \in States /\ held.at = "held" /\ held.open = task[t].open /\ held.claimed = task[t].claimed
          /\ held.holdsLease = TRUE
      BY <1>1 DEF TaskOK, States
    <2>2. /\ idle \in States /\ idle.at = "idle" /\ idle.open = task[t].open /\ idle.claimed = task[t].claimed
          /\ idle.holdsLease = FALSE
      BY <1>1 DEF TaskOK, States
    <2>3. lease' = lease
      BY <1>8 DEF Check
    <2>4. \/ lease = t /\ leaked' = leaked /\ Become(t, held)
          \/ lease # t /\ leaked' = leaked /\ Become(t, idle)
          \/ leaked' = (leaked \/ lease = t) /\ Become(t, idle)
      BY <1>8 DEF Check
    <2> HIDE DEF held, idle
    <2>5. TaskOK(held) /\ TaskOK(idle)
      BY <1>1, <1>2, <2>1, <2>2 DEF TaskOK, InBatch
    <2>6. lease \in Tasks \cup {Free, Gone} /\ leaked \in BOOLEAN
      BY DEF TasksInv, LeaseKnown
    <2>7. CASE lease = t /\ leaked' = leaked /\ Become(t, held)
      BY <2>1, <2>3, <2>5, <2>6, <2>7 DEF Honest
    <2>8. CASE lease # t /\ leaked' = leaked /\ Become(t, idle)
      BY <2>3, <2>5, <2>6, <2>8 DEF Honest
    <2>9. CASE leaked' = (leaked \/ lease = t) /\ Become(t, idle)
      <3>1. leaked' \in BOOLEAN /\ (leaked => leaked') /\ (lease = t => leaked')
        BY <2>6, <2>9
      <3>2. Honest(t, idle)
        BY <2>3, <2>5, <2>6, <2>9, <3>1 DEF Honest
      <3> QED
        BY <3>2
    <2> QED
      BY <2>4, <2>7, <2>8, <2>9
  <1> QED
    BY <1>3, <1>4, <1>5, <1>6, <1>7, <1>8, <1>9 DEF Lease

LEMMA BackOffHonest ==
    ASSUME TasksInv, NEW t \in Tasks, BackOff(t), task[t].at = "held" => ~task[t].stopped
    PROVE  \E st : Honest(t, st)
PROOF
  <1>1. TaskOK(task[t]) /\ task[t] \in States
    BY DEF TasksInv, TaskOK
  <1> DEFINE ended == Ended(t)
  <1>2. /\ ended \in States /\ ended.at = "idle" /\ ended.open = FALSE /\ ended.claimed = {}
        /\ ended.stopped = task[t].stopped /\ ended.holdsLease = task[t].holdsLease
        /\ ended.failures = task[t].failures
    BY <1>1 DEF Ended, States
  <1>3. ~(task[t].stopped /\ task[t].holdsLease)
    BY <1>1 DEF TaskOK
  <1>4. CASE task[t].failures + 1 < HandoverAfter
    <2> DEFINE st == [ended EXCEPT !.failures = @ + 1]
    <2>1. Become(t, st) /\ UNCHANGED <<lease, leaked>>
      BY <1>4 DEF BackOff
    <2> HIDE DEF ended
    <2>2. ended.failures + 1 \in 0..HandoverAfter - 1
      BY <1>1, <1>2, <1>4 DEF States, HandoverAfter
    <2>3. /\ st \in States /\ st.at = "idle" /\ st.open = FALSE /\ st.claimed = {}
          /\ st.stopped = task[t].stopped /\ st.holdsLease = task[t].holdsLease
      BY <1>2, <2>2 DEF States
    <2> HIDE DEF st
    <2>4. TaskOK(st)
      BY <1>3, <2>3, NoneClaimed DEF TaskOK
    <2> QED
      BY <2>1, <2>3, <2>4, LeaseUntouched
  <1>5. CASE ~(task[t].failures + 1 < HandoverAfter)
    <2> DEFINE state == [ended EXCEPT !.failures = 0]
    <2>1. ReleaseLease(t, state)
      BY <1>5 DEF BackOff
    <2> HIDE DEF ended
    <2>2. /\ state \in States /\ state.open = FALSE /\ state.claimed = {}
          /\ state.holdsLease = task[t].holdsLease
      BY <1>2, NoFailures DEF States
    <2> HIDE DEF state
    <2> QED
      BY <2>1, <2>2, NoneClaimed, Released
  <1> QED
    BY <1>4, <1>5

LEMMA ClaimHonest ==
    ASSUME IInv, TasksInv, IsFiniteSet(staged), NEW t \in Tasks, Claim(t)
    PROVE  \E st : Honest(t, st)
PROOF
  <1> DEFINE mine == Oldest(Due(staged \ Locked))
             st == [task[t] EXCEPT !.at = "insert", !.open = TRUE, !.claimed = mine]
  <1>1. /\ Become(t, st) /\ UNCHANGED <<lease, leaked>> /\ task[t].at = "held" /\ ~task[t].stopped
        /\ TaskOK(task[t])
    BY DEF Claim, At, TasksInv
  <1>2. Due(staged \ Locked) \in SUBSET staged
    BY DEF Due
  <1>3. Due(staged \ Locked) \in SUBSET Nat /\ IsFiniteSet(Due(staged \ Locked))
    BY <1>2, FS_Subset, RowsAssumption DEF IInv, Shape
  <1>4. Cardinality(mine) <= BatchSize
    BY <1>3, OldestBound
  <1>5. mine \in SUBSET Rows
    BY <1>2 DEF Oldest, IInv, Shape
  <1> HIDE DEF mine
  <1>6. /\ st \in States /\ st.at = "insert" /\ st.claimed = mine /\ st.stopped = task[t].stopped
        /\ st.holdsLease = task[t].holdsLease
    BY <1>1, <1>5 DEF TaskOK, States
  <1> HIDE DEF st
  <1>7. TaskOK(st)
    BY <1>1, <1>4, <1>6 DEF TaskOK, InBatch
  <1> QED
    BY <1>1, <1>6, <1>7, LeaseUntouched

LEMMA BatchHonest ==
    ASSUME IInv, TasksInv, IsFiniteSet(staged), NEW t \in Tasks, Batch(t)
    PROVE  \E st : Honest(t, st)
PROOF
  <1>1. TaskOK(task[t])
    BY DEF TasksInv
  <1>2. CASE StoppedMeanwhile(t)
    <2> DEFINE state == [task[t] EXCEPT !.at = "idle"]
    <2>1. ReleaseLease(t, state) /\ task[t].at = "held"
      BY <1>2 DEF StoppedMeanwhile, At
    <2>2. /\ state \in States /\ state.at = "idle" /\ state.open = task[t].open
          /\ state.claimed = task[t].claimed /\ state.holdsLease = task[t].holdsLease
      BY <1>1 DEF TaskOK, States
    <2> HIDE DEF state
    <2>3. Cardinality(state.claimed) <= BatchSize /\ state.open = FALSE /\ state.claimed = {}
      BY <1>1, <2>1, <2>2 DEF TaskOK, InBatch
    <2> QED
      BY <2>1, <2>2, <2>3, Released
  <1>3. CASE Claim(t)
    BY <1>3, ClaimHonest
  <1>4. CASE ClaimFails(t) \/ InsertFails(t) \/ InsertAnswerLost(t) \/ DeleteFails(t) \/ CommitFails(t)
    <2>1. BackOff(t)
      BY <1>4 DEF ClaimFails, InsertFails, InsertAnswerLost, DeleteFails, CommitFails
    <2>2. task[t].at = "held" => ~task[t].stopped
      BY <1>4 DEF ClaimFails, InsertFails, InsertAnswerLost, DeleteFails, CommitFails, At
    <2> QED
      BY <2>1, <2>2, BackOffHonest
  <1>5. CASE Insert(t)
    <2> DEFINE st == [task[t] EXCEPT !.at = "delete"]
    <2>1. Become(t, st) /\ UNCHANGED <<lease, leaked>> /\ task[t].at = "insert"
      BY <1>5 DEF Insert, Go, At
    <2>2. /\ st \in States /\ st.at = "delete" /\ st.claimed = task[t].claimed
          /\ st.stopped = task[t].stopped /\ st.holdsLease = task[t].holdsLease
      BY <1>1 DEF TaskOK, States
    <2> HIDE DEF st
    <2>3. TaskOK(st)
      BY <1>1, <2>1, <2>2 DEF TaskOK, InBatch
    <2> QED
      BY <2>1, <2>2, <2>3, LeaseUntouched
  <1>6. CASE TimesOut(t)
    <2> DEFINE st == [task[t] EXCEPT !.open = FALSE]
    <2>1. Become(t, st) /\ UNCHANGED <<lease, leaked>>
      BY <1>6 DEF TimesOut
    <2>2. /\ st \in States /\ st.at = task[t].at /\ st.claimed = task[t].claimed /\ st.open = FALSE
          /\ st.stopped = task[t].stopped /\ st.holdsLease = task[t].holdsLease
      BY <1>1 DEF TaskOK, States
    <2> HIDE DEF st
    <2>3. TaskOK(st)
      BY <1>1, <2>2 DEF TaskOK
    <2> QED
      BY <2>1, <2>2, <2>3, LeaseUntouched
  <1>7. CASE Commit(t)
    <2> DEFINE ended == Ended(t)
               st == [ended EXCEPT !.failures = 0]
    <2>1. Become(t, st) /\ UNCHANGED <<lease, leaked>> /\ task[t].at = "delete"
      BY <1>7 DEF Commit, At
    <2>2. /\ ended \in States /\ ended.at = "idle" /\ ended.open = FALSE /\ ended.claimed = {}
          /\ ended.stopped = task[t].stopped /\ ended.holdsLease = task[t].holdsLease
      BY <1>1 DEF Ended, States, TaskOK
    <2> HIDE DEF ended
    <2>3. /\ st \in States /\ st.at = "idle" /\ st.open = FALSE /\ st.claimed = {}
          /\ st.stopped = task[t].stopped /\ st.holdsLease = task[t].holdsLease
      BY <2>2, NoFailures DEF States
    <2> HIDE DEF st
    <2>4. TaskOK(st)
      BY <1>1, <2>1, <2>3, NoneClaimed DEF TaskOK
    <2> QED
      BY <2>1, <2>3, <2>4, LeaseUntouched
  <1> QED
    BY <1>2, <1>3, <1>4, <1>5, <1>6, <1>7 DEF Batch

LEMMA ProcessHonest ==
    ASSUME TasksInv, NEW t \in Tasks, Stop(t) \/ End(t) \/ Restart(t)
    PROVE  \E st : Honest(t, st)
PROOF
  <1>1. TaskOK(task[t]) /\ lease \in Tasks \cup {Free, Gone} /\ leaked \in BOOLEAN
    BY DEF TasksInv, LeaseKnown
  <1>2. CASE Stop(t)
    <2> DEFINE state == [task[t] EXCEPT !.stopped = TRUE]
    <2>1. ReleaseLease(t, state)
      BY <1>2 DEF Stop
    <2>2. /\ state \in States /\ state.at = task[t].at /\ state.open = task[t].open
          /\ state.claimed = task[t].claimed /\ state.holdsLease = task[t].holdsLease
      BY <1>1 DEF TaskOK, States
    <2> HIDE DEF state
    <2> QED
      BY <1>1, <2>1, <2>2, Released DEF TaskOK
  <1>3. CASE End(t)
    <2> DEFINE st == [Started EXCEPT !.at = "down"]
    <2>1. Become(t, st) /\ lease' = (IF lease = t THEN Gone ELSE lease) /\ leaked' = leaked
      BY <1>3 DEF End
    <2>2. /\ st \in States /\ st.open = FALSE /\ st.claimed = {} /\ st.stopped = FALSE
          /\ st.holdsLease = FALSE
      BY NoFailures DEF Started, States
    <2> HIDE DEF st
    <2>3. TaskOK(st)
      BY <2>2, NoneClaimed DEF TaskOK
    <2> QED
      BY <1>1, <2>1, <2>3, TokenAssumption DEF Honest
  <1>4. CASE Restart(t)
    <2>1. Become(t, Started) /\ UNCHANGED <<lease, leaked>> /\ task[t].at = "down"
      BY <1>4 DEF Restart, At
    <2>2. Started \in States /\ Started.open = FALSE /\ Started.claimed = {}
          /\ Started.stopped = FALSE /\ Started.holdsLease = FALSE
      BY NoFailures DEF Started, States
    <2>3. TaskOK(Started)
      BY <2>2, NoneClaimed DEF TaskOK
    <2> QED
      BY <1>1, <2>1, <2>3 DEF Honest, TasksInv, TaskOK, LeaseKnown
  <1> QED
    BY <1>2, <1>3, <1>4

-----------------------------------------------------------------------------
(* The rest of the shapes.                                                 *)
Bounded ==
    /\ failedAt \in [Rows -> {"never", "recent", "due"}] /\ IsFiniteSet(staged)
    /\ broken \in SUBSET Frail /\ retries \in 0..MaxRetries /\ faults \in 0..MaxFaults

LEMMA FaultCounts == ASSUME Bounded, Fault PROVE faults' \in 0..MaxFaults
PROOF BY BoundAssumption DEF Bounded, Fault

LEMMA CommittedBounded ==
    ASSUME Bounded, NEW t \in Tasks, Committed(t)
    PROVE  failedAt' \in [Rows -> {"never", "recent", "due"}] /\ IsFiniteSet(staged')
PROOF
  <1>1. staged' = staged \ Sent(t) /\ IsFiniteSet(staged)
    BY DEF Committed, Bounded
  <1>2. IsFiniteSet(staged')
    BY <1>1, FS_Subset
  <1>3. failedAt' \in [Rows -> {"never", "recent", "due"}]
    BY DEF Committed, Bounded
  <1> QED
    BY <1>2, <1>3

LEMMA BoundedNext == ASSUME Bounded, [Next]_vars PROVE Bounded'
PROOF
  <1>1. ASSUME NEW r \in Rows, Stage(r) PROVE Bounded'
    <2>1. staged' = staged \cup {r} /\ UNCHANGED <<failedAt, broken, retries, faults>>
      BY <1>1 DEF Stage
    <2>2. IsFiniteSet(staged')
      BY <2>1, FS_AddElement DEF Bounded
    <2> QED
      BY <2>1, <2>2 DEF Bounded
  <1>2. ASSUME NEW r \in Rows, FallDue(r) PROVE Bounded'
    <2>1. UNCHANGED <<staged, broken, faults>> /\ retries' \in 0..MaxRetries
      BY <1>2, BoundAssumption DEF FallDue, Bounded
    <2>2. failedAt' \in [Rows -> {"never", "recent", "due"}]
      BY <1>2 DEF FallDue, Bounded
    <2> QED
      BY <2>1, <2>2 DEF Bounded
  <1>3. ASSUME UNCHANGED <<staged, failedAt, broken, retries>>, faults' = faults \/ Fault PROVE Bounded'
    BY <1>3, FaultCounts DEF Bounded
  <1>4. ASSUME NEW t \in Tasks, Tick(t) \/ Lease(t) \/ Stop(t) \/ End(t) \/ Restart(t) PROVE Bounded'
    <2>1. UNCHANGED <<staged, failedAt, broken, retries>>
      BY <1>4 DEF Tick, Lease, Renew, AcquireFree, AcquireRefused, AcquireSkipped, AcquireResent, Unheard, Check, Stop, End,
                  RolledBack, Restart, rows
    <2>2. faults' = faults \/ Fault
      BY <1>4 DEF Tick, Lease, Renew, AcquireFree, AcquireRefused, AcquireSkipped, AcquireResent, Unheard, Check, Stop, End, Restart
    <2> QED
      BY <1>3, <2>1, <2>2
  <1>5. ASSUME NEW t \in Tasks, Break(t) PROVE Bounded'
    <2>1. UNCHANGED <<staged, failedAt, retries, faults>> /\ broken' = broken \cup {t} /\ t \in Frail
      BY <1>5 DEF Break, rows
    <2> QED
      BY <2>1 DEF Bounded
  <1>6. ASSUME NEW t \in Tasks, Batch(t) PROVE Bounded'
    <2>1. UNCHANGED <<broken, retries>> /\ (faults' = faults \/ Fault)
      BY <1>6 DEF Batch, StoppedMeanwhile, Claim, ClaimFails, Insert, InsertFails, InsertAnswerLost, TimesOut,
                  Commit, DeleteFails, CommitFails
    <2>2. UNCHANGED <<staged, failedAt>> \/ Committed(t)
      BY <1>6 DEF Batch, StoppedMeanwhile, Claim, ClaimFails, Insert, InsertFails, InsertAnswerLost, TimesOut,
                  Commit, DeleteFails, CommitFails, RolledBack, rows
    <2>3. CASE UNCHANGED <<staged, failedAt>>
      BY <1>3, <2>1, <2>3
    <2>4. CASE Committed(t)
      BY <2>1, <2>4, CommittedBounded, FaultCounts DEF Bounded
    <2> QED
      BY <2>2, <2>3, <2>4
  <1>7. ASSUME Expire \/ UNCHANGED vars PROVE Bounded'
    <2>1. UNCHANGED <<staged, failedAt, broken, retries>> /\ (faults' = faults \/ Fault)
      BY <1>7 DEF Expire, vars, rows
    <2> QED
      BY <1>3, <2>1
  <1> QED
    BY <1>1, <1>2, <1>4, <1>5, <1>6, <1>7 DEF Next

LEMMA TasksNext == ASSUME IInv, TasksInv, Bounded, [Next]_vars PROVE TasksInv'
PROOF
  <1>1. ASSUME NEW t \in Tasks, Tick(t) \/ Lease(t) \/ Batch(t) \/ Stop(t) \/ End(t) \/ Restart(t)
        PROVE  TasksInv'
    BY <1>1, LeaseHonest, BatchHonest, ProcessHonest, HonestStep DEF IInv, Bounded
  <1>2. ASSUME UNCHANGED <<lease, leaked, task>> PROVE TasksInv'
    BY <1>2 DEF TasksInv, LeaseKnown
  <1>3. ASSUME \/ \E r \in Rows : Stage(r) \/ FallDue(r)
               \/ \E t \in Tasks : Break(t)
               \/ UNCHANGED vars
        PROVE  UNCHANGED <<lease, leaked, task>>
    BY <1>3 DEF Stage, FallDue, Break, vars
  <1>4. CASE Expire
    <2>1. lease' = Free /\ leaked' = FALSE /\ task' = task
      BY <1>4 DEF Expire
    <2> QED
      BY <2>1, TokenAssumption DEF TasksInv, LeaseKnown
  <1> QED
    BY <1>1, <1>2, <1>3, <1>4 DEF Next

LEMMA RelayInvariant == Spec => [](IInv /\ TasksInv /\ Bounded)
PROOF
  <1>1. Init => IInv /\ TasksInv /\ Bounded
    <2> SUFFICES ASSUME Init PROVE IInv /\ TasksInv /\ Bounded
      OBVIOUS
    <2>1. IInv
      BY InitHolds
    <2>2. \A t \in Tasks : TaskOK(task[t])
      <3>1. Started \in States /\ Started.open = FALSE /\ Started.claimed = {} /\ Started.holdsLease = FALSE
        BY NoFailures DEF Started, States
      <3>2. TaskOK(Started)
        BY <3>1, NoneClaimed DEF TaskOK
      <3> QED
        BY <3>2 DEF Init
    <2>3. lease = Free /\ leaked = FALSE
      BY DEF Init
    <2>4. TasksInv
      BY <2>2, <2>3, TokenAssumption DEF TasksInv, LeaseKnown
    <2>5. Bounded
      BY FS_EmptySet, BoundAssumption DEF Init, Bounded
    <2> QED
      BY <2>1, <2>4, <2>5
  <1>2. IInv /\ TasksInv /\ Bounded /\ [Next]_vars => (IInv /\ TasksInv /\ Bounded)'
    BY StepHolds, TasksNext, BoundedNext
  <1> QED
    BY <1>1, <1>2, PTL DEF Spec

(* The relay's variables keep their shapes for any rows and tasks: rows are locked only   *)
(* in a batch, and however many are due, LIMIT keeps a batch to BatchSize of them.        *)
THEOREM Typing == Spec => []TypeOK
PROOF
  <1>1. IInv /\ TasksInv /\ Bounded => TypeOK
    <2> SUFFICES ASSUME IInv, TasksInv, Bounded PROVE TypeOK
      OBVIOUS
    <2>1. /\ staged \subseteq written /\ written \subseteq Rows
          /\ copies \in [Rows -> Nat] /\ undone \in [Rows -> Nat] /\ task \in [Tasks -> States]
      BY DEF IInv, Shape
    <2>2. \A t \in Tasks : /\ task[t].open => task[t].at \in {"insert", "delete"}
                           /\ task[t].claimed # {} => task[t].at \in {"insert", "delete"}
                           /\ Cardinality(task[t].claimed) <= BatchSize
      BY DEF TasksInv, TaskOK, InBatch
    <2>3. lease \in Tasks \cup {Free, Gone} /\ leaked \in BOOLEAN
      BY DEF TasksInv, LeaseKnown
    <2>4. /\ failedAt \in [Rows -> {"never", "recent", "due"}]
          /\ broken \subseteq Frail /\ retries \in 0..MaxRetries /\ faults \in 0..MaxFaults
      BY DEF Bounded
    <2> QED
      BY <2>1, <2>2, <2>3, <2>4 DEF TypeOK
  <1> QED
    BY <1>1, RelayInvariant, PTL

(* AuditLogRelay.stop: a task that was stopped and has come to rest holds no lease        *)
(* that the others would have to wait out, even when stop() came while it was asking for  *)
(* it, unless Redis did not hear of the release, or the task not of the lease.            *)
THEOREM StoppedLeavesNoLeaseHolds == Spec => []StoppedLeavesNoLease
PROOF
  <1>1. IInv /\ TasksInv /\ Bounded => StoppedLeavesNoLease
    BY DEF TasksInv, TaskOK, LeaseKnown, StoppedLeavesNoLease, At
  <1> QED
    BY <1>1, RelayInvariant, PTL
=============================================================================
