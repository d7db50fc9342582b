--------------------------- MODULE AuditLogRelay ---------------------------
(***************************************************************************)
(* The relay of staged audit events from Postgres to ClickHouse            *)
(* (worker/src/features/audit-log-relay).  Every worker runs a task; a     *)
(* lease in Redis keeps them from competing, but a task that cannot reach  *)
(* Redis relays without it, and a lease may run out under its holder.      *)
(* What keeps the rows safe is the transaction of a batch: it locks the    *)
(* rows, has ClickHouse acknowledge them, and only then deletes them.      *)
(***************************************************************************)
EXTENDS Naturals, FiniteSets

CONSTANTS
    Rows,         \* audit events, numbered in the order of their ids
    Unmappable,   \* those whose payload the conversion refuses
    Tasks,        \* the workers' relays, the tokens they lock with
    Frail,        \* tasks that may lose their way to ClickHouse for good
    BatchSize,
    MaxRetries,   \* bound on how often a refused row falls due again
    MaxFaults     \* bound on failures, lapses and deployments

ASSUME RowsAssumption == Rows \subseteq Nat /\ Unmappable \subseteq Rows
ASSUME TasksAssumption == Frail \subseteq Tasks
ASSUME BoundAssumption == BatchSize \in Nat \ {0} /\ {MaxRetries, MaxFaults} \subseteq Nat

HandoverAfter == 3   \* LEASE_HANDOVER_AFTER_FAILURES
Free == "free"       \* no key
Gone == "gone"       \* the token of a process that has ended
ASSUME TokenAssumption == Free \notin Tasks /\ Gone \notin Tasks

VARIABLES
    written,   \* events the web application has staged
    staged,    \* rows of audit_log_staging
    failedAt,  \* per row: "never", "recent", or "due" again
    copies,    \* per row, how often it was inserted into audit_logs
    undone,    \* history: how often by a transaction that did not commit
    lease,     \* the Redis key: the token in it, or Free
    leaked,    \* history: its task does not know of it, as Redis or an answer of it was lost
    task,
    broken,    \* tasks that cannot insert any more
    retries, faults

rows == <<written, staged, failedAt, copies, undone>>
vars == <<rows, lease, leaked, task, broken, retries, faults>>

Started == [at |-> "idle", holdsLease |-> FALSE, stopped |-> FALSE, failures |-> 0,
            claimed |-> {}, open |-> FALSE]

At(t, place) == task[t].at = place
Become(t, state) == task' = [task EXCEPT ![t] = state]
Go(t, place) == Become(t, [task[t] EXCEPT !.at = place])
Fault == faults < MaxFaults /\ faults' = faults + 1
Mappable(S) == S \ Unmappable

Init ==
    /\ written = {} /\ staged = {}
    /\ failedAt = [r \in Rows |-> "never"]
    /\ copies = [r \in Rows |-> 0] /\ undone = [r \in Rows |-> 0]
    /\ lease = Free /\ leaked = FALSE
    /\ task = [t \in Tasks |-> Started]
    /\ broken = {} /\ retries = 0 /\ faults = 0

(* An audited change commits; ids are UUIDv7. *)
Stage(r) ==
    /\ r \notin written /\ \A q \in Rows : q < r => q \in written
    /\ written' = written \cup {r} /\ staged' = staged \cup {r}
    /\ UNCHANGED <<failedAt, copies, undone, lease, leaked, task, broken, retries, faults>>

-----------------------------------------------------------------------------
(* The lease.                                                              *)

(* The key goes, if it is this task's, unless Redis does not answer.       *)
Release(t) ==
    \/ /\ lease' = IF lease = t THEN Free ELSE lease
       /\ leaked' = (leaked /\ lease # t)
    \/ lease = t /\ leaked' = TRUE /\ UNCHANGED lease

(* releaseLease, with what becomes of the task besides.                    *)
ReleaseLease(t, state) ==
    /\ Become(t, [state EXCEPT !.holdsLease = FALSE])
    /\ IF state.holdsLease THEN Release(t) ELSE UNCHANGED <<lease, leaked>>

Tick(t) ==
    /\ At(t, "idle") /\ ~task[t].stopped
    /\ Go(t, IF task[t].holdsLease THEN "renew" ELSE "acquire")
    /\ UNCHANGED <<rows, lease, leaked, broken, retries, faults>>

(* A lease that is still this task's is extended, or was a moment ago.  An *)
(* error of Redis counts as a lost lease.                                  *)
Renew(t) ==
    /\ At(t, "renew")
    /\ \/ Go(t, IF lease = t THEN "held" ELSE "acquire") /\ UNCHANGED faults
       \/ Fault /\ Go(t, "acquire")
    /\ UNCHANGED <<rows, lease, leaked, broken, retries>>

AcquireFree(t) ==
    /\ At(t, "acquire") /\ lease = Free
    /\ lease' = t /\ leaked' = FALSE
    /\ Become(t, [task[t] EXCEPT !.at = "held", !.holdsLease = TRUE])
    /\ UNCHANGED <<rows, broken, retries, faults>>

AcquireRefused(t) ==
    /\ At(t, "acquire") /\ lease # Free
    /\ Go(t, IF task[t].holdsLease THEN "check" ELSE "idle")
    /\ UNCHANGED <<rows, lease, leaked, broken, retries, faults>>

(* SET NX was applied, and its answer lost: the key holds the token of a   *)
(* task that need not know of it.                                          *)
Unheard(t) == lease = Free /\ lease' = t /\ leaked' = ~task[t].holdsLease

(* "skipped": Redis does not answer, so the batch is relayed anyway.       *)
AcquireSkipped(t) ==
    /\ Fault
    /\ At(t, "acquire")
    /\ Unheard(t) \/ UNCHANGED <<lease, leaked>>
    /\ Go(t, "held")
    /\ UNCHANGED <<rows, broken, retries>>

(* The client reconnects and sends the SET again, which the first refuses. *)
AcquireResent(t) ==
    /\ Fault
    /\ At(t, "acquire")
    /\ Unheard(t)
    /\ Go(t, IF task[t].holdsLease THEN "check" ELSE "idle")
    /\ UNCHANGED <<rows, broken, retries>>

(* isHeldByCurrentProcess, after a renewal that failed.                    *)
Check(t) ==
    /\ At(t, "check")
    /\ \/ /\ Become(t, IF lease = t THEN [task[t] EXCEPT !.at = "held", !.holdsLease = TRUE]
                       ELSE [task[t] EXCEPT !.at = "idle", !.holdsLease = FALSE])
          /\ UNCHANGED <<leaked, faults>>
       \/ /\ Fault
          /\ Become(t, [task[t] EXCEPT !.at = "idle", !.holdsLease = FALSE])
          /\ leaked' = (leaked \/ lease = t)
    /\ UNCHANGED <<rows, lease, broken, retries>>

(* The TTL of an abandoned lease runs out, that of a kept one if its task is slow. *)
Abandoned == lease = Gone \/ leaked

Expire ==
    /\ lease # Free
    /\ IF Abandoned THEN UNCHANGED faults ELSE Fault
    /\ lease' = Free /\ leaked' = FALSE
    /\ UNCHANGED <<rows, task, broken, retries>>

-----------------------------------------------------------------------------
(* The batch.                                                              *)

Locked == UNION {task[t].claimed : t \in {s \in Tasks : task[s].open}}
Due(S) == {r \in S : failedAt[r] \in {"never", "due"}}
Oldest(S) == {r \in S : Cardinality({q \in S : q < r}) < BatchSize}

(* Mutant: the run is skipped, and what it took is kept.                   *)
StoppedMeanwhileKeeping(t) ==
    /\ At(t, "held") /\ task[t].stopped
    /\ Go(t, "idle")
    /\ UNCHANGED <<rows, lease, leaked, broken, retries, faults>>

(* stop() came while the lease was being taken.                            *)
StoppedMeanwhile(t) ==
    /\ At(t, "held") /\ task[t].stopped
    /\ ReleaseLease(t, [task[t] EXCEPT !.at = "idle"])
    /\ UNCHANGED <<rows, broken, retries, faults>>

(* Mutant: the rows are read without locking them.                         *)
ClaimUnlocked(t) ==
    /\ At(t, "held") /\ ~task[t].stopped
    /\ Become(t, [task[t] EXCEPT !.at = "insert", !.open = TRUE, !.claimed = Oldest(Due(staged))])
    /\ UNCHANGED <<rows, lease, leaked, broken, retries, faults>>

(* FOR UPDATE SKIP LOCKED.                                                *)
Claim(t) ==
    /\ At(t, "held") /\ ~task[t].stopped
    /\ Become(t, [task[t] EXCEPT !.at = "insert", !.open = TRUE,
                                 !.claimed = Oldest(Due(staged \ Locked))])
    /\ UNCHANGED <<rows, lease, leaked, broken, retries, faults>>

More(count, S) == [r \in Rows |-> IF r \in S THEN count[r] + 1 ELSE count[r]]
Sent(t) == Mappable(task[t].claimed)

(* Mutant: the transaction of a failed batch is left open.                 *)
EndedLeavingOpen(t) == [task[t] EXCEPT !.at = "idle", !.claimed = {}]

(* A batch is over; if it failed, the transaction has rolled back.         *)
Ended(t) == [task[t] EXCEPT !.at = "idle", !.open = FALSE, !.claimed = {}]

(* Mutant: a task that keeps failing keeps the lease.                      *)
BackOffKeeping(t) ==
    /\ Become(t, [Ended(t) EXCEPT !.failures = (@ + 1) % HandoverAfter])
    /\ UNCHANGED <<lease, leaked>>

(* The catch block: the third failure in a row hands the lease over.       *)
BackOff(t) ==
    IF task[t].failures + 1 < HandoverAfter
    THEN /\ Become(t, [Ended(t) EXCEPT !.failures = @ + 1])
         /\ UNCHANGED <<lease, leaked>>
    ELSE ReleaseLease(t, [Ended(t) EXCEPT !.failures = 0])

ClaimFails(t) ==
    /\ Fault
    /\ At(t, "held") /\ ~task[t].stopped
    /\ BackOff(t)
    /\ UNCHANGED <<rows, broken, retries>>

(* ClickHouse acknowledges the rows, or there are none for it.             *)
Insert(t) ==
    /\ At(t, "insert") /\ (t \in broken => Sent(t) = {})
    /\ copies' = More(copies, Sent(t))
    /\ undone' = More(undone, IF task[t].open THEN {} ELSE Sent(t))
    /\ Go(t, "delete")
    /\ UNCHANGED <<written, staged, failedAt, lease, leaked, broken, retries, faults>>

(* Mutant: an insert that fails is logged, and the batch goes on.          *)
InsertFailsQuietly(t) ==
    /\ At(t, "insert") /\ t \in broken /\ Sent(t) # {}
    /\ Go(t, "delete")
    /\ UNCHANGED <<rows, lease, leaked, broken, retries, faults>>

(* The task cannot reach ClickHouse; the transaction rolls back.           *)
InsertFails(t) ==
    /\ At(t, "insert") /\ t \in broken /\ Sent(t) # {}
    /\ BackOff(t)
    /\ UNCHANGED <<rows, broken, retries, faults>>

(* The transaction does not commit, whether or not ClickHouse has its rows. *)
RolledBack(t) ==
    /\ UNCHANGED <<written, staged, failedAt>>
    /\ \E in \in IF At(t, "insert") THEN {{}, Sent(t)} ELSE {{}} :
          /\ copies' = More(copies, in)
          /\ undone' = More(undone, IF At(t, "delete") /\ task[t].open THEN Sent(t) ELSE in)

InsertAnswerLost(t) ==
    /\ Fault
    /\ At(t, "insert") /\ t \notin broken /\ Sent(t) # {}
    /\ RolledBack(t) /\ BackOff(t)
    /\ UNCHANGED <<broken, retries>>

(* Half the TTL is over: Postgres rolls back, and others may claim the rows *)
(* although the insert is still under way.                                  *)
TimesOut(t) ==
    /\ Fault
    /\ task[t].open
    /\ Become(t, [task[t] EXCEPT !.open = FALSE])
    /\ undone' = More(undone, IF At(t, "delete") THEN Sent(t) ELSE {})
    /\ UNCHANGED <<written, staged, failedAt, copies, lease, leaked, broken, retries>>

Committed(t) ==
    /\ staged' = staged \ Sent(t)
    /\ failedAt' = [r \in Rows |-> IF r \in task[t].claimed \cap Unmappable
                                   THEN "recent" ELSE failedAt[r]]
    /\ UNCHANGED <<written, copies, undone>>

(* What was inserted is deleted, what was refused is put off.              *)
Commit(t) ==
    /\ At(t, "delete") /\ task[t].open
    /\ Committed(t)
    /\ Become(t, [Ended(t) EXCEPT !.failures = 0])
    /\ UNCHANGED <<lease, leaked, broken, retries, faults>>

(* The transaction is no more.                                             *)
DeleteFails(t) ==
    /\ At(t, "delete") /\ ~task[t].open
    /\ RolledBack(t) /\ BackOff(t)
    /\ UNCHANGED <<broken, retries, faults>>

(* The commit fails, or only its answer is lost.                           *)
CommitFails(t) ==
    /\ Fault
    /\ At(t, "delete") /\ task[t].open
    /\ RolledBack(t) \/ Committed(t)
    /\ BackOff(t)
    /\ UNCHANGED <<broken, retries>>

(* FAILED_ROW_RETRY_DELAY is over.                                         *)
FallDue(r) ==
    /\ failedAt[r] = "recent" /\ retries < MaxRetries
    /\ failedAt' = [failedAt EXCEPT ![r] = "due"]
    /\ retries' = retries + 1
    /\ UNCHANGED <<written, staged, copies, undone, lease, leaked, task, broken, faults>>

-----------------------------------------------------------------------------
(* The process.                                                            *)

(* A fault local to a task, such as a broken connection pool.              *)
Break(t) ==
    /\ t \in Frail \ broken
    /\ broken' = broken \cup {t}
    /\ UNCHANGED <<rows, lease, leaked, task, retries, faults>>

(* stop(), which waits for nothing.                                        *)
Stop(t) ==
    /\ Fault
    /\ ~At(t, "down") /\ ~task[t].stopped
    /\ ReleaseLease(t, [task[t] EXCEPT !.stopped = TRUE])
    /\ UNCHANGED <<rows, broken, retries>>

(* The process ends, after its shutdown or without one.                    *)
End(t) ==
    /\ ~At(t, "down")
    /\ IF task[t].stopped THEN UNCHANGED faults ELSE Fault
    /\ RolledBack(t)
    /\ Become(t, [Started EXCEPT !.at = "down"])
    /\ lease' = IF lease = t THEN Gone ELSE lease
    /\ UNCHANGED <<leaked, broken, retries>>

Restart(t) ==
    /\ At(t, "down")
    /\ Become(t, Started)
    /\ UNCHANGED <<rows, lease, leaked, broken, retries, faults>>

-----------------------------------------------------------------------------
Lease(t) ==
    \/ Renew(t) \/ AcquireFree(t) \/ AcquireRefused(t)
    \/ AcquireSkipped(t) \/ AcquireResent(t) \/ Check(t)

Batch(t) ==
    \/ StoppedMeanwhile(t) \/ Claim(t) \/ ClaimFails(t) \/ Insert(t) \/ InsertFails(t)
    \/ InsertAnswerLost(t) \/ TimesOut(t) \/ Commit(t) \/ DeleteFails(t) \/ CommitFails(t)

Next ==
    \/ \E r \in Rows : Stage(r) \/ FallDue(r)
    \/ \E t \in Tasks : Tick(t) \/ Lease(t) \/ Batch(t) \/ Break(t) \/ Stop(t) \/ End(t) \/ Restart(t)
    \/ Expire

(* Timers fire, awaited calls return, processes that ended are replaced, and abandoned      *)
(* leases expire.  A task that finds the lease taken, and one that gave it up, ask again    *)
(* after the same half TTL, so the one that keeps asking does find it free at some time.    *)
Fairness ==
    /\ \A t \in Tasks :
          /\ WF_vars(Tick(t)) /\ WF_vars(Lease(t)) /\ WF_vars(Batch(t)) /\ WF_vars(Restart(t))
          /\ SF_vars(Tick(t) /\ lease = Free) /\ SF_vars(AcquireFree(t))
    /\ WF_vars(Abandoned /\ Expire)
    /\ \A t \in Tasks : WF_vars(task[t].stopped /\ End(t))

Spec == Init /\ [][Next]_vars
FairSpec == Spec /\ Fairness

-----------------------------------------------------------------------------
(* Properties.                                                             *)

States == [at : {"idle", "renew", "acquire", "check", "held", "insert", "delete", "down"},
           holdsLease : BOOLEAN, stopped : BOOLEAN, failures : 0..HandoverAfter - 1,
           claimed : SUBSET Rows, open : BOOLEAN]

(* Rows, tasks and the lease keep their shape; rows are locked only in a batch, and never   *)
(* more than a batch of them.                                                               *)
TypeOK ==
    /\ staged \subseteq written /\ written \subseteq Rows
    /\ failedAt \in [Rows -> {"never", "recent", "due"}]
    /\ copies \in [Rows -> Nat] /\ undone \in [Rows -> Nat]
    /\ lease \in Tasks \cup {Free, Gone} /\ leaked \in BOOLEAN
    /\ task \in [Tasks -> States]
    /\ \A t \in Tasks : task[t].open => task[t].at \in {"insert", "delete"}
    /\ \A t \in Tasks : task[t].claimed # {} => task[t].at \in {"insert", "delete"}
    /\ \A t \in Tasks : Cardinality(task[t].claimed) <= BatchSize
    /\ broken \subseteq Frail /\ retries \in 0..MaxRetries /\ faults \in 0..MaxFaults

(* An event that was staged is in the outbox until ClickHouse has it: no failure, timeout,  *)
(* lost answer or deployment in a batch takes it out before.                                *)
NoRowLost == \A r \in written : r \in staged \/ copies[r] > 0

(* A second copy of an event comes only from a batch that was rolled back after its insert: *)
(* tasks that relay at the same time, without a lease or past its end, never send one twice.*)
RepeatedOnlyRolledBack == \A r \in Rows : copies[r] <= undone[r] + 1

(* A task that was stopped, even while it was asking for the lease, leaves none behind for  *)
(* the others to wait out, unless Redis did not hear of the release, or the task not of     *)
(* the lease.                                                                               *)
StoppedLeavesNoLease ==
    \A t \in Tasks : task[t].stopped /\ At(t, "idle") => lease # t \/ leaked

(* Every event that can be mapped reaches ClickHouse, though rows that cannot come first,   *)
(* and a task that cannot insert takes the lease whenever it can.                           *)
EveryRowArrives ==
    \A r \in Mappable(Rows) : r \in written ~> (r \notin staged /\ copies[r] > 0)
=============================================================================
