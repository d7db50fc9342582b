--------------------------- MODULE InAppAgentRuns ---------------------------
(***************************************************************************)
(* The durable runs of one conversation with the in-app agent: the rows of *)
(* in_app_agent_runs, the events of the conversation, the job of each run, *)
(* and the processes that change them.  Web processes create runs, decide  *)
(* approvals and cancel; the worker that claimed a run heartbeats, appends *)
(* events and finishes it; readers (a page that opens the conversation,    *)
(* the integrity runner, a job that found nothing to claim) fail stale     *)
(* runs and delete the MCP keys of finished ones.                          *)
(*                                                                         *)
(* Creating, deciding, cancelling and appending hold the row lock of the   *)
(* conversation, so one of them at a time is open (tx); claiming,          *)
(* heartbeating, reconciling and finishClaimedRun do not, and rely on      *)
(* compare-and-set alone.  A transaction is one action from its first      *)
(* write on, because its row locks keep others off what it wrote, and a    *)
(* separate action for the reads before.                                   *)
(***************************************************************************)
EXTENDS Naturals, Sequences

CONSTANTS
    Readers,    \* concurrent reconciliations
    MaxRuns,    \* bound on the runs of the conversation
    MaxBeats,   \* bound on the heartbeats of a run
    MaxFaults   \* bound on crashes, lost calls and refused writes

ASSUME RunsAssumption == MaxRuns \in Nat /\ MaxBeats \in Nat /\ MaxFaults \in Nat

Runs == 1..MaxRuns
Unsettled == {"QUEUED", "RUNNING", "AWAITING_APPROVAL"}
Settled == {"SUCCEEDED", "FAILED", "CANCELLED"}

VARIABLES
    run,              \* the rows of the runs, in the order they are created
    log,              \* the events of the conversation by sequence number
    tx,               \* the transaction that holds the lock of the conversation row
    deleted,          \* the conversation's deletedAt is set
    keys, pointers,   \* runs whose MCP key is live, runs whose mcpApiKeyId is set
    job,              \* the job of the run: "adding" in queue.add, "waiting" for a worker
    worker,           \* the process that executes the run
    op,               \* what a reader is in the middle of
    faults

vars == <<run, log, tx, deleted, keys, pointers, job, worker, op, faults>>
conversation == <<run, log, tx, deleted>>
access == <<keys, pointers>>
actors == <<job, worker, op>>

(* A row as it enters a status.  Of the error codes those are told apart that a property     *)
(* asks for.  heartbeatAt is a count of heartbeats; it and cancelRequestedAt are kept only   *)
(* while the run is RUNNING, the one status in which they are read.  age says which deadline *)
(* of its status the row has missed: that of the heartbeat, or that of the status itself.    *)
Row(status, code, approved) ==
    [status |-> status, code |-> code, approved |-> approved, age |-> "fresh",
     heartbeatAt |-> 0, cancelRequested |-> FALSE]
NoRow == Row("none", "none", FALSE)

(* Mutant: a status inherits the deadlines of the one before it. *)
ToKeeping(row, status, code) == [row EXCEPT !.status = status, !.code = code]

To(row, status, code) == Row(status, code, row.approved)

Move(S, status, code) ==
    [r \in Runs |-> IF r \in S THEN To(run[r], status, code) ELSE run[r]]

Idle == [doing |-> "idle"]
NoWorker == [at |-> "none", pending |-> FALSE, told |-> FALSE, abort |-> "none", thrown |-> FALSE]
Gone == [NoWorker EXCEPT !.at = "gone"]

Is(r, status) == run[r].status = status
Created == {r \in Runs : ~Is(r, "none")}
Active == {r \in Runs : Is(r, "QUEUED") \/ Is(r, "RUNNING")}     \* finishedAt is null
Fresh == {r \in Runs \ Created : \A q \in Runs : q < r => q \in Created}
Fault == faults < MaxFaults /\ faults' = faults + 1
Event(r, what) == [run |-> r, what |-> what]
EventsOf(r) == {log[i].what : i \in {j \in DOMAIN log : log[j].run = r}}

Init ==
    /\ run = [r \in Runs |-> NoRow] /\ log = <<>> /\ tx = Idle /\ deleted = FALSE
    /\ keys = {} /\ pointers = {}
    /\ job = [r \in Runs |-> "none"] /\ worker = [r \in Runs |-> NoWorker]
    /\ op = [p \in Readers |-> Idle] /\ faults = 0

(***************************************************************************)
(* Time.                                                                   *)
(***************************************************************************)
HeartbeatAges(r) ==
    /\ Is(r, "RUNNING") /\ run[r].age = "fresh"
    /\ run' = [run EXCEPT ![r].age = "stale"]
    /\ UNCHANGED <<log, tx, deleted, access, actors, faults>>

DeadlinePasses(r) ==
    /\ run[r].status \in Unsettled /\ run[r].age # "overdue"
    /\ run' = [run EXCEPT ![r].age = "overdue"]
    /\ UNCHANGED <<log, tx, deleted, access, actors, faults>>

(***************************************************************************)
(* Reconciliation.                                                         *)
(***************************************************************************)
(* Mutant: a run is lost when its heartbeat is, and at no other time. *)
IsStaleByHeartbeat(r) ==
    \/ run[r].status \in Unsettled \ {"RUNNING"} /\ run[r].age = "overdue"
    \/ Is(r, "RUNNING") /\ run[r].age = "stale"

(* classifyStaleRun. *)
IsStale(r) ==
    \/ run[r].status \in Unsettled /\ run[r].age = "overdue"
    \/ Is(r, "RUNNING") /\ run[r].age = "stale"

FailureOf(r) == IF run[r].age = "stale" THEN "worker_lost" ELSE "other"

(* The stale rows as a reconciliation reads them. *)
StaleRuns ==
    {[run |-> r, status |-> run[r].status, heartbeatAt |-> run[r].heartbeatAt,
      code |-> FailureOf(r)] : r \in {q \in Runs : IsStale(q)}}

(* Mutant: the compare-and-set ignores the heartbeat it read. *)
UnmovedStatus(seen) == {s \in seen : Is(s.run, s.status)}

(* Those that are still as they were read. *)
Unmoved(seen) ==
    {s \in seen : /\ Is(s.run, s.status)
                  /\ s.code = "worker_lost" => run[s.run].heartbeatAt = s.heartbeatAt}

Failed(seen) ==
    [r \in Runs |-> IF \E s \in Unmoved(seen) : s.run = r
                    THEN To(run[r], "FAILED", (CHOOSE s \in Unmoved(seen) : s.run = r).code)
                    ELSE run[r]]

Does(p, what) == op' = [op EXCEPT ![p] = what]

ReadStale(p) ==
    /\ op[p] = Idle /\ StaleRuns # {}
    /\ Does(p, [doing |-> "reconcile", seen |-> StaleRuns])
    /\ UNCHANGED <<conversation, access, job, worker, faults>>

WriteStale(p) ==
    /\ op[p].doing = "reconcile"
    /\ run' = Failed(op[p].seen)
    /\ Does(p, Idle)
    /\ UNCHANGED <<log, tx, deleted, access, job, worker, faults>>

(* cleanupTerminalRunMcpApiKeys, for one run of its list.  A reader that dies leaves nothing *)
(* behind but the pointer to a deleted key, as CleanupFails does.                            *)
CleanDelete(p, r) ==
    /\ op[p] = Idle /\ r \in pointers \cap (Created \ Active)
    /\ keys' = keys \ {r}
    /\ Does(p, [doing |-> "clear", run |-> r])
    /\ UNCHANGED <<conversation, pointers, job, worker, faults>>

CleanClear(p) ==
    /\ op[p].doing = "clear"
    /\ pointers' = pointers \ {op[p].run}
    /\ Does(p, Idle)
    /\ UNCHANGED <<conversation, keys, job, worker, faults>>

(***************************************************************************)
(* The worker.                                                             *)
(***************************************************************************)
At(r, where) == worker' = [worker EXCEPT ![r].at = where]
Leaves(r) == worker' = [worker EXCEPT ![r] = Gone]
Flushing(r) == [doing |-> "flush", run |-> r]

Claim(r) ==
    /\ job[r] = "waiting" /\ Is(r, "QUEUED")
    /\ run' = Move({r}, "RUNNING", "none")
    /\ job' = [job EXCEPT ![r] = "none"]
    /\ At(r, "init")
    /\ UNCHANGED <<log, tx, deleted, access, op, faults>>

(* Duplicate delivery, or a run that was settled in the queue: reconcile and acknowledge. *)
ClaimMiss(r, p) ==
    /\ job[r] = "waiting" /\ ~Is(r, "QUEUED") /\ op[p] = Idle
    /\ job' = [job EXCEPT ![r] = "none"]
    /\ Does(p, [doing |-> "reconcile", seen |-> StaleRuns])
    /\ UNCHANGED <<conversation, access, worker, faults>>

InitFails(r) ==
    /\ worker[r].at = "init"
    /\ At(r, "catch")
    /\ UNCHANGED <<conversation, access, job, op, faults>>

(* The key and the pointer to it are written together, whatever has become of the run by now. *)
MintKey(r) ==
    /\ worker[r].at = "init"
    /\ keys' = keys \cup {r} /\ pointers' = pointers \cup {r}
    /\ At(r, "loop")
    /\ UNCHANGED <<conversation, job, op, faults>>

InLoop(r) == worker[r].at = "loop" /\ worker[r].abort = "none" /\ tx # Flushing(r)

Heartbeat(r) ==
    /\ worker[r].at = "loop" /\ worker[r].abort = "none"
    /\ IF Is(r, "RUNNING")
       THEN /\ run[r].heartbeatAt < MaxBeats
            /\ run' = [run EXCEPT ![r].heartbeatAt = @ + 1,
                                  ![r].age = IF @ = "stale" THEN "fresh" ELSE @]
            /\ worker' = [worker EXCEPT ![r].abort =
                              IF run[r].cancelRequested THEN "cancelled" ELSE "none"]
       ELSE worker' = [worker EXCEPT ![r].abort = "fenced"] /\ UNCHANGED run
    /\ UNCHANGED <<log, tx, deleted, access, job, op, faults>>

(* SIGTERM aborts the loops of the process. *)
WorkerShutdown(r) ==
    /\ Fault
    /\ worker[r].at = "loop" /\ worker[r].abort = "none"
    /\ worker' = [worker EXCEPT ![r].abort = "worker_shutdown"]
    /\ UNCHANGED <<conversation, access, job, op>>

(* The agent produces events: text, or the result of the call that was approved, which       *)
(* counts as told from then on.  Bound: one unit at a time is pending, one of a run stored.  *)
Unit(r) == IF run[r].approved THEN "result" ELSE "text"
Pending(r) == IF worker[r].pending THEN <<Event(r, Unit(r))>> ELSE <<>>

Produce(r) ==
    /\ InLoop(r) /\ ~worker[r].pending /\ Unit(r) \notin EventsOf(r)
    /\ worker' = [worker EXCEPT ![r].pending = TRUE, ![r].told = run[r].approved]
    /\ UNCHANGED <<conversation, access, job, op, faults>>

(* Mutant: the events go in without a look at who owns the run. *)
FlushUnfenced(r) ==
    /\ InLoop(r) /\ worker[r].pending /\ tx = Idle
    /\ tx' = Flushing(r)
    /\ UNCHANGED <<run, log, deleted, access, actors, faults>>

(* appendRunEvents without an end: ownership is read under the lock, then the events go in. *)
FlushCheck(r) ==
    /\ InLoop(r) /\ worker[r].pending /\ tx = Idle
    /\ IF Is(r, "RUNNING")
       THEN tx' = Flushing(r) /\ UNCHANGED worker
       ELSE worker' = [worker EXCEPT ![r].pending = FALSE] /\ UNCHANGED tx
    /\ UNCHANGED <<run, log, deleted, access, job, op, faults>>

FlushAppend(r) ==
    /\ tx = Flushing(r)
    /\ log' = log \o Pending(r)
    /\ worker' = [worker EXCEPT ![r].pending = FALSE]
    /\ tx' = Idle
    /\ UNCHANGED <<run, deleted, access, job, op, faults>>

(* Mutant: the way the run was stopped is recorded, whatever it was doing. *)
FailureCodeOfAbort(r, otherwise) == otherwise

FailureCode(r, otherwise) ==
    IF run[r].approved /\ ~worker[r].told THEN "outcome_unknown" ELSE otherwise

(* appendRunEvents with an end: what is pending and the status go in together, or neither. *)
(* A flush that was under way has ended, or has failed and rolled back.                    *)
Finish(r, status, code, last) ==
    /\ tx \in {Idle, Flushing(r)} /\ tx' = Idle
    /\ IF Is(r, "RUNNING")
       THEN run' = Move({r}, status, code) /\ log' = log \o Pending(r) \o last
       ELSE UNCHANGED <<run, log>>
    /\ worker' = [worker EXCEPT ![r].at = "cleanup", ![r].pending = FALSE]
    /\ UNCHANGED <<deleted, access, job, op, faults>>

Complete(r) ==
    /\ InLoop(r)
    /\ \/ Finish(r, "SUCCEEDED", "none", <<>>)
       \/ Finish(r, "AWAITING_APPROVAL", "none", <<Event(r, "interrupt")>>)

Aborted(r) ==
    /\ worker[r].at = "loop" /\ tx # Flushing(r)
    /\ \/ /\ worker[r].abort = "fenced"
          /\ worker' = [worker EXCEPT ![r].at = "cleanup", ![r].pending = FALSE]
          /\ UNCHANGED <<conversation, access, job, op, faults>>
       \/ /\ worker[r].abort = "cancelled"
          /\ IF FailureCode(r, "cancelled") = "cancelled"
             THEN Finish(r, "CANCELLED", "cancelled", <<>>)
             ELSE Finish(r, "FAILED", "outcome_unknown", <<>>)
       \/ /\ worker[r].abort = "worker_shutdown"
          /\ Finish(r, "FAILED", FailureCode(r, "worker_shutdown"), <<>>)

(* The agent fails, or the write of a flush or of the end is refused: failStream, onError. *)
(* The write in the outer catch that follows finds the run settled and changes nothing.    *)
LoopFails(r) ==
    /\ worker[r].at = "loop"
    /\ Finish(r, "FAILED", FailureCode(r, "other"), <<>>)

(* The last write is refused too.  An aborted run swallows that; otherwise the catch is next. *)
LastWriteFails(r) ==
    /\ Fault
    /\ worker[r].at = "loop" /\ worker[r].abort # "fenced" /\ tx # Flushing(r)
    /\ worker' = [worker EXCEPT ![r].at = "cleanup", ![r].pending = FALSE,
                                ![r].thrown = worker[r].abort = "none"]
    /\ UNCHANGED <<conversation, access, job, op>>

(* Mutant: the pointer is cleared before the key is deleted. *)
DeleteKeyLast(r) ==
    /\ worker[r].at = "cleanup"
    /\ pointers' = pointers \ {r}
    /\ At(r, "clear")
    /\ UNCHANGED <<conversation, keys, job, op, faults>>

(* cleanupMcpApiKey: the pointer goes only after the key. *)
DeleteKey(r) ==
    /\ worker[r].at = "cleanup"
    /\ keys' = keys \ {r}
    /\ At(r, "clear")
    /\ UNCHANGED <<conversation, pointers, job, op, faults>>

AfterCleanup(r) == IF worker[r].thrown THEN At(r, "catch") ELSE Leaves(r)

ClearPointer(r) ==
    /\ worker[r].at = "clear"
    /\ pointers' = pointers \ {r}
    /\ AfterCleanup(r)
    /\ UNCHANGED <<conversation, keys, job, op, faults>>

CleanupFails(r) ==
    /\ Fault
    /\ worker[r].at \in {"cleanup", "clear"}
    /\ AfterCleanup(r)
    /\ UNCHANGED <<conversation, access, job, op>>

(* finishClaimedRun in the outer catch: no lock, no events.  Then the cleanup, once more. *)
AfterCatch(r) ==
    /\ worker' = [worker EXCEPT ![r] = IF worker[r].thrown
                                       THEN [@ EXCEPT !.at = "cleanup", !.thrown = FALSE]
                                       ELSE Gone]
    /\ UNCHANGED <<log, tx, deleted, access, job, op, faults>>

(* Initialisation may fail before the worker knows that the run continues an approval. *)
CatchCodes(r) == {FailureCode(r, "other")} \cup IF worker[r].thrown THEN {} ELSE {"other"}

(* Mutant: the last write does not ask whether the run is still the worker's. *)
CatchUnfenced(r) ==
    /\ worker[r].at = "catch"
    /\ \E code \in CatchCodes(r) : run' = Move({r}, "FAILED", code)
    /\ AfterCatch(r)

Catch(r) ==
    /\ worker[r].at = "catch"
    /\ IF Is(r, "RUNNING")
       THEN \E code \in CatchCodes(r) : run' = Move({r}, "FAILED", code)
       ELSE UNCHANGED run
    /\ AfterCatch(r)

(* The process dies, or throws out of the catch.  Its job comes back: BullMQ returns a  *)
(* stalled one, the dead-letter runner of this queue a failed one.                      *)
WorkerDies(r) ==
    /\ Fault
    /\ worker[r].at \notin {"none", "gone"}
    /\ Leaves(r)
    /\ tx' = IF tx = Flushing(r) THEN Idle ELSE tx
    /\ job' = [job EXCEPT ![r] = "waiting"]
    /\ UNCHANGED <<run, log, deleted, access, op>>

(* The job stalls while its worker lives on. *)
JobStalls(r) ==
    /\ Fault
    /\ worker[r].at \notin {"none", "gone"}
    /\ job' = [job EXCEPT ![r] = "waiting"]
    /\ UNCHANGED <<conversation, access, worker, op>>

(***************************************************************************)
(* The web: create, decide, cancel, delete, enqueue.                       *)
(***************************************************************************)
Begin(what) ==
    /\ tx = Idle /\ ~deleted
    /\ tx' = what
    /\ UNCHANGED <<run, log, deleted, access, actors, faults>>

CreateBegin == Fresh # {} /\ Begin([doing |-> "create", seen |-> StaleRuns])

(* Mutant: a parked approval is left as it is. *)
CreateBesideParked(rows, n) ==
    /\ run' = [r \in Runs |-> IF r = n THEN Row("QUEUED", "none", FALSE) ELSE rows[r]]
    /\ log' = Append(log, Event(n, "input"))
    /\ job' = [job EXCEPT ![n] = "adding"]

(* Supersede a parked approval, insert the run, append its input; then the job is added. *)
Create(rows, n) ==
    /\ run' = [r \in Runs |-> CASE r = n -> Row("QUEUED", "none", FALSE)
                                [] rows[r].status = "AWAITING_APPROVAL" ->
                                       To(rows[r], "CANCELLED", "other")
                                [] OTHER -> rows[r]]
    /\ log' = Append(log, Event(n, "input"))
    /\ job' = [job EXCEPT ![n] = "adding"]

(* Reconcile first, and refuse, which rolls all of it back, if a run is still active. *)
CreateCommit ==
    /\ tx.doing = "create" /\ tx' = Idle
    /\ LET rows == Failed(tx.seen)
       IN IF \E r \in Runs : rows[r].status \in {"QUEUED", "RUNNING"}
          THEN UNCHANGED <<run, log, job>>
          ELSE \E n \in Fresh : Create(rows, n)
    /\ UNCHANGED <<deleted, access, worker, op, faults>>

DecideBegin(r, yes) ==
    /\ Fresh # {} /\ Is(r, "AWAITING_APPROVAL")
    /\ Begin([doing |-> "decide", run |-> r, yes |-> yes, expired |-> run[r].age = "overdue"])

(* The parent is done, the decision is an event of it, the continuation is queued. *)
Decide(r, n) ==
    /\ run' = [run EXCEPT ![r] = To(@, "SUCCEEDED", "none"), ![n] = Row("QUEUED", "none", tx.yes)]
    /\ log' = Append(log, Event(r, "decision"))
    /\ job' = [job EXCEPT ![n] = "adding"]

(* The compare-and-set on the parent is the exactly-once decision. *)
DecideCommit ==
    /\ tx.doing = "decide" /\ tx' = Idle
    /\ IF ~Is(tx.run, "AWAITING_APPROVAL")
       THEN UNCHANGED <<run, log, job>>
       ELSE IF tx.expired
       THEN run' = Move({tx.run}, "FAILED", "other") /\ UNCHANGED <<log, job>>
       ELSE \E n \in Fresh : Decide(tx.run, n)
    /\ UNCHANGED <<deleted, access, worker, op, faults>>

(* Cancel one run, or every unsettled run of a conversation that is deleted with it. *)
CancelBegin(S, deleting) ==
    Begin([doing |-> "cancel", seen |-> [r \in S |-> run[r].status], deleting |-> deleting])

Unread(r) == tx.seen[r] # "RUNNING" /\ Is(r, tx.seen[r])

Cancel(idle, signalled) ==
    /\ run' = [r \in Runs |->
                  CASE r \in idle -> To(run[r], "CANCELLED",
                                        IF Is(r, "QUEUED") THEN "cancelled" ELSE "other")
                    [] r \in signalled -> [run[r] EXCEPT !.cancelRequested = TRUE]
                    [] OTHER -> run[r]]
    /\ \E removed \in SUBSET {r \in idle : job[r] = "waiting"} :
          job' = [r \in Runs |-> IF r \in removed THEN "none" ELSE job[r]]

(* Mutant: a run that was claimed since is not signalled. *)
CancelCommitUnsignalled ==
    /\ tx.doing = "cancel" /\ tx' = Idle
    /\ LET idle == {r \in DOMAIN tx.seen : Unread(r)}
       IN Cancel(idle, {r \in DOMAIN tx.seen : Is(r, "RUNNING") /\ tx.seen[r] = "RUNNING"})
    /\ deleted' = (deleted \/ tx.deleting)
    /\ UNCHANGED <<log, access, worker, op, faults>>

(* An idle run is cancelled if it is still as it was read; a running one is signalled, also *)
(* one that was claimed since.                                                              *)
CancelCommit ==
    /\ tx.doing = "cancel" /\ tx' = Idle
    /\ LET idle == {r \in DOMAIN tx.seen : Unread(r)}
       IN Cancel(idle, {r \in DOMAIN tx.seen \ idle : Is(r, "RUNNING")})
    /\ deleted' = (deleted \/ tx.deleting)
    /\ UNCHANGED <<log, access, worker, op, faults>>

(* The web process dies in a transaction, which rolls back. *)
TransactionDies ==
    /\ Fault
    /\ tx.doing \in {"create", "decide", "cancel"} /\ tx' = Idle
    /\ UNCHANGED <<run, log, deleted, access, actors>>

Enqueue(r) ==
    /\ job[r] = "adding"
    /\ job' = [job EXCEPT ![r] = "waiting"]
    /\ UNCHANGED <<conversation, access, worker, op, faults>>

(* queue.add throws, or the process dies before it: the run is left QUEUED. *)
AddThrows(r) ==
    /\ Fault
    /\ job[r] = "adding"
    /\ \E state \in {"refused", "none"} : job' = [job EXCEPT ![r] = state]
    /\ UNCHANGED <<conversation, access, worker, op>>

EnqueueFailed(r) ==
    /\ job[r] = "refused"
    /\ run' = IF Is(r, "QUEUED") THEN Move({r}, "FAILED", "other") ELSE run
    /\ job' = [job EXCEPT ![r] = "none"]
    /\ UNCHANGED <<log, tx, deleted, access, worker, op, faults>>

(***************************************************************************)
(* The specification.                                                      *)
(***************************************************************************)
Time(r) == HeartbeatAges(r) \/ DeadlinePasses(r)

Loop(r) ==
    \/ Heartbeat(r) \/ WorkerShutdown(r) \/ Produce(r) \/ FlushCheck(r) \/ FlushAppend(r)
    \/ Complete(r) \/ Aborted(r) \/ LoopFails(r) \/ LastWriteFails(r)

Work(r) ==
    \/ Claim(r) \/ InitFails(r) \/ MintKey(r) \/ Loop(r) \/ DeleteKey(r) \/ ClearPointer(r)
    \/ CleanupFails(r) \/ Catch(r) \/ WorkerDies(r) \/ JobStalls(r)

Read(p) ==
    \/ ReadStale(p) \/ WriteStale(p) \/ CleanClear(p)
    \/ \E r \in Runs : CleanDelete(p, r) \/ ClaimMiss(r, p)

Request ==
    \/ CreateBegin \/ CreateCommit \/ DecideCommit \/ CancelCommit \/ TransactionDies
    \/ \E r \in Runs : \/ Enqueue(r) \/ AddThrows(r) \/ EnqueueFailed(r)
                       \/ \E yes \in BOOLEAN : DecideBegin(r, yes)
                       \/ run[r].status \in Unsettled /\ CancelBegin({r}, FALSE)
    \/ CancelBegin({r \in Runs : run[r].status \in Unsettled}, TRUE)

Next ==
    \/ \E r \in Runs : Time(r) \/ Work(r)
    \/ \E p \in Readers : Read(p)
    \/ Request

(* Time passes, and the integrity runner goes on reading and failing what is stale. *)
Fairness ==
    /\ \A r \in Runs : WF_vars(DeadlinePasses(r))
    /\ \A p \in Readers : WF_vars(ReadStale(p)) /\ WF_vars(WriteStale(p)) /\ WF_vars(CleanClear(p))

Spec == Init /\ [][Next]_vars
FairSpec == Spec /\ Fairness

(***************************************************************************)
(* Properties.                                                             *)
(***************************************************************************)
Statuses == Unsettled \cup Settled \cup {"none"}
Codes == {"none", "other", "worker_lost", "cancelled", "worker_shutdown", "outcome_unknown"}
Rows == [status : Statuses, code : Codes, approved : BOOLEAN, age : {"fresh", "stale", "overdue"},
         heartbeatAt : 0..MaxBeats, cancelRequested : BOOLEAN]
Events == [run : Runs, what : {"input", "text", "result", "interrupt", "decision"}]
Workers == [at : {"none", "init", "loop", "cleanup", "clear", "catch", "gone"}, pending : BOOLEAN,
            told : BOOLEAN, abort : {"none", "fenced", "cancelled", "worker_shutdown"},
            thrown : BOOLEAN]
Seen == SUBSET [run : Runs, status : Statuses, heartbeatAt : 0..MaxBeats, code : Codes]

(* Rows and processes keep their shape; only a running row carries a heartbeat or a request *)
(* to cancel, and only a settled one an error code.                                         *)
TypeOK ==
    /\ run \in [Runs -> Rows] /\ log \in Seq(Events)
    /\ \A r \in Runs :
          /\ ~Is(r, "RUNNING") => run[r].heartbeatAt = 0 /\ ~run[r].cancelRequested
          /\ run[r].age = "stale" => Is(r, "RUNNING")
          /\ run[r].code # "none" => run[r].status \in {"FAILED", "CANCELLED"}
    /\ deleted \in BOOLEAN /\ keys \subseteq Runs /\ pointers \subseteq Runs
    /\ job \in [Runs -> {"none", "adding", "refused", "waiting"}]
    /\ worker \in [Runs -> Workers]
    /\ faults \in 0..MaxFaults

(* A conversation has at most one run that is queued, running or parked: no second worker  *)
(* acts for the user while one is still able to, and an approval is the last word.         *)
OneUnsettled ==
    \A r, q \in Runs : run[r].status \in Unsettled /\ run[q].status \in Unsettled => r = q

(* A settled run keeps its status and its error code, whoever else still believes to own   *)
(* it: the worker that was declared lost, a late cancellation, a failed enqueue.           *)
SettledStays ==
    [][\A r \in Runs : run[r].status \in Settled => run'[r] = run[r]]_vars

(* The events of the conversation are grouped by run, oldest run first: a worker that lost *)
(* its run cannot append behind the input of the next one, so the history replays in order.*)
EventsInRunOrder ==
    \A i, j \in DOMAIN log : i < j => log[i].run <= log[j].run

(* A run that continues an approved call and was aborted by a cancellation or a deploy is  *)
(* recorded as such only if the result of the call is in the history; otherwise the user   *)
(* is told that the outcome is unknown.                                                    *)
AbortTellsOutcome ==
    \A r \in Runs :
        /\ run[r].approved /\ worker[r].at # "none"
        /\ run[r].code \in {"cancelled", "worker_shutdown"}
        => "result" \in EventsOf(r)

(* A cancellation that was answered is not forgotten: its run has settled, or its row says *)
(* so to the worker that runs it, even if the worker claimed it in the middle of the call. *)
CancelHeeded ==
    [][tx.doing = "cancel" /\ tx' = Idle /\ faults' = faults =>
           \A r \in DOMAIN tx.seen :
               run'[r].status \in Settled \/ run'[r].cancelRequested]_vars

(* Every live MCP key can be found through the row of its run, until it is deleted.        *)
KeysAreNamed == keys \subseteq pointers

(* A run is failed as lost only while its last heartbeat is too old, even if a heartbeat   *)
(* came between the reader's read and its write.                                           *)
LostOnlyIfStale ==
    [][\A r \in Runs : run[r].code # "worker_lost" /\ run'[r].code = "worker_lost" =>
           run[r].age # "fresh"]_vars

(* Every run settles: no crash, hung tool, lost job or forgotten approval holds the        *)
(* conversation for ever.                                                                  *)
AllRunsSettle ==
    \A r \in Runs : run[r].status \in Unsettled ~> run[r].status \in Settled
=============================================================================
