------------------------ MODULE BackgroundMigrations ------------------------
(***************************************************************************)
(* Worker processes that run the rows of the background_migrations table   *)
(* one after the other (worker/src/backgroundMigrations/                   *)
(* backgroundMigrationManager.ts).  A row's lockedAt is a lease of 60 s    *)
(* renewed every 15 s; time appears as the lease going stale, which a      *)
(* healthy holder's heartbeats prevent.  Migrations are the numbers of     *)
(* their place in name order.                                              *)
(***************************************************************************)
EXTENDS Integers, FiniteSets

CONSTANTS
    Migrations,     \* the rows, in name order
    Workers,        \* worker processes, the ids they lock with
    Enabled,        \* per worker, rows without an envGate or with an open one
    Invalid,        \* rows whose validate answers no
    MaxEvents       \* bound on kills, closes, retries, stalls and throws together

ASSUME MigrationsAssumption == Migrations \subseteq Nat \ {0} /\ IsFiniteSet(Migrations)
ASSUME EnabledAssumption == Enabled \in [Workers -> SUBSET Migrations]
ASSUME InvalidAssumption == Invalid \subseteq Migrations
ASSUME BoundAssumption == MaxEvents \in Nat

VARIABLES
    row,      \* the table
    worker,   \* per worker, its manager's state
    done,     \* migrations some run of which came to its own end
    events    \* how many kills, closes, retries, stalls and throws there were

vars == <<row, worker, done, events>>

None == 0   \* activeMigration is undefined

RowStates == [holder : Workers \cup {"nobody"}, lease : {"none", "fresh", "stale"},
              finished : BOOLEAN, failed : BOOLEAN]

Pending(m) == ~row[m].finished /\ ~row[m].failed

(* Where the loop of run() is; beat: awaiting the first heartbeat; invalid,*)
(* finish, fail: awaiting the update of the row; rejected: run() threw.    *)
Places == {"pick", "beat", "validate", "invalid", "run", "finish", "fail",
           "stopped", "rejected", "dead"}

CloseSteps == {"open", "unlock", "clear", "closed", "threw"}

WorkerStates ==
    [at : Places, more : BOOLEAN, active : Migrations \cup {None},
     cur : Migrations \cup {None}, aborted : BOOLEAN,
     chains : 0..Cardinality(Migrations) + MaxEvents + 1, close : CloseSteps]

Fresh == [at |-> "pick", more |-> TRUE, active |-> None, cur |-> None,
          aborted |-> FALSE, chains |-> 0, close |-> "open"]

At(w, place) == worker[w].at = place

Init ==
    /\ row = [m \in Migrations |-> [holder |-> "nobody", lease |-> "none",
                                    finished |-> FALSE, failed |-> FALSE]]
    /\ worker = [w \in Workers |-> Fresh]
    /\ done = {}
    /\ events = [kill |-> 0, close |-> 0, retry |-> 0, stall |-> 0, throw |-> 0]

Happened == events.kill + events.close + events.retry + events.stall + events.throw

Count(kind) ==
    /\ Happened < MaxEvents
    /\ events' = [events EXCEPT ![kind] = @ + 1]

Become(w, state) == worker' = [worker EXCEPT ![w] = state]

Go(w, place) == Become(w, [worker[w] EXCEPT !.at = place])

(* The while condition is evaluated.                                       *)
Loop(state) == [state EXCEPT !.at = IF state.more THEN "pick" ELSE "stopped"]

(* The end of an iteration: activeMigration = undefined, and around again. *)
NextIteration(w) == Become(w, Loop([worker[w] EXCEPT !.active = None]))

(* An update WHERE id AND workerId: without a match it throws.             *)
Owns(w, m) == row[m].holder = w

-----------------------------------------------------------------------------
(* run().                                                                  *)

(* The rows findFirst sees.                                                *)
Candidates(w) == {m \in Enabled[w] : Pending(m)}

Acquire(w, m) ==
    /\ row' = [row EXCEPT ![m].holder = w, ![m].lease = "fresh"]
    /\ Become(w, [worker[w] EXCEPT !.at = "beat", !.active = m, !.aborted = FALSE])

(* Nothing to run: the loop ends, but an activeMigration left over from    *)
(* the previous iteration is not forgotten and goes through it once more.  *)
NothingToRun(w) ==
    /\ UNCHANGED row
    /\ Become(w, [worker[w] EXCEPT !.more = FALSE,
                      !.at = IF worker[w].active = None THEN "stopped" ELSE "beat"])

(* Mutant: only a row that nobody ever locked, or released, is taken.      *)
PickReleased(w) ==
    LET First(m) == \A n \in Candidates(w) : m <= n
    IN  /\ At(w, "pick")
        /\ \/ \E m \in Candidates(w) :
                 First(m) /\ row[m].lease = "none" /\ Acquire(w, m)
           \/ /\ \A m \in Candidates(w) : First(m) => row[m].lease # "none"
              /\ NothingToRun(w)
        /\ UNCHANGED <<done, events>>

(* Mutant: the lease is part of the query, so a later row may be found.    *)
PickUnlocked(w) ==
    LET free == {m \in Candidates(w) : row[m].lease # "fresh"}
    IN  /\ At(w, "pick")
        /\ \/ \E m \in free : (\A n \in free : m <= n) /\ Acquire(w, m)
           \/ free = {} /\ NothingToRun(w)
        /\ UNCHANGED <<done, events>>

(* The serializable transaction: the first candidate, if its lease is free. *)
Pick(w) ==
    LET First(m) == \A n \in Candidates(w) : m <= n
    IN  /\ At(w, "pick")
        /\ \/ \E m \in Candidates(w) :
                 First(m) /\ row[m].lease # "fresh" /\ Acquire(w, m)
           \/ /\ \A m \in Candidates(w) : First(m) => row[m].lease = "fresh"
              /\ NothingToRun(w)
        /\ UNCHANGED <<done, events>>

(* updateMany of the heartbeat, for the migration active when it is sent.  *)
Renewed(w) ==
    LET m == worker[w].active
    IN  IF m # None /\ Owns(w, m) /\ Pending(m)
        THEN [row EXCEPT ![m].lease = "fresh"] ELSE row

(* Mutant: the local reference is not checked after the await.             *)
FirstBeatBlind(w) ==
    /\ At(w, "beat")
    /\ row' = Renewed(w)
    /\ Become(w, [worker[w] EXCEPT !.at = "validate", !.cur = worker[w].active])
    /\ UNCHANGED <<done, events>>

(* The awaited heartbeat starts a chain of them; then the active migration *)
(* is destructured, which throws if close() took it away meanwhile.        *)
FirstBeat(w) ==
    /\ At(w, "beat")
    /\ row' = Renewed(w)
    /\ IF worker[w].active = None
       THEN Go(w, "rejected")
       ELSE Become(w, [worker[w] EXCEPT !.at = "validate", !.chains = @ + 1,
                                        !.cur = worker[w].active])
    /\ UNCHANGED <<done, events>>

(* A scheduled heartbeat; a chain ends when nothing is active.             *)
HeartBeat(w) ==
    /\ worker[w].chains > 0 /\ ~At(w, "dead")
    /\ row' = Renewed(w)
    /\ Become(w, [worker[w] EXCEPT !.chains =
                                   IF worker[w].active = None THEN @ - 1 ELSE @])
    /\ UNCHANGED <<done, events>>

(* It may also throw, which is ValidateThrows.                             *)
Validate(w) ==
    /\ At(w, "validate")
    /\ Go(w, IF worker[w].cur \in Invalid THEN "invalid" ELSE "run")
    /\ UNCHANGED <<row, done, events>>

Fail(m) == row' = [row EXCEPT ![m].failed = TRUE, ![m].lease = "none"]

Finish(m) == row' = [row EXCEPT ![m].finished = TRUE, ![m].lease = "none"]

(* continue: the next iteration starts with activeMigration still set.     *)
MarkInvalid(w) ==
    LET m == worker[w].cur
    IN  /\ At(w, "invalid")
        /\ IF Owns(w, m)
           THEN Fail(m) /\ Become(w, Loop(worker[w]))
           ELSE UNCHANGED row /\ Go(w, "rejected")
        /\ UNCHANGED <<done, events>>

(* migration.run returned: it is marked finished if one is still active.   *)
Returned(w) ==
    IF worker[w].active # None THEN Go(w, "finish") ELSE NextIteration(w)

RunCompletes(w) ==
    /\ At(w, "run")
    /\ done' = done \cup {worker[w].cur}
    /\ Returned(w)
    /\ UNCHANGED <<row, events>>

(* run() of a migration returns early, without an error, once aborted.     *)
RunAborts(w) ==
    /\ At(w, "run") /\ worker[w].aborted
    /\ Returned(w)
    /\ UNCHANGED <<row, done, events>>

(* Mutant: an exception of the migration is treated like a return.         *)
RunThrowsIgnored(w) ==
    /\ At(w, "run")
    /\ Returned(w)
    /\ UNCHANGED <<row, done, events>>

RunThrows(w) ==
    /\ At(w, "run")
    /\ Go(w, "fail")
    /\ UNCHANGED <<row, done, events>>

(* Mutant: the update does not name the worker.                            *)
MarkFinishedUnfenced(w) ==
    /\ At(w, "finish")
    /\ Finish(worker[w].cur)
    /\ NextIteration(w)
    /\ UNCHANGED <<done, events>>

(* The row was taken over: the update throws into the catch block.         *)
MarkFinished(w) ==
    LET m == worker[w].cur
    IN  /\ At(w, "finish")
        /\ IF Owns(w, m)
           THEN Finish(m) /\ NextIteration(w)
           ELSE UNCHANGED row /\ Go(w, "fail")
        /\ UNCHANGED <<done, events>>

MarkFailed(w) ==
    LET m == worker[w].cur
    IN  /\ At(w, "fail")
        /\ IF Owns(w, m)
           THEN Fail(m) /\ NextIteration(w)
           ELSE UNCHANGED row /\ Go(w, "rejected")
        /\ UNCHANGED <<done, events>>

(* An await of run() throws: validate, which reads databases, or a query   *)
(* that was refused, or applied without its answer arriving.  Only what is *)
(* inside the try goes on to the catch block; otherwise run() ends, and    *)
(* activeMigration and its heartbeats stay as they are.                    *)
Reject(w) == Go(w, "rejected")

(* The transaction rolls back, or commits, after its callback had set      *)
(* activeMigration, or rolls back before.                                  *)
PickThrows(w) ==
    /\ At(w, "pick")
    /\ \/ (UNCHANGED row /\ Reject(w))
       \/ \E m \in Candidates(w) :
             /\ \A n \in Candidates(w) : m <= n
             /\ row[m].lease # "fresh"
             /\ row' \in {row, [row EXCEPT ![m].holder = w, ![m].lease = "fresh"]}
             /\ Become(w, [worker[w] EXCEPT !.at = "rejected", !.active = m,
                                            !.aborted = FALSE])

FirstBeatThrows(w) ==
    /\ At(w, "beat") /\ worker[w].active # None
    /\ row' \in {row, Renewed(w)}
    /\ Reject(w)

ValidateThrows(w) == At(w, "validate") /\ UNCHANGED row /\ Reject(w)

VerdictThrows(w) ==
    LET m == worker[w].cur
    IN  \/ /\ worker[w].at \in {"invalid", "fail"}
           /\ UNCHANGED row \/ (Owns(w, m) /\ Fail(m))
           /\ Reject(w)
        \/ /\ At(w, "finish")
           /\ UNCHANGED row \/ (Owns(w, m) /\ Finish(m))
           /\ Go(w, "fail")

Throws(w) ==
    /\ Count("throw")
    /\ PickThrows(w) \/ FirstBeatThrows(w) \/ ValidateThrows(w) \/ VerdictThrows(w)
    /\ UNCHANGED done

-----------------------------------------------------------------------------
(* close(), at SIGTERM, while the loop of run() goes on.                   *)

CloseAbort(w) ==
    /\ ~At(w, "dead") /\ worker[w].close = "open"
    /\ Count("close")
    /\ Become(w, IF worker[w].active = None
                 THEN [worker[w] EXCEPT !.close = "closed"]
                 ELSE [worker[w] EXCEPT !.close = "unlock", !.aborted = TRUE])
    /\ UNCHANGED <<row, done>>

(* The lease is given up; it throws if nothing is active any more, or the  *)
(* row is another worker's, or the database or its answer is lost.         *)
CloseUnlock(w) ==
    LET m    == worker[w].active
        free == [row EXCEPT ![m].lease = "none"]
        End(step) == Become(w, [worker[w] EXCEPT !.close = step])
    IN  /\ ~At(w, "dead") /\ worker[w].close = "unlock"
        /\ IF m # None /\ Owns(w, m)
           THEN \/ row' = free /\ End("clear")
                \/ row' \in {row, free} /\ End("threw")
           ELSE UNCHANGED row /\ End("threw")
        /\ UNCHANGED <<done, events>>

CloseClear(w) ==
    /\ ~At(w, "dead") /\ worker[w].close = "clear"
    /\ Become(w, [worker[w] EXCEPT !.active = None,
                      !.close = IF worker[w].active = None THEN "threw" ELSE "closed"])
    /\ UNCHANGED <<row, done, events>>

-----------------------------------------------------------------------------
(* The process ends, killed or after its shutdown; another one starts.     *)
Kill(w) ==
    /\ ~At(w, "dead")
    /\ Count("kill")
    /\ Become(w, [Fresh EXCEPT !.at = "dead"])
    /\ UNCHANGED <<row, done>>

Restart(w) ==
    /\ At(w, "dead")
    /\ Become(w, Fresh)
    /\ UNCHANGED <<row, done, events>>

(* An administrator retries a failed migration (the UI offers it for those). *)
Retry(m) ==
    /\ row[m].failed
    /\ Count("retry")
    /\ row' = [row EXCEPT ![m].failed = FALSE, ![m].finished = FALSE]
    /\ UNCHANGED <<worker, done>>

(* Nobody renews the lease of m.                                           *)
Unattended(m) ==
    LET w == row[m].holder
    IN  At(w, "dead") \/ worker[w].active # m \/ (worker[w].chains = 0 /\ ~At(w, "beat"))

(* 60 s without a heartbeat; a live holder may stall that long.            *)
Expire(m) ==
    /\ row[m].lease = "fresh"
    /\ IF Unattended(m) THEN UNCHANGED events ELSE Count("stall")
    /\ row' = [row EXCEPT ![m].lease = "stale"]
    /\ UNCHANGED <<worker, done>>

-----------------------------------------------------------------------------
RunStep(w) ==
    \/ Pick(w) \/ FirstBeat(w) \/ Validate(w) \/ MarkInvalid(w)
    \/ RunCompletes(w) \/ RunAborts(w) \/ RunThrows(w)
    \/ MarkFinished(w) \/ MarkFailed(w)

CloseStep(w) == CloseUnlock(w) \/ CloseClear(w)

Next ==
    \/ \E w \in Workers : \/ RunStep(w) \/ Throws(w) \/ HeartBeat(w)
                          \/ CloseAbort(w) \/ CloseStep(w)
                          \/ Kill(w) \/ Restart(w)
    \/ \E m \in Migrations : Retry(m) \/ Expire(m)

Spec == Init /\ [][Next]_vars

(* Awaited calls return and timers fire; migrations come to an end.        *)
(* Nothing makes a process restart or an operator act.                     *)
FairSpec ==
    /\ Spec
    /\ \A w \in Workers :
          WF_vars(RunStep(w)) /\ WF_vars(CloseStep(w)) /\ WF_vars(HeartBeat(w))
    /\ \A m \in Migrations : WF_vars(Expire(m) /\ Unattended(m))

-----------------------------------------------------------------------------
(* Properties.                                                             *)

Working == {"validate", "invalid", "run", "finish", "fail"}

(* Rows and managers keep their shape, and a worker past its first         *)
(* heartbeat knows which migration it works on.                            *)
TypeOK ==
    /\ row \in [Migrations -> RowStates]
    /\ worker \in [Workers -> WorkerStates]
    /\ \A w \in Workers : worker[w].at \in Working => worker[w].cur # None
    /\ \A m \in Migrations : row[m].lease # "none" => row[m].holder \in Workers
    /\ done \subseteq Migrations

(* Leases are renewed in time, and nobody closes a manager or retries.     *)
Calm == events.stall = 0 /\ events.close = 0 /\ events.retry = 0

(* One migration runs at a time: whatever is killed and restarted, no two  *)
(* workers are inside migration.run, if leases are renewed in time and no  *)
(* settled row becomes pending again.                                      *)
OneAtATime ==
    Calm => \A v, w \in Workers : At(v, "run") /\ At(w, "run") => v = w

(* Even when leases lapse, processes stop and others take over, a row is   *)
(* never settled under the worker that holds it and runs it: a worker that *)
(* lost its lease cannot write its verdict.                                *)
NotSettledUnderHolder ==
    \A w \in Workers : At(w, "run") /\ Owns(w, worker[w].cur) => Pending(worker[w].cur)

(* A migration marked finished was run to its end by somebody, and not     *)
(* just until it was aborted or threw, unless a manager was closed.        *)
FinishedWasDone ==
    events.close = 0 => \A m \in Migrations : row[m].finished => m \in done

(* Whatever was killed, closed, retried, thrown or stalled before: once a  *)
(* worker starts its loop while no lease is fresh, none is renewed by a    *)
(* manager that is not at work on it, and no close() is under way, every   *)
(* migration open to all workers is finished or failed in the end, by this *)
(* worker or another, unless something happens again.                      *)
Clings(w) ==
    LET m == worker[w].active
    IN  /\ worker[w].at \notin Working \cup {"beat"} \/ ~worker[w].more
        /\ m # None /\ Owns(w, m) /\ Pending(m)

TakeOver ==
    /\ \E w \in Workers : At(w, "pick")
    /\ \A w \in Workers : ~Clings(w)
    /\ \A m \in Migrations : row[m].lease # "fresh"
    /\ \A w \in Workers : worker[w].close \notin {"unlock", "clear"}

AllSettle ==
    \A m \in Migrations, n \in 0..MaxEvents :
        (\A w \in Workers : m \in Enabled[w])
            => ((TakeOver /\ Happened = n) ~> (~Pending(m) \/ Happened # n))
=============================================================================
