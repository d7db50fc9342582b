--------------------------- MODULE TraceBatching ---------------------------
(***************************************************************************)
(* The readiness of traces in Redis and the dispatch of those that are due *)
(* into batch jobs (worker/src/features/traceBatching).  Every update of a *)
(* trace postpones it and gives it a new revision; a dispatcher that holds *)
(* the lock collects what is due, reads it once more, adds it to jobs, and *)
(* acknowledges the revisions it read.  Each script of Redis is an action. *)
(***************************************************************************)
EXTENDS Naturals, FiniteSets

CONSTANTS
    Traces,        \* traces of one shard
    Dispatchers,   \* worker processes
    MaxSize,       \* traces of a job
    MaxEstimate,   \* updates of a trace beyond which it is excluded
    MaxUpdates,    \* bound on the updates of each trace
    MaxTroubles    \* bound on shutdowns, crashes, lapses of the lock and lost calls together

ASSUME SizeAssumption == {MaxSize, MaxEstimate} \subseteq Nat \ {0} /\ MaxUpdates \in [Traces -> Nat]
ASSUME BoundAssumption == MaxTroubles \in Nat

Free == "free"
Dead == "dead"   \* the token of a process that has ended
ASSUME TokenAssumption == {Free, Dead} \cap Dispatchers = {}

VARIABLES
    pending,    \* due and state: when the trace is due, its revision and what is known of it
    history,    \* the first-seen buckets: what is known of a trace, for a day
    lock,
    dispatcher,
    last,       \* history: the number of updates tracked
    retained,   \* history: those since the trace was last forgotten
    settled,    \* history: the newest revision that was dispatched, excluded or expired
    times,      \* history: how often the last revision was added to a job
    stops, faults

store == <<pending, history>>
ghosts == <<last, retained, settled, times>>
vars == <<store, lock, dispatcher, ghosts, stops, faults>>

(* known stands for the bounds, count for the size estimates.              *)
Nothing == [known |-> {}, count |-> 0]
Absent == [at |-> "absent", rev |-> 0, known |-> {}, count |-> 0]
Off == [at |-> "off", members |-> {}, held |-> {}, batch |-> {}, out |-> {},
        final |-> FALSE, stopping |-> FALSE]

Is(x, at) == pending[x].at = at
At(d, place) == dispatcher[d].at = place
Become(d, state) == dispatcher' = [dispatcher EXCEPT ![d] = state]
Fault == stops + faults < MaxTroubles /\ faults' = faults + 1
Carried(d) == dispatcher[d].held \cup dispatcher[d].batch \cup dispatcher[d].out
Handled(d) == {e.trace : e \in Carried(d)}

Init ==
    /\ pending = [x \in Traces |-> Absent] /\ history = [x \in Traces |-> Nothing]
    /\ lock = Free /\ dispatcher = [d \in Dispatchers |-> Off]
    /\ last = [x \in Traces |-> 0] /\ retained = [x \in Traces |-> {}]
    /\ settled = [x \in Traces |-> 0] /\ times = [x \in Traces |-> 0]
    /\ stops = 0 /\ faults = 0

-----------------------------------------------------------------------------
(* Time.                                                                   *)

IdleTimePasses(x) ==
    /\ Is(x, "waiting")
    /\ pending' = [pending EXCEPT ![x].at = "ready"]
    /\ UNCHANGED <<history, lock, dispatcher, ghosts, stops, faults>>

(* The recovery grace is over; the entry is there until a script finds it. *)
GracePasses(x) ==
    /\ Is(x, "ready")
    /\ pending' = [pending EXCEPT ![x].at = "late"]
    /\ UNCHANGED <<history, lock, dispatcher, ghosts, stops, faults>>

(* History outlasts the idle time and the grace together, and any run.     *)
HistoryExpires(x) ==
    /\ pending[x].at \in {"absent", "late"} /\ history[x] # Nothing
    /\ \A d \in Dispatchers : x \notin Handled(d)
    /\ history' = [history EXCEPT ![x] = Nothing]
    /\ retained' = [retained EXCEPT ![x] = {}]
    /\ UNCHANGED <<pending, lock, dispatcher, last, settled, times, stops, faults>>

-----------------------------------------------------------------------------
(* The scripts.                                                            *)

Late == {x \in Traces : Is(x, "late")}

(* expirePending, of a table in which the tracked trace is already renewed. *)
ExpirePending(table, late) == [x \in Traces |-> IF x \in late THEN Absent ELSE table[x]]
Settle(entries) ==
    settled' = [x \in Traces |-> IF \E e \in entries : e.trace = x
                                 THEN (CHOOSE e \in entries : e.trace = x).rev ELSE settled[x]]
Entry(x) == [trace |-> x, rev |-> pending[x].rev, count |-> pending[x].count]
Entries(S) == {Entry(x) : x \in S}

(* Mutant: what is pending and what is in the history are added up.        *)
BeforeBoth(x) ==
    [known |-> pending[x].known \cup history[x].known,
     count |-> pending[x].count + history[x].count]

(* What an update is merged with: an entry that is past its grace is void. *)
Before(x) == IF pending[x].at \in {"waiting", "ready"} THEN pending[x] ELSE history[x]

Track(x) ==
    LET n == last[x] + 1
        now == [known |-> Before(x).known \cup {n}, count |-> Before(x).count + 1]
        late == Late \ {x}
    IN  /\ n <= MaxUpdates[x]
        /\ pending' = ExpirePending([pending EXCEPT ![x] =
               [at |-> "waiting", rev |-> n, known |-> now.known, count |-> now.count]], late)
        /\ history' = [history EXCEPT ![x] = now]
        (* It is due after the cutoff of any run under way, which will not read it. *)
        /\ dispatcher' = [d \in Dispatchers |-> [dispatcher[d] EXCEPT !.members = @ \ {x}]]
        /\ last' = [last EXCEPT ![x] = n]
        /\ retained' = [retained EXCEPT ![x] = @ \cup {n}]
        /\ Settle(Entries(late))
        /\ times' = [times EXCEPT ![x] = 0]
        /\ UNCHANGED <<lock, stops, faults>>

(* Mutant: the revision that was dispatched is not compared.               *)
AcknowledgedAnyway(e) == Is(e.trace, "waiting") \/ Is(e.trace, "ready") \/ Is(e.trace, "late")

(* Nothing came since the entry was read.                                  *)
Acknowledged(e) == ~Is(e.trace, "absent") /\ pending[e.trace].rev = e.rev

Acknowledge(e) ==
    IF Acknowledged(e)
    THEN /\ history' = [history EXCEPT ![e.trace] = [known |-> pending[e.trace].known,
                                                     count |-> pending[e.trace].count]]
         /\ pending' = [pending EXCEPT ![e.trace] = Absent]
    ELSE UNCHANGED store

-----------------------------------------------------------------------------
(* dispatchDue, under the lock.                                            *)

Begin(d) ==
    /\ At(d, "off") /\ lock = Free
    /\ lock' = d
    /\ Become(d, [Off EXCEPT !.at = "snapshot"])
    /\ UNCHANGED <<store, ghosts, stops, faults>>

(* What is left of the run is forgotten, but for what it added to jobs.    *)
Failing(d) ==
    Become(d, [dispatcher[d] EXCEPT !.at = "flush", !.members = {}, !.held = {}, !.batch = {}])

Working(d) == dispatcher[d].at \in {"snapshot", "hydrate", "enqueue"}

(* extendLockOnProgress throws; while a run reads, it asks now and then.   *)
LeaseLost(d) ==
    /\ Working(d) /\ lock # d
    /\ Failing(d)
    /\ UNCHANGED <<store, lock, ghosts, stops, faults>>

(* A script throws; one that ran all the same is its action and then this. *)
ScriptFails(d) ==
    /\ Fault
    /\ Working(d)
    /\ Failing(d)
    /\ UNCHANGED <<store, lock, ghosts, stops>>

(* Mutant: what was added to jobs is not acknowledged on the way out.      *)
StoppingAtOnce(d) ==
    /\ Working(d) /\ dispatcher[d].stopping
    /\ Become(d, [Off EXCEPT !.at = "flush", !.stopping = TRUE])
    /\ UNCHANGED <<store, lock, ghosts, stops, faults>>

(* Every loop asks whether to go on.                                       *)
Stopping(d) ==
    /\ Working(d) /\ dispatcher[d].stopping
    /\ Failing(d)
    /\ UNCHANGED <<store, lock, ghosts, stops, faults>>

Going(d, place) == At(d, place) /\ ~dispatcher[d].stopping

(* The snapshot expires what is late; its time is the cutoff of the run.   *)
Snapshot(d) ==
    LET due == {x \in Traces : Is(x, "ready")}
    IN  /\ Going(d, "snapshot")
        /\ pending' = ExpirePending(pending, Late)
        /\ Become(d, [dispatcher[d] EXCEPT !.at = "hydrate", !.members = due])
        /\ Settle(Entries(Late))
        /\ UNCHANGED <<history, lock, last, retained, times, stops, faults>>

(* A window of what was collected is read, as far as it is still due.      *)
Hydrate(d) ==
    /\ Going(d, "hydrate")
    /\ \E window \in SUBSET dispatcher[d].members :
          /\ window = {} <=> dispatcher[d].members = {}
          /\ Become(d, [dispatcher[d] EXCEPT
                 !.at = "enqueue",
                 !.members = @ \ window,
                 !.held = @ \cup Entries({x \in window : Is(x, "ready")})])
    /\ UNCHANGED <<store, lock, ghosts, stops, faults>>

Oversized(d) == {e \in dispatcher[d].held : e.count > MaxEstimate}

(* An oversized trace is acknowledged without a job.                       *)
Exclude(d) ==
    \E e \in Oversized(d) :
        /\ Going(d, "enqueue") /\ lock = d
        /\ Acknowledge(e)
        /\ IF Acknowledged(e) THEN Settle({e}) ELSE UNCHANGED settled
        /\ Become(d, [dispatcher[d] EXCEPT !.held = @ \ {e}])
        /\ UNCHANGED <<lock, last, retained, times, stops, faults>>

(* Mutant: what is added to a job stays in what is carried.                *)
EnqueueKeeping(d) ==
    /\ Going(d, "enqueue") /\ lock = d /\ Oversized(d) = {}
    /\ \E batch \in SUBSET dispatcher[d].held :
          /\ batch # {} /\ Cardinality(batch) <= MaxSize
          /\ Become(d, [dispatcher[d] EXCEPT !.at = "add", !.batch = batch])
    /\ UNCHANGED <<store, lock, ghosts, stops, faults>>

(* The lock is extended, and the job is on its way.                        *)
Enqueue(d) ==
    /\ Going(d, "enqueue") /\ lock = d /\ Oversized(d) = {}
    /\ \E batch \in SUBSET dispatcher[d].held :
          /\ batch # {} /\ Cardinality(batch) <= MaxSize
          /\ Become(d, [dispatcher[d] EXCEPT !.at = "add", !.batch = batch, !.held = @ \ batch])
    /\ UNCHANGED <<store, lock, ghosts, stops, faults>>

(* Traces that fill no job are carried to the next window, but not past the last one.     *)
Carry(d) ==
    /\ Going(d, "enqueue") /\ Oversized(d) = {}
    /\ dispatcher[d].held = {} \/ (~dispatcher[d].final /\ Cardinality(dispatcher[d].held) < MaxSize)
    /\ Become(d, [dispatcher[d] EXCEPT !.at = "flush"])
    /\ UNCHANGED <<store, lock, ghosts, stops, faults>>

Added(entries) ==
    /\ settled' = [x \in Traces |->
           IF \E e \in entries : e.trace = x /\ e.rev > settled[x]
           THEN (CHOOSE e \in entries : e.trace = x).rev ELSE settled[x]]
    /\ times' = [x \in Traces |-> IF \E e \in entries : e.trace = x /\ e.rev = last[x]
                                  THEN times[x] + 1 ELSE times[x]]
    /\ UNCHANGED <<last, retained>>

Add(d) ==
    /\ At(d, "add")
    /\ Added(dispatcher[d].batch)
    /\ Become(d, [dispatcher[d] EXCEPT !.at = "enqueue", !.batch = {}, !.out = @ \cup dispatcher[d].batch])
    /\ UNCHANGED <<store, lock, stops, faults>>

(* queue.add throws, though Redis may have the job.                        *)
AddFails(d) ==
    /\ Fault
    /\ At(d, "add")
    /\ Added(dispatcher[d].batch) \/ UNCHANGED ghosts
    /\ Failing(d)
    /\ UNCHANGED <<store, lock, stops>>

(* flushEnqueued, which every way out of a window passes.                  *)
Flush(d) ==
    \E e \in dispatcher[d].out :
        /\ At(d, "flush")
        /\ Acknowledge(e)
        /\ Become(d, [dispatcher[d] EXCEPT !.out = @ \ {e}])
        /\ UNCHANGED <<lock, ghosts, stops, faults>>

(* A script throws, though it may have run.                                *)
FlushFails(d) ==
    /\ Fault
    /\ At(d, "flush")
    /\ \E e \in dispatcher[d].out : Acknowledge(e) \/ UNCHANGED store
    /\ Become(d, [dispatcher[d] EXCEPT !.out = {}, !.members = {}, !.held = {}])
    /\ UNCHANGED <<lock, ghosts, stops>>

Flushed(d) == At(d, "flush") /\ dispatcher[d].out = {}

(* Mutant: a run ends with its last window, whatever was carried past it.  *)
NextWindowOnly(d) ==
    /\ Flushed(d)
    /\ IF dispatcher[d].members # {}
       THEN /\ Become(d, [dispatcher[d] EXCEPT !.at = "hydrate"])
            /\ UNCHANGED lock
       ELSE /\ dispatcher[d].held # {}
            /\ Become(d, Off)
            /\ lock' = IF lock = d THEN Free ELSE lock
    /\ UNCHANGED <<store, ghosts, stops, faults>>

(* The next window, or the rest that was carried past the last one.        *)
NextWindow(d) ==
    /\ Flushed(d)
    /\ \/ /\ dispatcher[d].members # {}
          /\ Become(d, [dispatcher[d] EXCEPT !.at = "hydrate"])
       \/ /\ dispatcher[d].members = {} /\ dispatcher[d].held # {}
          /\ Become(d, [dispatcher[d] EXCEPT !.at = "enqueue", !.final = TRUE])
    /\ UNCHANGED <<store, lock, ghosts, stops, faults>>

(* withLock releases the lock, if it is still this process's; a process that was stopped *)
(* is replaced.                                                                          *)
Finish(d) ==
    /\ Flushed(d) /\ dispatcher[d].members = {} /\ dispatcher[d].held = {}
    /\ lock' = IF lock = d THEN Free ELSE lock
    /\ Become(d, Off)
    /\ UNCHANGED <<store, ghosts, stops, faults>>

-----------------------------------------------------------------------------
(* Processes.                                                              *)

Stop(d) ==
    /\ stops + faults < MaxTroubles /\ stops' = stops + 1
    /\ ~At(d, "off") /\ ~dispatcher[d].stopping
    /\ Become(d, [dispatcher[d] EXCEPT !.stopping = TRUE])
    /\ UNCHANGED <<store, lock, ghosts, faults>>

(* One that dies leaves its lock behind.                                   *)
Crash(d) ==
    /\ Fault
    /\ ~At(d, "off")
    /\ Become(d, Off)
    /\ lock' = IF lock = d THEN Dead ELSE lock
    /\ UNCHANGED <<store, ghosts, stops>>

LockExpires ==
    /\ lock # Free
    /\ IF lock = Dead THEN UNCHANGED faults ELSE Fault
    /\ lock' = Free
    /\ UNCHANGED <<store, dispatcher, ghosts, stops>>

-----------------------------------------------------------------------------
Time(x) == IdleTimePasses(x) \/ GracePasses(x) \/ HistoryExpires(x)

Dispatch(d) ==
    \/ Begin(d) \/ LeaseLost(d) \/ ScriptFails(d) \/ Stopping(d) \/ Snapshot(d) \/ Hydrate(d) \/ Exclude(d)
    \/ Enqueue(d) \/ Carry(d) \/ Add(d) \/ AddFails(d) \/ Flush(d) \/ FlushFails(d)
    \/ NextWindow(d) \/ Finish(d)

Next ==
    \/ \E x \in Traces : Time(x) \/ Track(x)
    \/ \E d \in Dispatchers : Dispatch(d) \/ Stop(d) \/ Crash(d)
    \/ LockExpires

(* Idle times pass, calls return, the periodic runner goes on and the TTL of the lock runs out. *)
Fairness ==
    /\ \A x \in Traces : WF_vars(IdleTimePasses(x))
    /\ \A d \in Dispatchers : WF_vars(Dispatch(d))
    /\ WF_vars(lock = Dead /\ LockExpires)

Spec == Init /\ [][Next]_vars
FairSpec == Spec /\ Fairness

-----------------------------------------------------------------------------
(* Properties.                                                             *)

EntryType(x) == [trace : {x}, rev : 1..MaxUpdates[x], count : 1..MaxUpdates[x]]
Memory(x) == [known : SUBSET (1..MaxUpdates[x]), count : 0..MaxUpdates[x]]

(* Keys and runs keep their shape; a run holds a trace in one place only.  *)
TypeOK ==
    /\ \A x \in Traces :
          /\ pending[x].at \in {"absent", "waiting", "ready", "late"}
          /\ pending[x].rev \in 0..MaxUpdates[x]
          /\ {[known |-> pending[x].known, count |-> pending[x].count], history[x]} \subseteq Memory(x)
    /\ lock \in Dispatchers \cup {Free, Dead}
    /\ \A d \in Dispatchers :
          LET run == dispatcher[d]
          IN  /\ run.at \in {"off", "snapshot", "hydrate", "enqueue", "add", "flush"}
              /\ run.members \subseteq Traces
              /\ Carried(d) \subseteq UNION {EntryType(x) : x \in Traces}
              /\ \A e, f \in Carried(d) : e.trace = f.trace => e = f
              /\ run.held \cap (run.batch \cup run.out) = {} /\ run.batch \cap run.out = {}
              /\ run.batch # {} => run.at = "add"
    /\ {stops, faults, stops + faults} \subseteq 0..MaxTroubles

(* An update that came after the dispatcher read its trace is not acknowledged with it: as  *)
(* long as the last update was not dispatched, excluded or expired, its trace is pending.   *)
NoUpdateLost == \A x \in Traces : last[x] > settled[x] => ~Is(x, "absent")

(* What is known of a pending trace, its bounds and its size, is of all its updates since   *)
(* it was last forgotten, each counted once, whichever of them were dispatched before.      *)
WholeTraceKnown ==
    \A x \in Traces : pending[x].at \in {"waiting", "ready"} =>
        pending[x].known = retained[x] /\ pending[x].count = Cardinality(retained[x])

(* An update is dispatched a second time only after a crash, a lost call or a lapse of the  *)
(* lock; an orderly shutdown in the middle of a run acknowledges what it added.             *)
RepeatedOnlyAfterFault == \A x \in Traces : times[x] <= faults + 1

(* Every update is dispatched, excluded or expired, even if it is alone in its last window. *)
EveryUpdateSettles == \A x \in Traces : last[x] > settled[x] ~> last[x] = settled[x]
=============================================================================
