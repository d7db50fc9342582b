------------------------- MODULE IngestionPipeline -------------------------
(***************************************************************************)
(* The asynchronous ingestion of ONE entity (a trace, an observation or a  *)
(* score of a project): the API writes event files to S3 and enqueues one  *)
(* job per file (processEventBatch.ts); workers take the jobs, read the    *)
(* files and the stored row, merge them, and hand the merged row to the    *)
(* ClickHouse writer (ingestionQueue.ts, IngestionService/index.ts).       *)
(*                                                                         *)
(* A file is the natural number that is its events' timestamp.  A row      *)
(* records which files its fields come from and which file wins a field    *)
(* that all of them set.  ClickHouse answers the row with the largest      *)
(* event_ts; an older one may be found by a read that filters that one     *)
(* out, until it is compacted away.  Between two awaits is one action.     *)
(***************************************************************************)
EXTENDS Integers, Sequences, FiniteSets, FiniteSetsExt, SequencesExt

CONSTANTS
    Files,            \* the event files of the entity
    Types, TypeOf,    \* the event type of the first event of each file
    StartOf,          \* the start time each file's event carries, 0 if none
    KindOf,           \* the observation type of each file's event, one and
                      \* the same when the entity is a trace or a score
    Day,              \* the days of ClickHouse's sort key, in units of time
    Procs,            \* worker processes, each with a ClickHouse writer
    Slots, Home,      \* units of job concurrency, the process of each
    SkipS3List,       \* the producer's skipS3List flag for this entity
    ReadSkipped,      \* ClickhouseReadSkipCache holds the project
    SeenEnabled,      \* LANGFUSE_ENABLE_REDIS_SEEN_EVENT_CACHE
    SlowdownEnabled,  \* LANGFUSE_S3_RATE_ERROR_SLOWDOWN_ENABLED
    Attempts,         \* attempts of a job of each lane's queue
    NonSlowdownAttempts,  \* SECONDARY_QUEUE_NON_SLOWDOWN_ATTEMPTS
    MaxStalls,        \* BullMQ's maxStalledCount
    Faults,           \* the kinds of fault of this instance
    FailPoints,       \* where a job's processing may throw
    MaxFaults,        \* bound on the number of faults
    JobIds            \* bound on the jobs alive at once

Lanes == {"primary", "secondary"}

ASSUME FilesAssumption == Files \subseteq Nat \ {0} /\ Files # {}
ASSUME TypeOfAssumption == TypeOf \in [Files -> Types]
ASSUME StartAssumption == StartOf \in [Files -> Nat] /\ Day \in Nat \ {0}
ASSUME HomeAssumption == Home \in [Slots -> Procs]
ASSUME AttemptsAssumption == Attempts \in [Lanes -> Nat \ {0}]
ASSUME FlagAssumption ==
    {SkipS3List, ReadSkipped, SeenEnabled, SlowdownEnabled} \subseteq BOOLEAN
ASSUME BoundAssumption ==
    /\ {NonSlowdownAttempts, MaxStalls, MaxFaults} \subseteq Nat
    /\ JobIds \subseteq Nat \ {0} /\ IsFiniteSet(JobIds)

VARIABLES
    bucket,    \* the entity's files in S3, oldest createdAt first
    web,       \* per file, the API request: idle, or its upload is done
    accepted,  \* files whose request was answered with success
    jobs,      \* the BullMQ jobs that are waiting, delayed or active
    slot,      \* what each slot is doing
    seen,      \* recently-processed keys in Redis
    slow,      \* the project's S3 slowdown flag in Redis
    buffer,    \* per process, merged rows its ClickHouse writer holds
    stored,    \* the rows ClickHouse was given for the entity
    top,       \* the newest of them, the one it answers
    clock,     \* the event_ts of the last merge
    merged,    \* files some job merged into a row
    skipped,   \* files some job of which ended at the seen check
    dead,      \* files some job of which BullMQ moved to failed
    meanwhile, \* per slot, the files others merged since it listed its own
    orphaned,  \* files marked as seen by a job that stopped before the merge
    lost,      \* files whose only rows died with the process that held them
    unread,    \* files on display that a job's read of the row left out
    faults     \* how many faults have happened

vars == <<bucket, web, accepted, jobs, slot, seen, slow, buffer, stored, top,
          clock, merged, skipped, dead, meanwhile, orphaned, lost, unread,
          faults>>

-----------------------------------------------------------------------------
(* Shapes.                                                                 *)

Jobs == [id : JobIds, file : Files, lane : Lanes, tries : Nat, stalls : Nat]

(* A row's start is the part of its sort key that may differ; late is a    *)
(* history field: what was merged by others since its job listed its files. *)
Rows == [ts : Nat, covers : SUBSET Files, winner : Files \cup {0},
         start : Nat, late : SUBSET Files]

NoRow == [ts |-> 0, covers |-> {}, winner |-> 0, start |-> 0, late |-> {}]

Steps == {"idle", "picked", "redirecting", "redirected", "listed", "marked",
          "read", "wrote"}

ASSUME FailPointsAssumption == FailPoints \subseteq Steps \ {"idle"}

Idle == [pc |-> "idle", job |-> 0, files |-> {}, first |-> 0, base |-> NoRow]

SlotStates == [pc : Steps, job : JobIds \cup {0}, files : SUBSET Files,
               first : Files \cup {0}, base : Rows]

InBucket == {bucket[i] : i \in DOMAIN bucket}

Active == {slot[s].job : s \in {t \in Slots : slot[t].pc # "idle"}}

JobOf(s) == CHOOSE j \in jobs : j.id = slot[s].job

Busy(s, pc) == slot[s].pc = pc

Covers(rows) == UNION {r.covers : r \in rows}

Held == UNION {buffer[p] : p \in Procs}

Put(s, pc) == slot' = [slot EXCEPT ![s].pc = pc]

(* A fault of this kind may still happen, and is counted.                  *)
Fault(kind) == kind \in Faults /\ faults < MaxFaults /\ faults' = faults + 1

(* queue.add: a job of the file waits in the lane, with a fresh budget.    *)
Added(js, f, lane) ==
    js \cup {[id |-> Min(JobIds \ {j.id : j \in js}), file |-> f,
              lane |-> lane, tries |-> 0, stalls |-> 0]}

HasFreeId == JobIds \ {j.id : j \in jobs} # {}

(* The key of a file names the event type of the job that sets or checks it. *)
SeenKey(job, f) == <<TypeOf[job.file], f>>

-----------------------------------------------------------------------------
Init ==
    /\ bucket = <<>>
    /\ web = [f \in Files |-> "idle"]
    /\ accepted = {} /\ jobs = {} /\ seen = {} /\ slow = FALSE
    /\ slot = [s \in Slots |-> Idle]
    /\ buffer = [p \in Procs |-> {}]
    /\ stored = {} /\ top = NoRow /\ clock = 0
    /\ merged = {} /\ skipped = {} /\ dead = {}
    /\ meanwhile = [s \in Slots |-> {}]
    /\ orphaned = {} /\ lost = {} /\ unread = {} /\ faults = 0

-----------------------------------------------------------------------------
(* The producer, processEventBatch.                                        *)

(* The upload of one file.  A client that sends the same batch again       *)
(* overwrites the file, which renews its createdAt.                        *)
Upload(f) ==
    /\ web[f] = "idle"
    /\ IF f \in InBucket
       THEN /\ Fault("resend")
            /\ \E i \in DOMAIN bucket :
                  bucket[i] = f /\ bucket' = Append(RemoveAt(bucket, i), f)
       ELSE bucket' = Append(bucket, f) /\ UNCHANGED faults
    /\ web' = [web EXCEPT ![f] = "uploaded"]
    /\ UNCHANGED <<accepted, jobs, slot, seen, slow, buffer, stored, top,
                   clock, merged, skipped, dead, orphaned, meanwhile, lost,
                   unread>>

(* S3 throttles the upload: the project is flagged, the request refused.   *)
UploadThrottled(f) ==
    /\ web[f] = "idle"
    /\ Fault("slowdown")
    /\ slow' = SlowdownEnabled
    /\ UNCHANGED <<bucket, web, accepted, jobs, slot, seen, buffer, stored,
                   top, clock, merged, skipped, dead, orphaned, meanwhile,
                   lost, unread>>

(* Every upload of the request has settled: the job is enqueued, always in *)
(* the primary lane, and the request answered.                             *)
Enqueue(f) ==
    /\ web[f] = "uploaded"
    /\ HasFreeId
    /\ jobs' = Added(jobs, f, "primary")
    /\ web' = [web EXCEPT ![f] = "idle"]
    /\ accepted' = accepted \cup {f}
    /\ UNCHANGED <<bucket, slot, seen, slow, buffer, stored, top, clock,
                   merged, skipped, dead, faults, orphaned, meanwhile, lost,
                   unread>>

(* The request fails after the upload (another upload of the batch failed, *)
(* Redis refused the job, the web process died): the file stays in S3.     *)
RequestFails(f) ==
    /\ web[f] = "uploaded"
    /\ Fault("request")
    /\ web' = [web EXCEPT ![f] = "idle"]
    /\ UNCHANGED <<bucket, accepted, jobs, slot, seen, slow, buffer, stored,
                   top, clock, merged, skipped, dead, orphaned, meanwhile,
                   lost, unread>>

-----------------------------------------------------------------------------
(* The consumer, ingestionQueueProcessorBuilder.                           *)

(* A waiting job is picked up and its file's key looked up.                *)
SkipSeen(s, j) ==
    /\ Busy(s, "idle")
    /\ j.id \notin Active
    /\ SeenEnabled /\ SeenKey(j, j.file) \in seen
    /\ jobs' = jobs \ {j}
    /\ skipped' = skipped \cup {j.file}
    /\ UNCHANGED <<bucket, web, accepted, slot, seen, slow, buffer, stored,
                   top, clock, merged, dead, faults, orphaned, meanwhile,
                   lost, unread>>

(* Mutant: a job of the secondary lane is redirected as well.              *)
PickUpRedirectingAll(s, j) ==
    /\ Busy(s, "idle")
    /\ j.id \notin Active
    /\ ~(SeenEnabled /\ SeenKey(j, j.file) \in seen)
    /\ slot' = [slot EXCEPT ![s] =
           [Idle EXCEPT !.job = j.id, !.pc = IF slow THEN "redirecting" ELSE "picked"]]
    /\ UNCHANGED <<bucket, web, accepted, jobs, seen, slow, buffer, stored,
                   top, clock, merged, skipped, dead, faults, orphaned,
                   meanwhile, lost, unread>>

(* It was not seen: the primary lane redirects the job of a flagged project. *)
PickUp(s, j) ==
    /\ Busy(s, "idle")
    /\ j.id \notin Active
    /\ ~(SeenEnabled /\ SeenKey(j, j.file) \in seen)
    /\ slot' = [slot EXCEPT ![s] =
           [Idle EXCEPT !.job = j.id,
                        !.pc = IF slow /\ j.lane = "primary"
                               THEN "redirecting" ELSE "picked"]]
    /\ UNCHANGED <<bucket, web, accepted, jobs, seen, slow, buffer, stored,
                   top, clock, merged, skipped, dead, faults, orphaned,
                   meanwhile, lost, unread>>

(* Mutant: the redirect forgets to add the job to the secondary queue.     *)
RedirectForgetting(s) ==
    /\ Busy(s, "redirecting")
    /\ Put(s, "redirected")
    /\ UNCHANGED <<bucket, web, accepted, jobs, seen, slow, buffer, stored,
                   top, clock, merged, skipped, dead, faults, orphaned,
                   meanwhile, lost, unread>>

(* secondaryQueue.add of the same data; the primary job is still active.   *)
Redirect(s) ==
    /\ Busy(s, "redirecting")
    /\ HasFreeId
    /\ jobs' = Added(jobs, JobOf(s).file, "secondary")
    /\ Put(s, "redirected")
    /\ UNCHANGED <<bucket, web, accepted, seen, slow, buffer, stored, top,
                   clock, merged, skipped, dead, faults, orphaned, meanwhile,
                   lost, unread>>

(* The files the job will merge: its own, or all there are under the       *)
(* prefix, in the order of their uploads.                                  *)
List(s) ==
    /\ Busy(s, "picked")
    /\ LET files == IF SkipS3List THEN {JobOf(s).file} ELSE InBucket
       IN  \E i \in DOMAIN bucket :
              /\ bucket[i] \in files
              /\ \A k \in 1..(i - 1) : bucket[k] \notin files
              /\ slot' = [slot EXCEPT
                     ![s].files = files, ![s].first = bucket[i],
                     ![s].pc = IF SeenEnabled THEN "listed" ELSE "marked"]
    /\ UNCHANGED <<bucket, web, accepted, jobs, seen, slow, buffer, stored,
                   top, clock, merged, skipped, dead, faults, orphaned,
                   meanwhile, lost, unread>>

(* Mutant: the keys of all files in the bucket are set, not of those read. *)
MarkSeenAll(s) ==
    /\ Busy(s, "listed")
    /\ seen' = seen \cup {<<t, f>> : t \in Types, f \in InBucket}
    /\ UNCHANGED faults
    /\ Put(s, "marked")
    /\ UNCHANGED <<bucket, web, accepted, jobs, slow, buffer, stored, top,
                   clock, merged, skipped, dead, orphaned, meanwhile, lost,
                   unread>>

(* The keys of the files read are set, before they are merged.  A Redis    *)
(* error after some of them is logged and the job goes on.                 *)
MarkSeen(s) ==
    /\ Busy(s, "listed")
    /\ \/ /\ seen' = seen \cup {SeenKey(JobOf(s), f) : f \in slot[s].files}
          /\ UNCHANGED faults
       \/ /\ Fault("redis")
          /\ \E S \in SUBSET slot[s].files :
                 seen' = seen \cup {SeenKey(JobOf(s), f) : f \in S}
    /\ Put(s, "marked")
    /\ UNCHANGED <<bucket, web, accepted, jobs, slow, buffer, stored, top,
                   clock, merged, skipped, dead, orphaned, meanwhile, lost,
                   unread>>

(* The start a row gets from a file: its event's, or else its timestamp.   *)
EventStart(f) == IF StartOf[f] = 0 THEN f ELSE StartOf[f]

(* The filters of the job's read: the type of its first event, and a start *)
(* not before the earliest its events carry, if any of them carries one.   *)
Matches(r, s) ==
    LET starts == {StartOf[f] : f \in slot[s].files} \ {0}
    IN  /\ KindOf[r.winner] = KindOf[slot[s].first]
        /\ starts = {} \/ \E start \in starts : start <= r.start

(* ClickHouse compacts rows of one sort key, sooner or later, to the newest. *)
Superseded(q) ==
    \E r \in stored : /\ r.ts > q.ts
                      /\ KindOf[r.winner] = KindOf[q.winner]
                      /\ r.start \div Day = q.start \div Day

(* What the read may find: the newest of the rows that pass its filters    *)
(* and are still there.                                                    *)
Found(s) ==
    LET hits == {r \in stored : Matches(r, s)}
    IN  {r \in hits : \A q \in hits : q.ts > r.ts => Superseded(q)}
            \cup {r \in {NoRow} : \A q \in hits : Superseded(q)}

(* getClickhouseRecord, if ClickHouse is asked at all.                     *)
ReadBase(s) ==
    /\ Busy(s, "marked")
    /\ \E base \in IF ReadSkipped THEN {NoRow} ELSE Found(s) :
           /\ slot' = [slot EXCEPT ![s].base = base, ![s].pc = "read"]
           /\ unread' = unread \cup (top.covers \ base.covers)
    /\ UNCHANGED <<bucket, web, accepted, jobs, seen, slow, buffer, stored,
                   top, clock, merged, skipped, dead, faults, orphaned,
                   meanwhile, lost>>

(* Mutant: the stored row is not merged in.                                *)
MergedRowWithoutBase(s) ==
    LET files == slot[s].files
    IN  [ts |-> clock + 1, covers |-> files, winner |-> Max(files),
         start |-> EventStart(Min(files)), late |-> meanwhile[s] \ files]

(* Mutant: the last file of the listing wins, whatever its timestamp.      *)
MergedRowArrivalOrder(s) ==
    LET files == slot[s].files
        base  == slot[s].base
    IN  [ts |-> clock + 1, covers |-> base.covers \cup files,
         winner |-> Last(SelectSeq(bucket, LAMBDA g : g \in files)),
         start |-> IF base = NoRow THEN EventStart(Min(files)) ELSE base.start,
         late |-> meanwhile[s] \ files]

(* mergeRecords: the stored row first, overwritten by the files' events in *)
(* the order of their timestamps, all but the start, which is immutable;   *)
(* event_ts is the time of the merge.                                      *)
MergedRow(s) ==
    LET files == slot[s].files
        base  == slot[s].base
    IN  [ts |-> clock + 1, covers |-> base.covers \cup files,
         winner |-> Max(files),
         start |-> IF base = NoRow THEN EventStart(Min(files)) ELSE base.start,
         late |-> meanwhile[s] \ files]

Merging(s) == slot[s].pc \in {"listed", "marked", "read"}

(* The merged row goes to the process's ClickHouse writer, which only      *)
(* buffers it; sessions and follow-up jobs are still to be written.        *)
MergeAndWrite(s) ==
    /\ Busy(s, "read")
    /\ buffer' = [buffer EXCEPT ![Home[s]] = @ \cup {MergedRow(s)}]
    /\ clock' = clock + 1
    /\ Put(s, "wrote")
    /\ meanwhile' = [t \in Slots |->
           IF t # s /\ Merging(t) THEN meanwhile[t] \cup slot[s].files ELSE {}]
    /\ merged' = merged \cup slot[s].files
    /\ orphaned' = orphaned \ slot[s].files
    /\ lost' = lost \ MergedRow(s).covers
    /\ UNCHANGED <<bucket, web, accepted, jobs, seen, slow, stored, top,
                   skipped, dead, faults, unread>>

(* Mutant: completion removes every job of the file, active ones included. *)
CompleteByFile(s) ==
    /\ slot[s].pc \in {"redirected", "wrote"}
    /\ jobs' = {j \in jobs : j.file # JobOf(s).file}
    /\ slot' = [slot EXCEPT ![s] = Idle]
    /\ UNCHANGED <<bucket, web, accepted, seen, slow, buffer, stored, top,
                   clock, merged, skipped, dead, faults, orphaned, meanwhile,
                   lost, unread>>

(* The processor returns and BullMQ removes the job.                       *)
Complete(s) ==
    /\ slot[s].pc \in {"redirected", "wrote"}
    /\ jobs' = jobs \ {JobOf(s)}
    /\ slot' = [slot EXCEPT ![s] = Idle]
    /\ UNCHANGED <<bucket, web, accepted, seen, slow, buffer, stored, top,
                   clock, merged, skipped, dead, faults, orphaned, meanwhile,
                   lost, unread>>

(* Does this failure use up the job: its queue's attempts, or in the       *)
(* secondary lane the smaller budget of failures that are not throttling.  *)
Unrecoverable(j, throttled) ==
    \/ j.tries + 1 >= Attempts[j.lane]
    \/ j.lane = "secondary" /\ ~throttled /\ j.tries >= NonSlowdownAttempts - 1

(* The files marked as seen by the slots of S that are not yet merged.     *)
Marked(S) == UNION {slot[s].files : s \in {t \in S : slot[t].pc \in {"marked", "read"}}}

(* Processing throws.  Throttling (listing or downloading) flags the       *)
(* project; the job is retried until its budget is spent.                  *)
Fail(s, throttled) ==
    LET j == JobOf(s)
    IN  /\ IF throttled THEN Busy(s, "picked") /\ Fault("slowdown")
                        ELSE slot[s].pc \in FailPoints /\ Fault("failure")
        /\ slow' = (slow \/ (throttled /\ SlowdownEnabled))
        /\ IF Unrecoverable(j, throttled)
           THEN jobs' = jobs \ {j} /\ dead' = dead \cup {j.file}
           ELSE /\ jobs' = (jobs \ {j}) \cup {[j EXCEPT !.tries = @ + 1]}
                /\ UNCHANGED dead
        /\ orphaned' = orphaned \cup (Marked({s}) \ merged)
        /\ slot' = [slot EXCEPT ![s] = Idle]
        /\ meanwhile' = [meanwhile EXCEPT ![s] = {}]
        /\ UNCHANGED <<bucket, web, accepted, seen, buffer, stored, top,
                       clock, merged, skipped, lost, unread>>

-----------------------------------------------------------------------------
(* The surroundings: writer, process, Redis.                               *)

(* The writer stores a row it holds; ClickHouse answers the newest.        *)
Flush(p) ==
    \E r \in buffer[p] :
        /\ buffer' = [buffer EXCEPT ![p] = @ \ {r}]
        /\ stored' = stored \cup {r}
        /\ top' = IF r.ts > top.ts THEN r ELSE top
        /\ UNCHANGED <<bucket, web, accepted, jobs, slot, seen, slow, clock,
                       merged, skipped, dead, faults, orphaned, meanwhile,
                       lost, unread>>

(* A process dies: its writer's rows are gone; its active jobs are stalled *)
(* and wait again, or fail once they stalled too often.                    *)
Crash(p) ==
    LET mine    == {s \in Slots : Home[s] = p /\ ~Busy(s, "idle")}
        stalled == {JobOf(s) : s \in mine}
        given   == {j \in stalled : j.stalls >= MaxStalls}
    IN  /\ mine # {} \/ buffer[p] # {}
        /\ Fault("crash")
        /\ jobs' = (jobs \ stalled) \cup
               {[j EXCEPT !.stalls = @ + 1] : j \in stalled \ given}
        /\ dead' = dead \cup {j.file : j \in given}
        /\ orphaned' = orphaned \cup (Marked(mine) \ merged)
        /\ slot' = [s \in Slots |-> IF s \in mine THEN Idle ELSE slot[s]]
        /\ meanwhile' = [s \in Slots |->
               IF s \in mine THEN {} ELSE meanwhile[s]]
        /\ lost' = lost \cup (Covers(buffer[p]) \
               Covers(stored \cup UNION {buffer[q] : q \in Procs \ {p}}))
        /\ buffer' = [buffer EXCEPT ![p] = {}]
        /\ UNCHANGED <<bucket, web, accepted, seen, slow, stored, top, clock,
                       merged, skipped, unread>>

(* Redis drops keys whose time to live is over.                            *)
ExpireSeen ==
    /\ \E k \in seen : seen' = seen \ {k}
    /\ UNCHANGED <<bucket, web, accepted, jobs, slot, slow, buffer, stored,
                   top, clock, merged, skipped, dead, faults, orphaned,
                   meanwhile, lost, unread>>

ExpireSlow ==
    /\ slow /\ slow' = FALSE
    /\ UNCHANGED <<bucket, web, accepted, jobs, slot, seen, buffer, stored,
                   top, clock, merged, skipped, dead, orphaned, faults,
                   meanwhile, lost, unread>>

-----------------------------------------------------------------------------
SlotStep(s) ==
    \/ \E j \in jobs : SkipSeen(s, j) \/ PickUp(s, j)
    \/ Redirect(s) \/ List(s) \/ MarkSeen(s) \/ ReadBase(s)
    \/ MergeAndWrite(s) \/ Complete(s)

Next ==
    \/ \E f \in Files : \/ Upload(f) \/ UploadThrottled(f)
                       \/ Enqueue(f) \/ RequestFails(f)
    \/ \E s \in Slots : SlotStep(s) \/ \E throttled \in BOOLEAN : Fail(s, throttled)
    \/ \E p \in Procs : Flush(p) \/ Crash(p)
    \/ ExpireSeen \/ ExpireSlow

Spec == Init /\ [][Next]_vars

(* Idle slots take waiting jobs, awaited calls return, writers flush.      *)
(* Nothing makes a client send, a fault happen or a key expire.            *)
FairSpec ==
    /\ Spec
    /\ \A s \in Slots : WF_vars(SlotStep(s))
    /\ \A p \in Procs : WF_vars(Flush(p))

-----------------------------------------------------------------------------
(* Properties.                                                             *)

(* The variables keep their shapes; an active slot has a live job of its   *)
(* own (BullMQ's lock), and no two jobs share an id.                       *)
TypeOK ==
    /\ bucket \in Seq(Files) /\ Cardinality(InBucket) = Len(bucket)
    /\ web \in [Files -> {"idle", "uploaded"}]
    /\ {accepted, merged, skipped, dead, orphaned, lost, unread}
           \subseteq SUBSET Files
    /\ jobs \subseteq Jobs
    /\ \A i, j \in jobs : i.id = j.id => i = j
    /\ slot \in [Slots -> SlotStates]
    /\ \A s \in Slots : ~Busy(s, "idle") => \E j \in jobs : j.id = slot[s].job
    /\ \A s, t \in Slots : slot[s].job = slot[t].job /\ s # t => slot[s] = Idle
    /\ meanwhile \in [Slots -> SUBSET Files]
    /\ seen \subseteq Types \X Files
    /\ slow \in BOOLEAN
    /\ buffer \in [Procs -> SUBSET Rows]
    /\ stored \subseteq Rows /\ top \in stored \cup {NoRow}
    /\ clock \in Nat /\ faults \in 0..MaxFaults

(* An event the API accepted does not evaporate: a job of it is alive, or  *)
(* a row merged from it is stored or waits in a writer, or its end is on   *)
(* record in Redis' failed set or by the seen check, or a process died     *)
(* with the only rows it was in.                                           *)
InHand == {j.file : j \in jobs} \cup Covers(stored \cup Held)

AcceptedIsKept == accepted \subseteq InHand \cup skipped \cup dead \cup lost

(* The same when a process dies: the documents promise that the death of a *)
(* worker loses nothing, the job being left for another one.               *)
AtLeastOnce == accepted \subseteq InHand \cup skipped \cup dead

(* A job ends at the seen check only if some job has merged its file, or   *)
(* is on its way from marking it to merging it, or was stopped on that way *)
(* by a failure.                                                           *)
MergingNow == Marked(Slots)

SkippedIsCovered == skipped \subseteq merged \cup MergingNow \cup orphaned

(* A job ends at the seen check only if its file is merged or about to be: *)
(* the documents put the key after the merge.                              *)
SkippedIsMerged == skipped \subseteq merged \cup MergingNow

(* Nothing is under way for the entity.                                    *)
Quiet ==
    /\ jobs = {}
    /\ \A p \in Procs : buffer[p] = {}
    /\ \A f \in Files : web[f] = "idle"

(* The ends of an event that a fault can bring about: its job failed for   *)
(* good, or stopped between mark and merge, or its row died in a writer.   *)
GivenUp == dead \cup orphaned \cup lost

(* When all is quiet, the row ClickHouse shows was merged from every       *)
(* accepted event that no fault ended, except those that other jobs merged *)
(* while the job of this row was already under way; and if there were none *)
(* of these, the latest event wins.                                        *)
Converged ==
    Quiet => /\ accepted \subseteq top.covers \cup top.late \cup GivenUp
             /\ top.covers # {} /\ top.late = {}
                    => top.winner = Max(top.covers)

(* Once the entity was at rest with an event on display, no later job, in  *)
(* whichever order its steps and others' interleave, takes it off again,   *)
(* unless a read, by its filters or by ClickhouseReadSkipCache, left out   *)
(* what the event was part of.                                             *)
AtRest ==
    /\ \A s \in Slots : slot[s].pc \notin {"read", "wrote"}
    /\ \A p \in Procs : buffer[p] = {}

SettledStays ==
    \A f \in Files :
        [](AtRest /\ f \in top.covers => [](f \in top.covers \cup unread))

(* The filters of the reads pass every row of the entity: all its events   *)
(* are of one type, and no event carries a start later than any row's.     *)
FilterPasses ==
    \A f, g \in Files : KindOf[f] = KindOf[g] /\ StartOf[f] <= EventStart(g)

(* Every accepted event is shown, or overtaken by a row whose job was      *)
(* under way when it was merged, or ended by a fault.                      *)
AcceptedIsShown ==
    \A f \in Files :
        f \in accepted ~> f \in top.covers \cup top.late \cup GivenUp
=============================================================================
