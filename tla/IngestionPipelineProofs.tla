---------------------- MODULE IngestionPipelineProofs ----------------------
(***************************************************************************)
(* What TLAPS proves of the ingestion pipeline, for all sets of files,     *)
(* slots and processes, all flags and all bounds on the faults, except     *)
(* where a theorem names a condition.                                      *)
(*                                                                         *)
(* The inductive invariant is Pipeline. Its core is JobsInv: what stands   *)
(* behind a slot at each of its steps (Stage). Two of its clauses carry    *)
(* the theorem on accepted files: a slot that wrote has merged its job's   *)
(* file, and behind a slot that redirected its job there is another job of *)
(* the file in the secondary lane, or the file has gone on; that other job *)
(* is of the other lane, so completing the first cannot remove it. Forward *)
(* is the step property: no file that has a job is left without.           *)
(*                                                                         *)
(* Traced adds that what was merged is in a row, or its rows died with a   *)
(* process. The last theorems are about the row on display. SettledStays   *)
(* needs that a merge reads it, so that its successor covers it;           *)
(* NothingUnread says when no read misses it. Converged needs that jobs    *)
(* list all files: then a job has all that was merged but what others      *)
(* merged meanwhile, and a newer row covers an older one up to that.       *)
(***************************************************************************)
EXTENDS IngestionPipeline, NumberSetsProofs, FiniteSetTheorems, TLAPS

-----------------------------------------------------------------------------
(* The least and the largest number of a set.                              *)
LEMMA MinOf ==
    ASSUME NEW S \in SUBSET Nat, S # {}
    PROVE  Min(S) \in S
PROOF BY HasLeast DEF Min

LEMMA MaxOf ==
    ASSUME NEW S \in SUBSET Nat, IsFiniteSet(S), S # {}
    PROVE  Max(S) \in S
PROOF BY HasGreatest DEF Max

-----------------------------------------------------------------------------
(* The jobs of the slots.                                                  *)

Past(f) == f \in merged \cup skipped \cup dead
Alive(f) == \E i \in jobs : i.file = f
Second(f) == \E i \in jobs : i.file = f /\ i.lane = "secondary"

Distinct(js) == \A i, j \in js : i.id = j.id => i = j

(* What a slot has achieved for its job, and what still stands behind it.  *)
Stage(s, j) ==
    /\ slot[s].pc \in {"listed", "marked", "read", "wrote"} =>
          j.file \in slot[s].files /\ IsFiniteSet(slot[s].files)
    /\ slot[s].pc = "wrote" => j.file \in merged
    /\ slot[s].pc \in {"redirecting", "redirected"} => j.lane = "primary"
    /\ slot[s].pc = "redirected" => Past(j.file) \/ Second(j.file)

JobsInv ==
    /\ jobs \in SUBSET Jobs /\ Distinct(jobs)
    /\ slot \in [Slots -> SlotStates]
    /\ \A s \in Slots : Busy(s, "idle") => slot[s] = Idle
    /\ \A s \in Slots : ~Busy(s, "idle") => \E j \in jobs : j.id = slot[s].job
    /\ \A s, t \in Slots : ~Busy(s, "idle") /\ s # t => slot[s].job # slot[t].job
    /\ \A s \in Slots, j \in jobs : j.id = slot[s].job => Stage(s, j)

(* No file is dropped: it has a job, or has gone on.                       *)
Forward ==
    /\ merged \subseteq merged'
    /\ \A f \in Files : /\ Past(f) => Past(f)'
                        /\ Alive(f) => Alive(f)' \/ Past(f)'
                        /\ Second(f) => Second(f)' \/ Past(f)'

LEMMA JobType ==
    ASSUME jobs \in SUBSET Jobs, NEW j \in jobs
    PROVE  /\ j.id \in JobIds /\ j.file \in Files /\ j.lane \in Lanes /\ j.tries \in Nat /\ j.stalls \in Nat
           /\ j.id # 0
PROOF BY BoundAssumption DEF Jobs

LEMMA IdleType == Idle \in SlotStates /\ Idle.pc = "idle" /\ Idle.job = 0 /\ NoRow \in Rows
PROOF
  <1>1. NoRow \in Rows
    BY DEF NoRow, Rows
  <1> QED
    BY <1>1 DEF Idle, SlotStates, Steps

LEMMA JobOfSlot ==
    ASSUME JobsInv, NEW s \in Slots, ~Busy(s, "idle")
    PROVE  /\ JobOf(s) \in jobs /\ JobOf(s).id = slot[s].job /\ Stage(s, JobOf(s))
           /\ \A j \in jobs : j.id = slot[s].job => j = JobOf(s)
PROOF
  <1>1. \E j \in jobs : j.id = slot[s].job
    BY DEF JobsInv
  <1>2. JobOf(s) \in jobs /\ JobOf(s).id = slot[s].job
    BY <1>1 DEF JobOf
  <1> QED
    BY <1>2 DEF JobsInv, Distinct

LEMMA SlotType == ASSUME JobsInv, NEW s \in Slots PROVE slot[s] \in SlotStates
PROOF BY DEF JobsInv

(* A step is of one slot at most, or of those of a process that died.      *)
LEMMA SlotsNext ==
    ASSUME JobsInv, Forward, jobs' \in SUBSET Jobs, Distinct(jobs'), slot' \in [Slots -> SlotStates],
           NEW S \in SUBSET Slots, \A s, t \in S : s = t,
           \A s \in S :
               /\ \E j \in jobs' : j.id = slot'[s].job /\ Stage(s, j)'
               /\ \A t \in Slots \ S : slot[t].job # slot'[s].job,
           \A t \in Slots \ S :
               \/ slot'[t] = Idle
               \/ slot'[t] = slot[t] /\ (~Busy(t, "idle") => JobOf(t) \in jobs'),
           \A s \in S : slot'[s].pc # "idle"
    PROVE  JobsInv'
PROOF
  <1>1. \A t \in Slots : Busy(t, "idle")' => slot'[t] = Idle
    BY DEF JobsInv, Busy
  <1>2. ASSUME NEW t \in Slots, slot'[t].pc # "idle", t \notin S
        PROVE  slot'[t] = slot[t] /\ ~Busy(t, "idle") /\ JobOf(t) \in jobs'
               /\ JobOf(t) \in jobs /\ JobOf(t).id = slot[t].job
    BY <1>2, IdleType, JobOfSlot DEF Busy
  <1>3. \A t \in Slots : ~Busy(t, "idle")' => \E j \in jobs' : j.id = slot'[t].job
    BY <1>2 DEF Busy
  <1>4. ASSUME NEW t \in Slots, NEW q \in Slots, ~Busy(t, "idle")', t # q
        PROVE  slot'[t].job # slot'[q].job
    <2>1. slot'[t].job \in JobIds /\ slot'[t].job # 0
      BY <1>3, <1>4, BoundAssumption DEF Jobs
    <2>2. slot'[q].pc = "idle" => slot'[q].job = 0
      BY <1>1, IdleType DEF Busy
    <2>3. CASE slot'[q].pc # "idle"
      BY <1>2, <1>4, <2>3 DEF JobsInv, Busy
    <2> QED
      BY <2>1, <2>2, <2>3
  <1>5. ASSUME NEW t \in Slots, NEW j \in jobs', j.id = slot'[t].job
        PROVE  Stage(t, j)'
    <2>1. j.id # 0 /\ j.file \in Files
      BY BoundAssumption DEF Jobs
    <2>2. slot'[t].pc # "idle"
      BY <1>1, <1>5, <2>1, IdleType DEF Busy
    <2>3. CASE t \in S
      BY <1>5, <2>2, <2>3 DEF Distinct
    <2>4. CASE t \notin S
      <3>1. slot'[t] = slot[t] /\ j = JobOf(t) /\ Stage(t, j)
        BY <1>2, <1>5, <2>2, <2>4, JobOfSlot DEF Distinct
      <3> QED
        BY <2>1, <3>1 DEF Stage, Forward
    <2> QED
      BY <2>3, <2>4
  <1>6. Distinct(jobs)'
    BY DEF Distinct
  <1> QED
    BY <1>1, <1>3, <1>4, <1>5, <1>6 DEF JobsInv

LEMMA StillForward ==
    ASSUME jobs \subseteq jobs', merged \subseteq merged', skipped \subseteq skipped', dead \subseteq dead'
    PROVE  Forward
PROOF BY DEF Forward, Past, Alive, Second

(* A job that goes leaves another of its lane, or its file has gone on.    *)
LEMMA OneForward ==
    ASSUME merged \subseteq merged', skipped \subseteq skipped', dead \subseteq dead',
           NEW gone \in SUBSET jobs, jobs \ gone \subseteq jobs',
           \A j \in gone : Past(j.file)' \/ \E i \in jobs' : i.file = j.file /\ i.lane = j.lane
    PROVE  Forward
PROOF
  <1>1. \A f : Past(f) => Past(f)'
    BY DEF Past
  <1>2. ASSUME NEW j \in jobs
        PROVE  Past(j.file)' \/ \E i \in jobs' : i.file = j.file /\ i.lane = j.lane
    OBVIOUS
  <1> QED
    BY <1>1, <1>2 DEF Forward, Alive, Second

LEMMA AddedJob ==
    ASSUME JobsInv, HasFreeId, NEW f \in Files, NEW lane \in Lanes, jobs' = Added(jobs, f, lane)
    PROVE  /\ jobs' \in SUBSET Jobs /\ Distinct(jobs') /\ jobs \subseteq jobs'
           /\ \E i \in jobs' : i.file = f /\ i.lane = lane
           /\ \A i \in jobs' : i \in jobs \/ i.file = f
PROOF
  <1> DEFINE free == JobIds \ {j.id : j \in jobs}
             new == [id |-> Min(free), file |-> f, lane |-> lane, tries |-> 0, stalls |-> 0]
  <1>1. free \in SUBSET Nat /\ free # {}
    BY BoundAssumption DEF HasFreeId
  <1>2. Min(free) \in free
    <2> HIDE DEF free
    <2> QED
      BY <1>1, MinOf
  <1>3. new \in Jobs /\ \A j \in jobs : j.id # new.id
    BY <1>2 DEF Jobs
  <1>4. jobs' = jobs \cup {new} /\ new.file = f /\ new.lane = lane
    BY DEF Added
  <1> HIDE DEF new
  <1> QED
    BY <1>3, <1>4 DEF JobsInv, Distinct

(* No slot moves.                                                          *)
LEMMA SlotsStay ==
    ASSUME JobsInv, Forward, jobs' \in SUBSET Jobs, Distinct(jobs'), UNCHANGED slot,
           \A s \in Slots : ~Busy(s, "idle") => JobOf(s) \in jobs'
    PROVE  JobsInv'
PROOF
  <1> DEFINE S == {}
  <1>1. S \in SUBSET Slots /\ \A s \in S : FALSE
    OBVIOUS
  <1>2. \A t \in Slots \ S : slot'[t] = slot[t] /\ (~Busy(t, "idle") => JobOf(t) \in jobs')
    OBVIOUS
  <1>3. slot' \in [Slots -> SlotStates]
    BY DEF JobsInv
  <1> HIDE DEF S
  <1> QED
    BY <1>1, <1>2, <1>3, SlotsNext

(* One slot goes on with a job that no other works on.                     *)
LEMMA SlotGoesOn ==
    ASSUME JobsInv, Forward, jobs' \in SUBSET Jobs, Distinct(jobs'), jobs \subseteq jobs',
           NEW s \in Slots, NEW state \in SlotStates, slot' = [slot EXCEPT ![s] = state],
           state.pc # "idle", NEW j \in jobs', j.id = state.job, Stage(s, j)',
           \A t \in Slots \ {s} : slot[t].job # state.job
    PROVE  JobsInv'
PROOF
  <1> DEFINE S == {s}
  <1>1. S \in SUBSET Slots /\ \A t, q \in S : t = q
    OBVIOUS
  <1>2. slot'[s] = state /\ slot' \in [Slots -> SlotStates] /\ \A t \in Slots \ {s} : slot'[t] = slot[t]
    BY DEF JobsInv
  <1>3. \A t \in S : /\ \E i \in jobs' : i.id = slot'[t].job /\ Stage(t, i)'
                     /\ \A q \in Slots \ S : slot[q].job # slot'[t].job
                     /\ slot'[t].pc # "idle"
    BY <1>2
  <1>4. \A t \in Slots \ S : slot'[t] = slot[t] /\ (~Busy(t, "idle") => JobOf(t) \in jobs')
    BY <1>2, JobOfSlot
  <1> HIDE DEF S
  <1> QED
    BY <1>1, <1>2, <1>3, <1>4, SlotsNext

LEMMA SameJobGoesOn ==
    ASSUME JobsInv, Forward, jobs' \in SUBSET Jobs, Distinct(jobs'), jobs \subseteq jobs',
           NEW s \in Slots, ~Busy(s, "idle"),
           NEW state \in SlotStates, slot' = [slot EXCEPT ![s] = state],
           state.pc # "idle", state.job = slot[s].job, NEW j, j = JobOf(s), Stage(s, j)'
    PROVE  JobsInv'
PROOF
  <1>1. j \in jobs' /\ j.id = state.job
    BY JobOfSlot
  <1>2. \A t \in Slots \ {s} : slot[t].job # state.job
    BY DEF JobsInv
  <1> QED
    BY <1>1, <1>2, SlotGoesOn

(* One slot is done with its job.                                          *)
LEMMA SlotLeaves ==
    ASSUME JobsInv, Forward, jobs' \in SUBSET Jobs, Distinct(jobs'), NEW s \in Slots, ~Busy(s, "idle"),
           jobs \ {JobOf(s)} \subseteq jobs', slot' = [slot EXCEPT ![s] = Idle]
    PROVE  JobsInv'
PROOF
  <1> DEFINE S == {}
  <1>1. S \in SUBSET Slots /\ \A t \in S : FALSE
    OBVIOUS
  <1>2. slot'[s] = Idle /\ slot' \in [Slots -> SlotStates] /\ \A t \in Slots \ {s} : slot'[t] = slot[t]
    BY IdleType DEF JobsInv
  <1>3. \A t \in Slots \ {s} : ~Busy(t, "idle") => JobOf(t) \in jobs'
    <2> SUFFICES ASSUME NEW t \in Slots \ {s}, ~Busy(t, "idle") PROVE JobOf(t) \in jobs'
      OBVIOUS
    <2>1. JobOf(t) \in jobs /\ JobOf(t).id # JobOf(s).id
      BY JobOfSlot DEF JobsInv
    <2> QED
      BY <2>1
  <1>4. \A t \in Slots \ S : \/ slot'[t] = Idle
                             \/ slot'[t] = slot[t] /\ (~Busy(t, "idle") => JobOf(t) \in jobs')
    BY <1>2, <1>3
  <1> HIDE DEF S
  <1> QED
    BY <1>1, <1>2, <1>4, SlotsNext

-----------------------------------------------------------------------------
(* The files of jobs and requests are in the bucket; stored rows are rows. *)

Placed ==
    /\ bucket \in Seq(Files) /\ IsFiniteSet(InBucket) /\ Cardinality(InBucket) = Len(bucket)
    /\ web \in [Files -> {"idle", "uploaded"}]
    /\ \A j \in jobs : j.file \in InBucket
    /\ \A f \in Files : web[f] = "uploaded" => f \in InBucket
    /\ stored \in SUBSET Rows

JobsOK == JobsInv' /\ Forward

LEMMA JobsAlone ==
    ASSUME JobsInv, UNCHANGED <<jobs, slot, merged, skipped, dead>>
    PROVE  JobsOK
PROOF
  <1>1. Forward
    BY StillForward
  <1>2. jobs' \in SUBSET Jobs /\ Distinct(jobs')
    BY DEF JobsInv
  <1>3. \A s \in Slots : ~Busy(s, "idle") => JobOf(s) \in jobs'
    BY JobOfSlot
  <1> QED
    BY <1>1, <1>2, <1>3, SlotsStay DEF JobsOK

LEMMA EnqueueJobs == ASSUME JobsInv, NEW f \in Files, Enqueue(f) PROVE JobsOK /\ Alive(f)'
PROOF
  <1>1. HasFreeId /\ jobs' = Added(jobs, f, "primary") /\ UNCHANGED <<slot, merged, skipped, dead>>
    BY DEF Enqueue
  <1>2. jobs' \in SUBSET Jobs /\ Distinct(jobs') /\ jobs \subseteq jobs' /\ Alive(f)'
    BY <1>1, AddedJob DEF Lanes, Alive
  <1>3. Forward
    BY <1>1, <1>2, StillForward
  <1>4. \A s \in Slots : ~Busy(s, "idle") => JobOf(s) \in jobs'
    BY <1>2, JobOfSlot
  <1> QED
    BY <1>1, <1>2, <1>3, <1>4, SlotsStay DEF JobsOK

LEMMA SkipSeenJobs == ASSUME JobsInv, NEW s \in Slots, NEW j \in jobs, SkipSeen(s, j) PROVE JobsOK
PROOF
  <1>1. /\ j.id \notin Active /\ jobs' = jobs \ {j} /\ skipped' = skipped \cup {j.file}
        /\ UNCHANGED <<slot, merged, dead>>
    BY DEF SkipSeen
  <1>2. jobs' \in SUBSET Jobs /\ Distinct(jobs')
    BY <1>1 DEF JobsInv, Distinct
  <1>3. Forward
    <2>1. Past(j.file)'
      BY <1>1 DEF Past
    <2>2. {j} \in SUBSET jobs /\ jobs \ {j} \subseteq jobs'
      BY <1>1
    <2>3. merged \subseteq merged' /\ skipped \subseteq skipped' /\ dead \subseteq dead'
      BY <1>1
    <2> QED
      BY <2>1, <2>2, <2>3, OneForward
  <1>4. \A t \in Slots : ~Busy(t, "idle") => JobOf(t) \in jobs'
    BY <1>1, JobOfSlot DEF Active, Busy
  <1> QED
    BY <1>1, <1>2, <1>3, <1>4, SlotsStay DEF JobsOK

LEMMA PickUpJobs == ASSUME JobsInv, NEW s \in Slots, NEW j \in jobs, PickUp(s, j) PROVE JobsOK
PROOF
  <1> DEFINE pc == IF slow /\ j.lane = "primary" THEN "redirecting" ELSE "picked"
             state == [Idle EXCEPT !.job = j.id, !.pc = pc]
  <1>1. /\ j.id \notin Active /\ UNCHANGED <<jobs, merged, skipped, dead>>
        /\ slot' = [slot EXCEPT ![s] = state]
    BY DEF PickUp
  <1>2. j.id \in JobIds /\ j.id # 0
    BY JobType DEF JobsInv
  <1>3. pc \in {"redirecting", "picked"} /\ (pc = "redirecting" => j.lane = "primary")
    OBVIOUS
  <1> HIDE DEF pc
  <1>4. state \in SlotStates /\ state.job = j.id /\ state.pc = pc
    BY <1>2, <1>3, IdleType DEF SlotStates, Steps, Idle
  <1> HIDE DEF state
  <1>5. Forward
    BY <1>1, StillForward
  <1>6. ASSUME NEW t \in Slots \ {s} PROVE slot[t].job # state.job
    BY <1>1, <1>2, <1>4, IdleType DEF Active, JobsInv, Busy
  <1>7. slot'[s] = state
    BY <1>1 DEF JobsInv
  <1>8. Stage(s, j)'
    BY <1>3, <1>4, <1>7 DEF Stage
  <1>9. jobs' \in SUBSET Jobs /\ Distinct(jobs') /\ jobs \subseteq jobs' /\ j \in jobs'
    BY <1>1 DEF JobsInv
  <1> QED
    BY <1>1, <1>3, <1>4, <1>5, <1>6, <1>8, <1>9, SlotGoesOn DEF JobsOK

(* Steps of a slot that leave the jobs as they are.                        *)
LEMMA SlotOnly ==
    ASSUME JobsInv, NEW s \in Slots, ~Busy(s, "idle"), UNCHANGED <<jobs, skipped, dead>>,
           merged \subseteq merged', NEW state \in SlotStates, slot' = [slot EXCEPT ![s] = state],
           state.pc \in {"listed", "marked", "read", "wrote"}, state.job = slot[s].job,
           JobOf(s).file \in state.files, IsFiniteSet(state.files),
           state.pc = "wrote" => JobOf(s).file \in merged'
    PROVE  JobsOK
PROOF
  <1>1. Forward
    BY StillForward
  <1>2. PICK j : j = JobOf(s)
    OBVIOUS
  <1>3. slot'[s] = state
    BY DEF JobsInv
  <1>4. Stage(s, j)'
    BY <1>2, <1>3 DEF Stage
  <1>5. jobs' \in SUBSET Jobs /\ Distinct(jobs') /\ jobs \subseteq jobs'
    BY DEF JobsInv
  <1> QED
    BY <1>1, <1>2, <1>4, <1>5, SameJobGoesOn DEF JobsOK

LEMMA ListSets ==
    ASSUME NEW s \in Slots, List(s)
    PROVE  \E i \in DOMAIN bucket :
              slot' = [slot EXCEPT ![s] =
                  [slot[s] EXCEPT !.files = IF SkipS3List THEN {JobOf(s).file} ELSE InBucket,
                                  !.first = bucket[i],
                                  !.pc = IF SeenEnabled THEN "listed" ELSE "marked"]]
PROOF
  <1> DEFINE files == IF SkipS3List THEN {JobOf(s).file} ELSE InBucket
             pc == IF SeenEnabled THEN "listed" ELSE "marked"
  <1>1. PICK i \in DOMAIN bucket :
            slot' = [slot EXCEPT ![s].files = files, ![s].first = bucket[i], ![s].pc = pc]
    BY DEF List
  <1> HIDE DEF files, pc
  <1>2. slot' = [slot EXCEPT ![s] = [slot[s] EXCEPT !.files = files, !.first = bucket[i], !.pc = pc]]
    BY <1>1
  <1> QED
    BY <1>2 DEF files, pc

LEMMA SlotJobs ==
    ASSUME JobsInv, Placed, NEW s \in Slots, List(s) \/ MarkSeen(s) \/ ReadBase(s) \/ MergeAndWrite(s)
    PROVE  JobsOK
PROOF
  <1>1. slot[s] \in SlotStates /\ ~Busy(s, "idle")
    BY SlotType DEF List, MarkSeen, ReadBase, MergeAndWrite, Busy
  <1>2. JobOf(s) \in jobs /\ JobOf(s).file \in InBucket /\ Stage(s, JobOf(s))
    BY <1>1, JobOfSlot DEF Placed
  <1>3. CASE List(s)
    <2> DEFINE files == IF SkipS3List THEN {JobOf(s).file} ELSE InBucket
               pc == IF SeenEnabled THEN "listed" ELSE "marked"
    <2>0. PICK i \in DOMAIN bucket :
             slot' = [slot EXCEPT ![s] = [slot[s] EXCEPT !.files = files, !.first = bucket[i], !.pc = pc]]
      BY <1>3, ListSets
    <2> DEFINE state == [slot[s] EXCEPT !.files = files, !.first = bucket[i], !.pc = pc]
    <2>1. slot' = [slot EXCEPT ![s] = state] /\ UNCHANGED <<jobs, merged, skipped, dead>>
      BY <1>3, <2>0 DEF List
    <2>5. bucket[i] \in Files
      BY DEF Placed
    <2>2. JobOf(s).file \in files /\ IsFiniteSet(files) /\ files \in SUBSET Files
      <3>1. InBucket \in SUBSET Files
        BY DEF Placed, InBucket
      <3> QED
        BY <1>2, <3>1, FS_Singleton DEF Placed
    <2>3. pc \in {"listed", "marked"}
      OBVIOUS
    <2> HIDE DEF files, pc
    <2>4. state \in SlotStates /\ state.files = files /\ state.pc = pc /\ state.job = slot[s].job
      BY <1>1, <2>2, <2>3, <2>5 DEF SlotStates, Steps
    <2> HIDE DEF state
    <2> QED
      BY <1>1, <2>1, <2>2, <2>3, <2>4, SlotOnly
  <1>4. CASE MarkSeen(s)
    <2> DEFINE state == [slot[s] EXCEPT !.pc = "marked"]
    <2>1. /\ slot' = [slot EXCEPT ![s] = state] /\ UNCHANGED <<jobs, merged, skipped, dead>>
          /\ slot[s].pc = "listed"
      BY <1>4 DEF MarkSeen, Put, Busy
    <2>2. /\ state \in SlotStates /\ state.files = slot[s].files /\ state.pc = "marked"
          /\ state.job = slot[s].job
      BY <1>1 DEF SlotStates, Steps
    <2>3. JobOf(s).file \in slot[s].files /\ IsFiniteSet(slot[s].files)
      BY <1>2, <2>1 DEF Stage
    <2> HIDE DEF state
    <2> QED
      BY <1>1, <2>1, <2>2, <2>3, SlotOnly
  <1>5. CASE ReadBase(s)
    <2>0. PICK base \in stored \cup {NoRow} :
             slot' = [slot EXCEPT ![s] = [slot[s] EXCEPT !.base = base, !.pc = "read"]]
      BY <1>5 DEF ReadBase, Found
    <2> DEFINE state == [slot[s] EXCEPT !.base = base, !.pc = "read"]
    <2>1. /\ slot' = [slot EXCEPT ![s] = state] /\ UNCHANGED <<jobs, merged, skipped, dead>>
          /\ slot[s].pc = "marked"
      BY <1>5, <2>0 DEF ReadBase, Busy
    <2>2. base \in Rows
      BY IdleType DEF Placed
    <2>3. /\ state \in SlotStates /\ state.files = slot[s].files /\ state.pc = "read"
          /\ state.job = slot[s].job
      BY <1>1, <2>2 DEF SlotStates, Steps
    <2>4. JobOf(s).file \in slot[s].files /\ IsFiniteSet(slot[s].files)
      BY <1>2, <2>1 DEF Stage
    <2> HIDE DEF state
    <2> QED
      BY <1>1, <2>1, <2>3, <2>4, SlotOnly
  <1>6. CASE MergeAndWrite(s)
    <2> DEFINE state == [slot[s] EXCEPT !.pc = "wrote"]
    <2>1. /\ slot' = [slot EXCEPT ![s] = state] /\ UNCHANGED <<jobs, skipped, dead>>
          /\ slot[s].pc = "read" /\ merged' = merged \cup slot[s].files
      BY <1>6 DEF MergeAndWrite, Put, Busy
    <2>2. /\ state \in SlotStates /\ state.files = slot[s].files /\ state.pc = "wrote"
          /\ state.job = slot[s].job
      BY <1>1 DEF SlotStates, Steps
    <2>3. JobOf(s).file \in slot[s].files /\ IsFiniteSet(slot[s].files)
      BY <1>2, <2>1 DEF Stage
    <2> HIDE DEF state
    <2> QED
      BY <1>1, <2>1, <2>2, <2>3, SlotOnly
  <1> QED
    BY <1>3, <1>4, <1>5, <1>6

LEMMA RedirectJobs == ASSUME JobsInv, NEW s \in Slots, Redirect(s) PROVE JobsOK
PROOF
  <1>1. slot[s] \in SlotStates /\ ~Busy(s, "idle") /\ slot[s].pc = "redirecting"
    BY SlotType DEF Redirect, Busy
  <1>2. PICK j : j = JobOf(s)
    OBVIOUS
  <1>3. j \in jobs /\ Stage(s, j) /\ j.file \in Files
    BY <1>1, <1>2, JobOfSlot, JobType DEF JobsInv
  <1> DEFINE state == [slot[s] EXCEPT !.pc = "redirected"]
  <1>4. /\ HasFreeId /\ jobs' = Added(jobs, j.file, "secondary") /\ slot' = [slot EXCEPT ![s] = state]
        /\ UNCHANGED <<merged, skipped, dead>>
    BY <1>2 DEF Redirect, Put
  <1>5. state \in SlotStates /\ state.pc = "redirected" /\ state.job = slot[s].job
    BY <1>1 DEF SlotStates, Steps
  <1> HIDE DEF state
  <1>6. jobs' \in SUBSET Jobs /\ Distinct(jobs') /\ jobs \subseteq jobs' /\ Second(j.file)'
    BY <1>3, <1>4, AddedJob DEF Lanes, Second
  <1>7. Forward
    BY <1>4, <1>6, StillForward
  <1>8. slot'[s] = state
    BY <1>4 DEF JobsInv
  <1>9. Stage(s, j)'
    BY <1>1, <1>3, <1>5, <1>6, <1>8 DEF Stage
  <1> QED
    BY <1>1, <1>2, <1>4, <1>5, <1>6, <1>7, <1>9, SameJobGoesOn DEF JobsOK

LEMMA CompleteJobs == ASSUME JobsInv, NEW s \in Slots, Complete(s) PROVE JobsOK
PROOF
  <1>1. ~Busy(s, "idle") /\ slot[s].pc \in {"redirected", "wrote"}
    BY DEF Complete, Busy
  <1>2. PICK j : j = JobOf(s)
    OBVIOUS
  <1>3. j \in jobs /\ Stage(s, j) /\ j.file \in Files
    BY <1>1, <1>2, JobOfSlot, JobType DEF JobsInv
  <1>4. /\ jobs' = jobs \ {j} /\ slot' = [slot EXCEPT ![s] = Idle]
        /\ UNCHANGED <<merged, skipped, dead>>
    BY <1>2 DEF Complete
  <1>5. jobs' \in SUBSET Jobs /\ Distinct(jobs')
    BY <1>4 DEF JobsInv, Distinct
  <1>6. \A f : Past(f) <=> Past(f)'
    BY <1>4 DEF Past
  <1>7. CASE slot[s].pc = "wrote"
    <2>1. Past(j.file)'
      BY <1>3, <1>4, <1>7 DEF Stage, Past
    <2>2. Forward
      BY <1>3, <1>4, <2>1, OneForward
    <2> QED
      BY <1>1, <1>2, <1>4, <1>5, <2>2, SlotLeaves DEF JobsOK
  <1>8. CASE slot[s].pc = "redirected"
    <2>1. j.lane = "primary" /\ (Past(j.file) \/ Second(j.file))
      BY <1>3, <1>8 DEF Stage
    <2>2. \A f : Second(f) => Second(f)'
      BY <1>4, <2>1 DEF Second
    <2>3. \A f : Alive(f) => Alive(f)' \/ Past(f)'
      <3> SUFFICES ASSUME NEW i \in jobs PROVE Alive(i.file)' \/ Past(i.file)'
        BY DEF Alive
      <3>1. CASE i = j
        BY <1>6, <2>1, <2>2, <3>1 DEF Second, Alive
      <3>2. CASE i # j
        BY <1>4, <3>2 DEF Alive
      <3> QED
        BY <3>1, <3>2
    <2>4. Forward
      BY <1>4, <1>6, <2>2, <2>3 DEF Forward
    <2> QED
      BY <1>1, <1>2, <1>4, <1>5, <2>4, SlotLeaves DEF JobsOK
  <1> QED
    BY <1>1, <1>7, <1>8

LEMMA FailJobs == ASSUME JobsInv, NEW s \in Slots, NEW throttled \in BOOLEAN, Fail(s, throttled) PROVE JobsOK
PROOF
  <1>1. ~Busy(s, "idle")
    BY FailPointsAssumption DEF Fail, Busy
  <1>2. PICK j : j = JobOf(s)
    OBVIOUS
  <1>3. j \in jobs /\ j \in Jobs /\ j.file \in Files
    BY <1>1, <1>2, JobOfSlot, JobType DEF JobsInv
  <1>4. /\ slot' = [slot EXCEPT ![s] = Idle] /\ UNCHANGED <<merged, skipped>>
        /\ \/ jobs' = jobs \ {j} /\ dead' = dead \cup {j.file}
           \/ jobs' = (jobs \ {j}) \cup {[j EXCEPT !.tries = @ + 1]} /\ dead' = dead
    BY <1>2 DEF Fail
  <1> DEFINE again == [j EXCEPT !.tries = @ + 1]
  <1>5. again \in Jobs /\ again.id = j.id /\ again.file = j.file /\ again.lane = j.lane
    BY <1>3 DEF Jobs
  <1>a. jobs' = jobs \ {j} \/ jobs' = (jobs \ {j}) \cup {again}
    BY <1>4
  <1> HIDE DEF again
  <1>6. jobs' \in SUBSET Jobs /\ Distinct(jobs')
    <2>1. jobs' \in SUBSET Jobs
      BY <1>5, <1>a DEF JobsInv
    <2>2. \A i \in jobs' : i = again \/ (i \in jobs /\ i.id # j.id)
      BY <1>3, <1>a DEF JobsInv, Distinct
    <2> QED
      BY <1>5, <2>1, <2>2 DEF JobsInv, Distinct
  <1>7. Past(j.file)' \/ \E i \in jobs' : i.file = j.file /\ i.lane = j.lane
    BY <1>4, <1>5 DEF again, Past
  <1>8. Forward
    <2>1. {j} \in SUBSET jobs /\ jobs \ {j} \subseteq jobs' /\ dead \subseteq dead'
      BY <1>3, <1>4
    <2> QED
      BY <1>4, <1>7, <2>1, OneForward
  <1> QED
    BY <1>1, <1>2, <1>4, <1>6, <1>8, SlotLeaves DEF JobsOK

(* The jobs of a process that died wait again, or have stalled too often.  *)
LEMMA CrashJobs == ASSUME JobsInv, NEW p \in Procs, Crash(p) PROVE JobsOK
PROOF
  <1> DEFINE mine == {s \in Slots : Home[s] = p /\ ~Busy(s, "idle")}
             stalled == {JobOf(s) : s \in mine}
             given == {j \in stalled : j.stalls >= MaxStalls}
             again(j) == [j EXCEPT !.stalls = @ + 1]
             back == {again(j) : j \in stalled \ given}
  <1>1. /\ jobs' = (jobs \ stalled) \cup back /\ dead' = dead \cup {j.file : j \in given}
        /\ slot' = [s \in Slots |-> IF s \in mine THEN Idle ELSE slot[s]]
        /\ UNCHANGED <<merged, skipped>>
    BY DEF Crash
  <1>2. \A s \in mine : s \in Slots /\ ~Busy(s, "idle")
    OBVIOUS
  <1>3. \A s \in Slots \ mine : Home[s] # p \/ Busy(s, "idle")
    OBVIOUS
  <1>4. stalled \in SUBSET jobs
    BY <1>2, JobOfSlot
  <1>5. given \subseteq stalled
    OBVIOUS
  <1>6. \A j \in stalled : /\ again(j) \in Jobs /\ again(j).id = j.id /\ again(j).file = j.file
                           /\ again(j).lane = j.lane
    <2> SUFFICES ASSUME NEW j \in stalled
                 PROVE  /\ again(j) \in Jobs /\ again(j).id = j.id /\ again(j).file = j.file
                        /\ again(j).lane = j.lane
      OBVIOUS
    <2>1. j \in Jobs
      BY <1>4 DEF JobsInv
    <2> QED
      BY <2>1 DEF Jobs
  <1>7. ASSUME NEW t \in Slots \ mine, ~Busy(t, "idle") PROVE JobOf(t) \in jobs'
    <2>1. JobOf(t) \notin stalled
      <3> SUFFICES ASSUME NEW s \in mine PROVE JobOf(t) # JobOf(s)
        OBVIOUS
      <3>1. slot[s].job # slot[t].job
        BY <1>2, <1>7 DEF JobsInv
      <3> QED
        BY <1>2, <1>7, <3>1, JobOfSlot
    <2> QED
      BY <1>1, <1>7, <2>1, JobOfSlot
  <1>8. back = {again(j) : j \in stalled \ given}
    OBVIOUS
  <1> HIDE DEF mine, stalled, given, again, back
  <1>9. jobs' \in SUBSET Jobs /\ Distinct(jobs')
    <2>1. back \in SUBSET Jobs
      BY <1>6, <1>8
    <2>2. jobs' \in SUBSET Jobs
      BY <1>1, <2>1 DEF JobsInv
    <2>3. ASSUME NEW i \in jobs', NEW j \in jobs', i.id = j.id PROVE i = j
      <3>1. \A k \in back : \E old \in stalled : k = again(old) /\ k.id = old.id
        BY <1>6, <1>8
      <3>2. \A k \in jobs' \ back : k \in jobs \ stalled
        BY <1>1
      <3>3. CASE i \in back /\ j \in back
        <4>1. PICK a \in stalled : i = again(a) /\ i.id = a.id
          BY <3>1, <3>3
        <4>2. PICK b \in stalled : j = again(b) /\ j.id = b.id
          BY <3>1, <3>3
        <4>3. a = b
          BY <1>4, <2>3, <4>1, <4>2 DEF JobsInv, Distinct
        <4> QED
          BY <4>1, <4>2, <4>3
      <3>4. CASE i \notin back /\ j \notin back
        BY <2>3, <3>2, <3>4 DEF JobsInv, Distinct
      <3>5. CASE i \in back /\ j \notin back
        BY <1>4, <2>3, <3>1, <3>2, <3>5 DEF JobsInv, Distinct
      <3>6. CASE i \notin back /\ j \in back
        BY <1>4, <2>3, <3>1, <3>2, <3>6 DEF JobsInv, Distinct
      <3> QED
        BY <3>3, <3>4, <3>5, <3>6
    <2> QED
      BY <2>2, <2>3 DEF Distinct
  <1>10. Forward
    <2>1. ASSUME NEW j \in stalled PROVE Past(j.file)' \/ \E i \in jobs' : i.file = j.file /\ i.lane = j.lane
      BY <1>1, <1>6, <1>8 DEF Past
    <2>2. jobs \ stalled \subseteq jobs' /\ dead \subseteq dead'
      BY <1>1
    <2> QED
      BY <1>1, <1>4, <2>1, <2>2, OneForward
  <1>11. slot' \in [Slots -> SlotStates]
    BY <1>1, IdleType DEF JobsInv
  <1> DEFINE S == {}
  <1>12. S \in SUBSET Slots /\ \A t \in S : FALSE
    OBVIOUS
  <1>13. \A t \in Slots \ S : \/ slot'[t] = Idle
                              \/ slot'[t] = slot[t] /\ (~Busy(t, "idle") => JobOf(t) \in jobs')
    BY <1>1, <1>7
  <1> HIDE DEF S
  <1> QED
    BY <1>9, <1>10, <1>11, <1>12, <1>13, SlotsNext DEF JobsOK

LEMMA JobsNext == ASSUME JobsInv, Placed, [Next]_vars PROVE JobsOK
PROOF
  <1>1. ASSUME NEW f \in Files, Upload(f) \/ UploadThrottled(f) \/ RequestFails(f) PROVE JobsOK
    <2>1. UNCHANGED <<jobs, slot, merged, skipped, dead>>
      BY <1>1 DEF Upload, UploadThrottled, RequestFails
    <2> QED
      BY <2>1, JobsAlone
  <1>2. ASSUME NEW f \in Files, Enqueue(f) PROVE JobsOK
    BY <1>2, EnqueueJobs
  <1>3. ASSUME NEW s \in Slots, SlotStep(s) PROVE JobsOK
    BY <1>3, SkipSeenJobs, PickUpJobs, SlotJobs, RedirectJobs, CompleteJobs DEF SlotStep
  <1>4. ASSUME NEW s \in Slots, NEW throttled \in BOOLEAN, Fail(s, throttled) PROVE JobsOK
    BY <1>4, FailJobs
  <1>5. ASSUME NEW p \in Procs, Crash(p) PROVE JobsOK
    BY <1>5, CrashJobs
  <1>6. ASSUME (\E p \in Procs : Flush(p)) \/ ExpireSeen \/ ExpireSlow \/ UNCHANGED vars PROVE JobsOK
    <2>1. UNCHANGED <<jobs, slot, merged, skipped, dead>>
      BY <1>6 DEF Flush, ExpireSeen, ExpireSlow, vars
    <2> QED
      BY <2>1, JobsAlone
  <1> QED
    BY <1>1, <1>2, <1>3, <1>4, <1>5, <1>6 DEF Next

LEMMA InitJobs == Init => JobsInv
PROOF
  <1> SUFFICES ASSUME Init PROVE JobsInv
    OBVIOUS
  <1>1. jobs = {} /\ slot = [s \in Slots |-> Idle]
    BY DEF Init
  <1> QED
    BY <1>1, IdleType DEF JobsInv, Distinct, Busy

-----------------------------------------------------------------------------
(* The listing: a file that is sent again moves to its end.                *)

LEMMA ConcatAt ==
    ASSUME NEW S, NEW a \in Seq(S), NEW b \in Seq(S), NEW k \in 1..Len(a) + Len(b)
    PROVE  (a \o b)[k] = IF k <= Len(a) THEN a[k] ELSE b[k - Len(a)]
PROOF OBVIOUS

LEMMA InBucketType == ASSUME bucket \in Seq(Files) PROVE InBucket \in SUBSET Files
PROOF BY DEF InBucket

LEMMA UploadPlaced ==
    ASSUME Placed, NEW f \in Files, Upload(f)
    PROVE  /\ (bucket \in Seq(Files) /\ IsFiniteSet(InBucket) /\ Cardinality(InBucket) = Len(bucket))'
           /\ InBucket' = InBucket \cup {f}
PROOF
  <1> bucket \in Seq(Files)
    BY DEF Placed
  <1> DEFINE n == Len(bucket)
  <1>0. n \in Nat
    OBVIOUS
  <1>1. CASE f \notin InBucket
    <2>1. bucket' = Append(bucket, f)
      BY <1>1 DEF Upload
    <2>2. bucket' \in Seq(Files) /\ Len(bucket') = n + 1
      BY <2>1
    <2>3. InBucket' = InBucket \cup {f}
      <3>1. bucket'[n + 1] = f /\ \A k \in 1..n : bucket'[k] = bucket[k]
        BY <2>1
      <3>2. DOMAIN bucket' = 1..n+1 /\ DOMAIN bucket = 1..n
        BY <2>2
      <3>3. \A k \in 1..n+1 : k \in 1..n \/ k = n + 1
        BY <1>0
      <3>4. \A k \in 1..n : k \in 1..n+1
        BY <1>0
      <3>5. n + 1 \in 1..n+1
        BY <1>0
      <3> HIDE DEF n
      <3> QED
        BY <3>1, <3>2, <3>3, <3>4, <3>5 DEF InBucket
    <2>4. IsFiniteSet(InBucket \cup {f}) /\ Cardinality(InBucket \cup {f}) = Cardinality(InBucket) + 1
      BY <1>1, FS_AddElement DEF Placed
    <2> QED
      BY <2>2, <2>3, <2>4 DEF Placed
  <1>2. CASE f \in InBucket
    <2>1. PICK i \in DOMAIN bucket : bucket[i] = f /\ bucket' = Append(RemoveAt(bucket, i), f)
      BY <1>2 DEF Upload
    <2>2. i \in 1..n
      OBVIOUS
    <2> DEFINE a == SubSeq(bucket, 1, i - 1)
               b == SubSeq(bucket, i + 1, n)
    <2>3. a \in Seq(Files) /\ Len(a) = i - 1 /\ \A k \in 1..i-1 : a[k] = bucket[k]
      BY <2>2
    <2>4. b \in Seq(Files) /\ Len(b) = n - i /\ \A k \in 1..n-i : b[k] = bucket[i + k]
      BY <2>2
    <2>5. bucket' = Append(a \o b, f)
      BY <2>1 DEF RemoveAt
    <2> HIDE DEF a, b
    <2>6. a \o b \in Seq(Files) /\ Len(a \o b) = n - 1
      BY <2>2, <2>3, <2>4
    <2>7. bucket' \in Seq(Files) /\ Len(bucket') = n
      BY <2>2, <2>5, <2>6
    <2>8. \A k \in 1..n-1 : bucket'[k] = IF k < i THEN bucket[k] ELSE bucket[k + 1]
      <3> SUFFICES ASSUME NEW k \in 1..n-1 PROVE bucket'[k] = IF k < i THEN bucket[k] ELSE bucket[k + 1]
        OBVIOUS
      <3>1. bucket'[k] = (a \o b)[k]
        BY <2>2, <2>5, <2>6
      <3>2. CASE k < i
        <4>1. (a \o b)[k] = a[k]
          BY <2>2, <2>3, <2>4, <3>2
        <4> QED
          BY <2>2, <2>3, <3>1, <3>2, <4>1
      <3>3. CASE ~(k < i)
        <4>1. k - (i - 1) \in 1..n-i /\ i + (k - (i - 1)) = k + 1
          BY <2>2, <3>3
        <4>2. (a \o b)[k] = b[k - (i - 1)]
          <5>1. k \in 1..Len(a) + Len(b) /\ ~(k <= Len(a))
            BY <2>2, <2>3, <2>4, <3>3
          <5>2. (a \o b)[k] = b[k - Len(a)]
            BY <2>3, <2>4, <5>1, ConcatAt
          <5> QED
            BY <2>3, <5>2
        <4> QED
          BY <2>4, <3>1, <3>3, <4>1, <4>2
      <3> QED
        BY <3>2, <3>3
    <2>9. bucket'[n] = f
      BY <2>2, <2>5, <2>6
    <2>10. DOMAIN bucket' = 1..n /\ DOMAIN bucket = 1..n
      BY <2>7
    <2> HIDE DEF n
    <2>11. InBucket' = InBucket
      <3>1. ASSUME NEW k \in 1..n PROVE bucket'[k] \in InBucket
        <4>1. CASE k = n
          BY <1>2, <2>9, <4>1
        <4>2. CASE k # n
          <5>1. k \in 1..n-1 /\ k + 1 \in 1..n
            BY <1>0, <4>2
          <5> QED
            BY <2>8, <2>10, <3>1, <5>1 DEF InBucket
        <4> QED
          BY <4>1, <4>2
      <3>2. ASSUME NEW k \in 1..n PROVE \E m \in 1..n : bucket'[m] = bucket[k]
        <4>1. CASE k = i
          <5>1. n \in 1..n
            BY <1>0, <2>2
          <5> QED
            BY <2>1, <2>9, <4>1, <5>1
        <4>2. CASE k < i
          <5>1. k \in 1..n-1
            BY <1>0, <2>2, <4>2
          <5> QED
            BY <2>8, <4>2, <5>1
        <4>3. CASE k > i
          <5>1. k - 1 \in 1..n-1 /\ k - 1 \in 1..n /\ ~(k - 1 < i) /\ (k - 1) + 1 = k
            BY <1>0, <2>2, <4>3
          <5>2. bucket'[k - 1] = bucket[k]
            BY <2>8, <5>1
          <5> QED
            BY <5>1, <5>2
        <4>4. k = i \/ k < i \/ k > i
          BY <1>0, <2>2
        <4> QED
          BY <4>1, <4>2, <4>3, <4>4
      <3>3. InBucket' \subseteq InBucket
        BY <2>10, <3>1 DEF InBucket
      <3>4. InBucket \subseteq InBucket'
        BY <2>10, <3>2 DEF InBucket
      <3> QED
        BY <3>3, <3>4
    <2> QED
      BY <1>2, <2>7, <2>11 DEF Placed, n
  <1> QED
    BY <1>1, <1>2

(* A job is of a file that had one, or whose request is being answered.    *)
LEMMA JobFiles ==
    ASSUME JobsInv, [Next]_vars, NEW j \in jobs'
    PROVE  j.file \in Files /\ (Alive(j.file) \/ web[j.file] = "uploaded")
PROOF
  <1>0. \A i \in jobs : Alive(i.file) /\ i.file \in Files /\ i \in Jobs
    BY JobType DEF Alive, JobsInv
  <1>1. ASSUME NEW f \in Files, Enqueue(f) PROVE j \in jobs \/ (j.file = f /\ web[f] = "uploaded")
    BY <1>1, AddedJob DEF Enqueue, Lanes
  <1>2. ASSUME NEW s \in Slots, SlotStep(s) PROVE Alive(j.file) /\ j.file \in Files
    <2>1. CASE Redirect(s)
      <3>1. PICK i : i = JobOf(s)
        OBVIOUS
      <3>2. i \in jobs /\ i.file \in Files
        BY <1>0, <2>1, <3>1, JobOfSlot DEF Redirect, Busy
      <3>3. j \in jobs \/ j.file = i.file
        BY <2>1, <3>1, <3>2, AddedJob DEF Redirect, Lanes
      <3> QED
        BY <1>0, <3>2, <3>3
    <2>2. CASE ~Redirect(s)
      <3>1. jobs' \subseteq jobs
        BY <1>2, <2>2 DEF SlotStep, SkipSeen, PickUp, List, MarkSeen, ReadBase, MergeAndWrite, Complete
      <3> QED
        BY <1>0, <3>1
    <2> QED
      BY <2>1, <2>2
  <1>3. ASSUME NEW s \in Slots, NEW throttled \in BOOLEAN, Fail(s, throttled) PROVE Alive(j.file) /\ j.file \in Files
    <2>1. PICK i : i = JobOf(s)
      OBVIOUS
    <2>2. i \in jobs /\ i \in Jobs
      BY <1>0, <1>3, <2>1, JobOfSlot, FailPointsAssumption DEF Fail, Busy
    <2>3. j \in jobs \/ j = [i EXCEPT !.tries = @ + 1]
      BY <1>3, <2>1 DEF Fail
    <2>4. j \in jobs \/ j.file = i.file
      BY <2>2, <2>3 DEF Jobs
    <2> QED
      BY <1>0, <2>2, <2>4
  <1>4. ASSUME NEW p \in Procs, Crash(p) PROVE Alive(j.file) /\ j.file \in Files
    <2>1. ASSUME j \notin jobs
          PROVE  \E s \in Slots : ~Busy(s, "idle") /\ j = [JobOf(s) EXCEPT !.stalls = @ + 1]
      BY <1>4, <2>1 DEF Crash
    <2>2. ASSUME j \notin jobs PROVE \E i \in jobs : j.file = i.file
      <3>1. PICK s \in Slots : ~Busy(s, "idle") /\ j = [JobOf(s) EXCEPT !.stalls = @ + 1]
        BY <2>1, <2>2
      <3>2. PICK i : i = JobOf(s)
        OBVIOUS
      <3>3. i \in jobs /\ i \in Jobs
        BY <1>0, <3>1, <3>2, JobOfSlot
      <3>4. j = [i EXCEPT !.stalls = @ + 1]
        BY <3>1, <3>2
      <3>5. j.file = i.file
        BY <3>3, <3>4 DEF Jobs
      <3> QED
        BY <3>3, <3>5
    <2> QED
      BY <1>0, <2>2
  <1>5. ASSUME \/ \E f \in Files : Upload(f) \/ UploadThrottled(f) \/ RequestFails(f)
               \/ \E p \in Procs : Flush(p)
               \/ ExpireSeen \/ ExpireSlow \/ UNCHANGED vars
        PROVE  j \in jobs
    BY <1>5 DEF Upload, UploadThrottled, RequestFails, Flush, ExpireSeen, ExpireSlow, vars
  <1> QED
    BY <1>0, <1>1, <1>2, <1>3, <1>4, <1>5 DEF Next

(* The rows the writers and ClickHouse hold.                               *)
Stored ==
    /\ buffer \in [Procs -> SUBSET Rows] /\ stored \in SUBSET Rows /\ clock \in Nat
    /\ top \in stored \cup {NoRow} /\ top \in Rows
    /\ meanwhile \in [Slots -> SUBSET Files]

(* What a job with files makes of them is a row.                           *)
LEMMA NewRow ==
    ASSUME JobsInv, Stored, NEW s \in Slots, slot[s].pc = "read"
    PROVE  /\ MergedRow(s) \in Rows /\ MergedRow(s).ts = clock + 1
           /\ MergedRow(s).covers = slot[s].base.covers \cup slot[s].files
           /\ MergedRow(s).winner = Max(slot[s].files)
           /\ MergedRow(s).late = meanwhile[s] \ slot[s].files
           /\ MergedRow(s).start = IF slot[s].base = NoRow THEN EventStart(Min(slot[s].files))
                                                          ELSE slot[s].base.start
           /\ Min(slot[s].files) \in Files /\ Max(slot[s].files) \in Files
           /\ slot[s].files \in SUBSET Files /\ slot[s].base \in Rows
PROOF
  <1>1. slot[s] \in SlotStates
    BY SlotType
  <1>2. PICK j \in jobs : j.file \in slot[s].files /\ IsFiniteSet(slot[s].files)
    BY JobOfSlot DEF Stage, Busy
  <1>3. slot[s].files \in SUBSET Nat /\ slot[s].files \in SUBSET Files /\ slot[s].base \in Rows
    BY <1>1, FilesAssumption DEF SlotStates
  <1>4. Max(slot[s].files) \in Files /\ Min(slot[s].files) \in Files
    BY <1>2, <1>3, MinOf, MaxOf
  <1>5. slot[s].base.covers \in SUBSET Files /\ slot[s].base.start \in Nat
    BY <1>3 DEF Rows
  <1>6. EventStart(Min(slot[s].files)) \in Nat
    BY <1>4, StartAssumption, FilesAssumption DEF EventStart
  <1>7. meanwhile[s] \in SUBSET Files
    BY DEF Stored
  <1>8. PICK start : start = IF slot[s].base = NoRow THEN EventStart(Min(slot[s].files)) ELSE slot[s].base.start
    OBVIOUS
  <1>9. MergedRow(s) = [ts |-> clock + 1, covers |-> slot[s].base.covers \cup slot[s].files,
                        winner |-> Max(slot[s].files), start |-> start, late |-> meanwhile[s] \ slot[s].files]
    BY <1>8 DEF MergedRow
  <1>10. start \in Nat /\ clock + 1 \in Nat
    BY <1>5, <1>6, <1>8 DEF Stored
  <1> QED
    BY <1>3, <1>4, <1>5, <1>7, <1>8, <1>9, <1>10 DEF Rows

LEMMA StoredNext == ASSUME JobsInv, Stored, [Next]_vars PROVE Stored'
PROOF
  <1>1. ASSUME NEW s \in Slots, MergeAndWrite(s) PROVE Stored'
    <2>1. slot[s].pc = "read"
      BY <1>1 DEF MergeAndWrite, Busy
    <2>5. PICK r : r = MergedRow(s)
      OBVIOUS
    <2>6. r \in Rows /\ slot[s].files \in SUBSET Files
      BY <2>1, <2>5, NewRow
    <2>7. /\ buffer' = [buffer EXCEPT ![Home[s]] = @ \cup {r}] /\ clock' = clock + 1
          /\ UNCHANGED <<stored, top>>
      BY <1>1, <2>5 DEF MergeAndWrite
    <2>10. meanwhile' \in [Slots -> SUBSET Files]
      BY <1>1, <2>6 DEF MergeAndWrite, Stored
    <2>8. Home[s] \in Procs /\ buffer[Home[s]] \cup {r} \in SUBSET Rows
      BY <2>6, HomeAssumption DEF Stored
    <2>9. buffer' \in [Procs -> SUBSET Rows]
      BY <2>7, <2>8 DEF Stored
    <2> QED
      BY <2>7, <2>9, <2>10 DEF Stored
  <1>2. ASSUME NEW p \in Procs, Flush(p) PROVE Stored'
    <2>1. PICK r \in buffer[p] : /\ buffer' = [buffer EXCEPT ![p] = @ \ {r}] /\ clock' = clock
                                 /\ top' = IF r.ts > top.ts THEN r ELSE top
                                 /\ stored' = stored \cup {r} /\ meanwhile' = meanwhile
      BY <1>2 DEF Flush
    <2>2. buffer[p] \in SUBSET Rows /\ r \in Rows
      BY DEF Stored
    <2>3. /\ buffer[p] \ {r} \in SUBSET Rows /\ top' \in Rows /\ top' \in stored' \cup {NoRow}
          /\ stored' \in SUBSET Rows
      BY <2>1, <2>2 DEF Stored
    <2> QED
      BY <2>1, <2>3 DEF Stored
  <1>3. ASSUME NEW p \in Procs, Crash(p) PROVE Stored'
    <2>1. buffer' = [buffer EXCEPT ![p] = {}] /\ UNCHANGED <<clock, top, stored>>
      BY <1>3 DEF Crash
    <2>2. meanwhile' \in [Slots -> SUBSET Files]
      BY <1>3 DEF Crash, Stored
    <2> QED
      BY <2>1, <2>2 DEF Stored
  <1>4. ASSUME NEW s \in Slots, SlotStep(s), ~MergeAndWrite(s)
        PROVE  UNCHANGED <<buffer, stored, top, clock, meanwhile>>
    BY <1>4 DEF SlotStep, SkipSeen, PickUp, Redirect, List, MarkSeen, ReadBase, Complete
  <1>5. ASSUME \/ \E f \in Files : Upload(f) \/ UploadThrottled(f) \/ Enqueue(f) \/ RequestFails(f)
               \/ ExpireSeen \/ ExpireSlow \/ UNCHANGED vars
        PROVE  UNCHANGED <<buffer, stored, top, clock, meanwhile>>
    BY <1>5 DEF Upload, UploadThrottled, Enqueue, RequestFails, ExpireSeen, ExpireSlow, vars
  <1>6. ASSUME UNCHANGED <<buffer, stored, top, clock, meanwhile>> PROVE Stored'
    BY <1>6 DEF Stored
  <1>7. ASSUME NEW s \in Slots, NEW throttled \in BOOLEAN, Fail(s, throttled) PROVE Stored'
    BY <1>7 DEF Fail, Stored
  <1> QED
    BY <1>1, <1>2, <1>3, <1>4, <1>5, <1>6, <1>7 DEF Next

LEMMA PlacedNext == ASSUME JobsInv, Placed, Stored, [Next]_vars PROVE Placed'
PROOF
  <1>1. stored' \in SUBSET Rows
    BY StoredNext DEF Stored
  <1>2. ASSUME NEW f \in Files, Upload(f) PROVE web' = [web EXCEPT ![f] = "uploaded"]
    BY <1>2 DEF Upload
  <1>3. ASSUME \A f \in Files : ~Upload(f)
        PROVE  bucket' = bucket /\ (web' = web \/ \E f \in Files : web' = [web EXCEPT ![f] = "idle"])
    <2>1. ASSUME NEW f \in Files, UploadThrottled(f) \/ Enqueue(f) \/ RequestFails(f)
          PROVE  bucket' = bucket /\ (web' = web \/ web' = [web EXCEPT ![f] = "idle"])
      BY <2>1 DEF UploadThrottled, Enqueue, RequestFails
    <2>2. ASSUME NEW s \in Slots, SlotStep(s) PROVE UNCHANGED <<bucket, web>>
      BY <2>2 DEF SlotStep, SkipSeen, PickUp, Redirect, List, MarkSeen, ReadBase, MergeAndWrite, Complete
    <2>3. ASSUME NEW s \in Slots, NEW throttled \in BOOLEAN, Fail(s, throttled) PROVE UNCHANGED <<bucket, web>>
      BY <2>3 DEF Fail
    <2>4. ASSUME NEW p \in Procs, Flush(p) \/ Crash(p) PROVE UNCHANGED <<bucket, web>>
      BY <2>4 DEF Flush, Crash
    <2>5. ASSUME ExpireSeen \/ ExpireSlow \/ UNCHANGED vars PROVE UNCHANGED <<bucket, web>>
      BY <2>5 DEF ExpireSeen, ExpireSlow, vars
    <2> QED
      BY <1>3, <2>1, <2>2, <2>3, <2>4, <2>5 DEF Next
  <1>4. /\ (bucket \in Seq(Files) /\ IsFiniteSet(InBucket) /\ Cardinality(InBucket) = Len(bucket))'
        /\ InBucket \subseteq InBucket'
        /\ \A f \in Files : Upload(f) => f \in InBucket'
    <2>1. CASE \E f \in Files : Upload(f)
      <3>1. PICK f \in Files : Upload(f)
        BY <2>1
      <3>2. \A g \in Files : Upload(g) => g = f
        BY <1>2, <3>1 DEF Placed, Upload
      <3>3. InBucket' = InBucket \cup {f}
        BY <3>1, UploadPlaced
      <3>4. (bucket \in Seq(Files) /\ IsFiniteSet(InBucket) /\ Cardinality(InBucket) = Len(bucket))'
        BY <3>1, UploadPlaced
      <3> QED
        BY <3>2, <3>3, <3>4
    <2>2. CASE \A f \in Files : ~Upload(f)
      <3>1. bucket' = bucket
        BY <1>3, <2>2
      <3>2. InBucket' = InBucket
        BY <3>1 DEF InBucket
      <3> QED
        BY <2>2, <3>1, <3>2 DEF Placed
    <2> QED
      BY <2>1, <2>2
  <1>5. web' \in [Files -> {"idle", "uploaded"}]
    BY <1>2, <1>3 DEF Placed
  <1>6. \A f \in Files : web'[f] = "uploaded" => f \in InBucket'
    BY <1>2, <1>3, <1>4 DEF Placed
  <1>7. \A j \in jobs' : j.file \in InBucket'
    BY <1>4, JobFiles DEF Alive, Placed
  <1> QED
    BY <1>1, <1>4, <1>5, <1>6, <1>7 DEF Placed

-----------------------------------------------------------------------------
(* The sets that only record what happened, and the flags.                 *)

Recorded ==
    /\ accepted \in SUBSET Files /\ merged \in SUBSET Files /\ skipped \in SUBSET Files
    /\ dead \in SUBSET Files /\ orphaned \in SUBSET Files
    /\ lost \in SUBSET Files /\ unread \in SUBSET Files
    /\ seen \in SUBSET (Types \X Files)
    /\ slow \in BOOLEAN /\ faults \in 0..MaxFaults

LEMMA MarkedIs ==
    ASSUME NEW S
    PROVE  \A f : f \in Marked(S) <=> \E s \in S : slot[s].pc \in {"marked", "read"} /\ f \in slot[s].files
PROOF BY DEF Marked

LEMMA MarkedType == ASSUME JobsInv, NEW S \in SUBSET Slots PROVE Marked(S) \in SUBSET Files
PROOF BY MarkedIs, SlotType DEF SlotStates

LEMMA FaultCounts == ASSUME Recorded, NEW kind, Fault(kind) PROVE faults' \in 0..MaxFaults
PROOF BY BoundAssumption DEF Recorded, Fault

LEMMA KeyType ==
    ASSUME JobsInv, NEW j \in jobs, NEW S \in SUBSET Files
    PROVE  {SeenKey(j, f) : f \in S} \in SUBSET (Types \X Files)
PROOF BY JobType, TypeOfAssumption DEF SeenKey, JobsInv

LEMMA RecordedNext == ASSUME JobsInv, Stored, Recorded, [Next]_vars PROVE Recorded'
PROOF
  <1>1. ASSUME NEW f \in Files, Upload(f) \/ UploadThrottled(f) \/ Enqueue(f) \/ RequestFails(f) PROVE Recorded'
    <2>1. UNCHANGED <<merged, skipped, dead, orphaned, lost, unread, seen>> /\ accepted' \in SUBSET Files
      BY <1>1 DEF Upload, UploadThrottled, Enqueue, RequestFails, Recorded
    <2>2. slow' \in BOOLEAN
      BY <1>1, FlagAssumption DEF Upload, UploadThrottled, Enqueue, RequestFails, Recorded
    <2>3. faults' = faults \/ \E kind : Fault(kind)
      BY <1>1 DEF Upload, UploadThrottled, Enqueue, RequestFails
    <2> QED
      BY <2>1, <2>2, <2>3, FaultCounts DEF Recorded
  <1>2. ASSUME NEW s \in Slots, SlotStep(s) PROVE Recorded'
    <2>1. UNCHANGED <<accepted, dead, slow>> /\ orphaned' \subseteq orphaned /\ lost' \subseteq lost
      BY <1>2 DEF SlotStep, SkipSeen, PickUp, Redirect, List, MarkSeen, ReadBase, MergeAndWrite, Complete
    <2>6. unread' \subseteq unread \cup top.covers
      BY <1>2 DEF SlotStep, SkipSeen, PickUp, Redirect, List, MarkSeen, ReadBase, MergeAndWrite, Complete
    <2>7. top.covers \in SUBSET Files
      BY DEF Stored, Rows
    <2>2. slot[s].files \in SUBSET Files
      BY SlotType DEF SlotStates
    <2>3. skipped' \in SUBSET Files
      <3>1. ASSUME NEW j \in jobs, SkipSeen(s, j) PROVE skipped' \in SUBSET Files
        BY <3>1, JobType DEF SkipSeen, Recorded, JobsInv
      <3>2. ASSUME \A j \in jobs : ~SkipSeen(s, j) PROVE skipped' = skipped
        BY <1>2, <3>2 DEF SlotStep, PickUp, Redirect, List, MarkSeen, ReadBase, MergeAndWrite, Complete
      <3> QED
        BY <3>1, <3>2 DEF Recorded
    <2>4. merged' \in SUBSET Files
      BY <1>2, <2>2
         DEF SlotStep, SkipSeen, PickUp, Redirect, List, MarkSeen, ReadBase, MergeAndWrite, Complete, Recorded
    <2>5. seen' \in SUBSET (Types \X Files) /\ faults' \in 0..MaxFaults
      <3>1. CASE MarkSeen(s)
        <4>1. PICK j : j = JobOf(s)
          OBVIOUS
        <4>2. j \in jobs
          BY <3>1, <4>1, JobOfSlot DEF MarkSeen, Busy
        <4>3. PICK S \in SUBSET slot[s].files : seen' = seen \cup {SeenKey(j, f) : f \in S}
          BY <3>1, <4>1 DEF MarkSeen
        <4>4. seen' \in SUBSET (Types \X Files)
          BY <2>2, <4>2, <4>3, KeyType DEF Recorded
        <4>5. faults' = faults \/ \E kind : Fault(kind)
          BY <3>1 DEF MarkSeen
        <4> QED
          BY <4>4, <4>5, FaultCounts DEF Recorded
      <3>2. CASE ~MarkSeen(s)
        BY <1>2, <3>2
           DEF SlotStep, SkipSeen, PickUp, Redirect, List, ReadBase, MergeAndWrite, Complete, Recorded
      <3> QED
        BY <3>1, <3>2
    <2> QED
      BY <2>1, <2>3, <2>4, <2>5, <2>6, <2>7 DEF Recorded
  <1>3. ASSUME NEW s \in Slots, NEW throttled \in BOOLEAN, Fail(s, throttled) PROVE Recorded'
    <2>1. PICK j : j = JobOf(s)
      OBVIOUS
    <2>2. j \in jobs /\ j.file \in Files
      BY <1>3, <2>1, JobOfSlot, JobType, FailPointsAssumption DEF Fail, Busy, JobsInv
    <2>3. dead' = dead \cup {j.file} \/ dead' = dead
      BY <1>3, <2>1 DEF Fail
    <2>4. /\ UNCHANGED <<accepted, merged, skipped, seen, lost, unread>>
          /\ orphaned' = orphaned \cup (Marked({s}) \ merged)
      BY <1>3 DEF Fail
    <2>5. slow' \in BOOLEAN
      BY <1>3 DEF Fail
    <2>6. faults' \in 0..MaxFaults
      BY <1>3, FaultCounts DEF Fail
    <2>7. Marked({s}) \in SUBSET Files
      BY MarkedType
    <2> QED
      BY <2>2, <2>3, <2>4, <2>5, <2>6, <2>7 DEF Recorded
  <1>4. ASSUME NEW p \in Procs, Crash(p) PROVE Recorded'
    <2> DEFINE mine == {s \in Slots : Home[s] = p /\ ~Busy(s, "idle")}
               stalled == {JobOf(s) : s \in mine}
               given == {j \in stalled : j.stalls >= MaxStalls}
    <2>1. dead' = dead \cup {j.file : j \in given}
      BY <1>4 DEF Crash
    <2>2. given \in SUBSET jobs
      BY JobOfSlot
    <2>3. /\ UNCHANGED <<accepted, merged, skipped, seen, slow, unread>>
          /\ orphaned' = orphaned \cup (Marked(mine) \ merged)
          /\ lost' \subseteq lost \cup Covers(buffer[p])
      BY <1>4 DEF Crash
    <2>4. faults' \in 0..MaxFaults
      BY <1>4, FaultCounts DEF Crash
    <2>5. Marked(mine) \in SUBSET Files
      <3>1. mine \in SUBSET Slots
        OBVIOUS
      <3> HIDE DEF mine
      <3> QED
        BY <3>1, MarkedType
    <2>7. Covers(buffer[p]) \in SUBSET Files
      BY DEF Covers, Stored, Rows
    <2> HIDE DEF given, mine
    <2>6. dead' \in SUBSET Files
      BY <2>1, <2>2, JobType DEF JobsInv, Recorded
    <2> QED
      BY <2>3, <2>4, <2>5, <2>6, <2>7 DEF Recorded
  <1>5. ASSUME (\E p \in Procs : Flush(p)) \/ ExpireSeen \/ ExpireSlow \/ UNCHANGED vars PROVE Recorded'
    <2>1. UNCHANGED <<accepted, merged, skipped, dead, orphaned, lost, unread, faults>>
      BY <1>5 DEF Flush, ExpireSeen, ExpireSlow, vars
    <2>2. seen' \in SUBSET (Types \X Files) /\ slow' \in BOOLEAN
      BY <1>5 DEF Flush, ExpireSeen, ExpireSlow, vars, Recorded
    <2> QED
      BY <2>1, <2>2 DEF Recorded
  <1> QED
    BY <1>1, <1>2, <1>3, <1>4, <1>5 DEF Next

-----------------------------------------------------------------------------
(* The inductive invariant of the pipeline, and the theorems.              *)

Pipeline == JobsInv /\ Placed /\ Stored /\ Recorded

LEMMA Invariant == Spec => []Pipeline
PROOF
  <1>1. Init => Pipeline
    <2> SUFFICES ASSUME Init PROVE Pipeline
      OBVIOUS
    <2>1. JobsInv
      BY InitJobs
    <2>2. Placed
      <3>1. bucket = <<>> /\ web = [f \in Files |-> "idle"] /\ jobs = {} /\ stored = {}
        BY DEF Init
      <3>2. InBucket = {} /\ bucket \in Seq(Files) /\ Len(bucket) = 0
        BY <3>1 DEF InBucket
      <3> QED
        BY <3>1, <3>2, FS_EmptySet, IdleType DEF Placed
    <2>3. Stored
      BY IdleType DEF Init, Stored
    <2>4. Recorded
      <3>1. slow \in BOOLEAN
        BY DEF Init
      <3>2. faults \in 0..MaxFaults
        BY BoundAssumption DEF Init
      <3> QED
        BY <3>1, <3>2 DEF Init, Recorded
    <2> QED
      BY <2>1, <2>2, <2>3, <2>4 DEF Pipeline
  <1>2. Pipeline /\ [Next]_vars => Pipeline'
    BY JobsNext, PlacedNext, StoredNext, RecordedNext DEF Pipeline, JobsOK
  <1> QED
    BY <1>1, <1>2, PTL DEF Spec

(* The variables of the pipeline keep their shapes, a slot that works on a *)
(* job has a live job of its own (BullMQ's lock), and no two jobs share an *)
(* id, however many files, slots, processes and faults there are.          *)
THEOREM Typing == Spec => []TypeOK
PROOF
  <1>1. Pipeline => TypeOK
    <2> SUFFICES ASSUME Pipeline PROVE TypeOK
      OBVIOUS
    <2>1. \A s, t \in Slots : slot[s].job = slot[t].job /\ s # t => slot[s] = Idle
      BY DEF Pipeline, JobsInv
    <2>2. {accepted, merged, skipped, dead, orphaned, lost, unread} \subseteq SUBSET Files
      BY DEF Pipeline, Recorded
    <2>3. \A i, j \in jobs : i.id = j.id => i = j
      BY DEF Pipeline, JobsInv, Distinct
    <2>4. jobs \subseteq Jobs /\ slot \in [Slots -> SlotStates]
          /\ \A s \in Slots : ~Busy(s, "idle") => \E j \in jobs : j.id = slot[s].job
      BY DEF Pipeline, JobsInv
    <2>5. bucket \in Seq(Files) /\ Cardinality(InBucket) = Len(bucket) /\ web \in [Files -> {"idle", "uploaded"}]
      BY DEF Pipeline, Placed
    <2>6. seen \subseteq Types \X Files /\ slow \in BOOLEAN /\ faults \in 0..MaxFaults
      BY DEF Pipeline, Recorded
    <2>7. /\ buffer \in [Procs -> SUBSET Rows] /\ clock \in Nat /\ stored \subseteq Rows
          /\ top \in stored \cup {NoRow} /\ meanwhile \in [Slots -> SUBSET Files]
      BY DEF Pipeline, Stored
    <2> QED
      BY <2>1, <2>2, <2>3, <2>4, <2>5, <2>6, <2>7 DEF TypeOK
  <1> QED
    BY <1>1, Invariant, PTL

-----------------------------------------------------------------------------
(* What is merged, being merged, or stopped on that way, stays one of them. *)

Covered == merged \cup MergingNow \cup orphaned

(* The files a slot has marked as seen and not merged yet.                 *)
MarkedBy(s) == IF slot[s].pc \in {"marked", "read"} THEN slot[s].files ELSE {}

LEMMA CoveredIs ==
    \A f : f \in Covered <=> f \in merged \cup orphaned \/ \E s \in Slots : f \in MarkedBy(s)
PROOF BY MarkedIs DEF Covered, MergingNow, MarkedBy

LEMMA CoveredGrows ==
    ASSUME merged \subseteq merged', orphaned \subseteq orphaned' \cup merged',
           \A s \in Slots : MarkedBy(s) \subseteq MarkedBy(s)' \cup merged' \cup orphaned'
    PROVE  Covered \subseteq Covered'
PROOF
  <1>1. \A f : f \in Covered <=> f \in merged \cup orphaned \/ \E s \in Slots : f \in MarkedBy(s)
    BY CoveredIs
  <1>2. (\A f : f \in Covered <=> f \in merged \cup orphaned \/ \E s \in Slots : f \in MarkedBy(s))'
    BY CoveredIs, PTL
  <1> QED
    BY <1>1, <1>2

LEMMA CoveredNext == ASSUME JobsInv, [Next]_vars PROVE Covered \subseteq Covered'
PROOF
  <1>1. ASSUME UNCHANGED <<slot, merged, orphaned>> PROVE Covered \subseteq Covered'
    BY <1>1, CoveredGrows DEF MarkedBy
  <1>2. ASSUME NEW f \in Files, Upload(f) \/ UploadThrottled(f) \/ Enqueue(f) \/ RequestFails(f)
        PROVE  UNCHANGED <<slot, merged, orphaned>>
    BY <1>2 DEF Upload, UploadThrottled, Enqueue, RequestFails
  <1>3. ASSUME NEW s \in Slots, SlotStep(s) PROVE Covered \subseteq Covered'
    <2>1. CASE \E j \in jobs : SkipSeen(s, j)
      BY <1>1, <2>1 DEF SkipSeen
    <2>2. ASSUME NEW state, slot' = [slot EXCEPT ![s] = state], orphaned \subseteq orphaned' \cup merged',
                 merged \subseteq merged', MarkedBy(s) \subseteq MarkedBy(s)' \cup merged'
          PROVE  Covered \subseteq Covered'
      <3>1. \A t \in Slots \ {s} : slot'[t] = slot[t]
        BY <2>2 DEF JobsInv
      <3>2. \A t \in Slots \ {s} : MarkedBy(t) = MarkedBy(t)'
        BY <3>1 DEF MarkedBy
      <3> QED
        BY <2>2, <3>2, CoveredGrows
    <2>3. CASE (\E j \in jobs : PickUp(s, j)) \/ Redirect(s) \/ List(s) \/ Complete(s)
      <3>1. orphaned' = orphaned /\ merged' = merged /\ \E state : slot' = [slot EXCEPT ![s] = state]
        BY <2>3 DEF PickUp, Redirect, List, Complete, Put
      <3>2. MarkedBy(s) = {}
        BY <2>3 DEF PickUp, Redirect, List, Complete, Busy, MarkedBy
      <3> QED
        BY <2>2, <3>1, <3>2
    <2>4. CASE MarkSeen(s) \/ ReadBase(s) \/ MergeAndWrite(s)
      <3>1. slot[s] \in SlotStates
        BY SlotType
      <3>2. PICK state : /\ slot' = [slot EXCEPT ![s] = state] /\ state.files = slot[s].files
                         /\ \/ state.pc \in {"marked", "read"}
                            \/ merged' = merged \cup slot[s].files
        <4>1. CASE MarkSeen(s)
          <5> DEFINE state == [slot[s] EXCEPT !.pc = "marked"]
          <5>1. slot' = [slot EXCEPT ![s] = state]
            BY <4>1 DEF MarkSeen, Put
          <5>2. state.files = slot[s].files /\ state.pc = "marked"
            BY <3>1 DEF SlotStates
          <5> QED
            BY <5>1, <5>2
        <4>2. CASE ReadBase(s)
          <5>0. PICK base : slot' = [slot EXCEPT ![s] = [slot[s] EXCEPT !.base = base, !.pc = "read"]]
            BY <4>2 DEF ReadBase
          <5> DEFINE state == [slot[s] EXCEPT !.base = base, !.pc = "read"]
          <5>1. slot' = [slot EXCEPT ![s] = state]
            BY <5>0
          <5>2. state.files = slot[s].files /\ state.pc = "read"
            BY <3>1 DEF SlotStates
          <5> QED
            BY <5>1, <5>2
        <4>3. CASE MergeAndWrite(s)
          <5> DEFINE state == [slot[s] EXCEPT !.pc = "wrote"]
          <5>1. slot' = [slot EXCEPT ![s] = state] /\ merged' = merged \cup slot[s].files
            BY <4>3 DEF MergeAndWrite, Put
          <5>2. state.files = slot[s].files
            BY <3>1 DEF SlotStates
          <5> QED
            BY <5>1, <5>2
        <4> QED
          BY <2>4, <4>1, <4>2, <4>3
      <3>3. orphaned \subseteq orphaned' \cup merged' /\ merged \subseteq merged'
        BY <2>4 DEF MarkSeen, ReadBase, MergeAndWrite
      <3>4. slot'[s] = state
        BY <3>2 DEF JobsInv
      <3>5. MarkedBy(s) \subseteq MarkedBy(s)' \cup merged'
        BY <3>2, <3>4 DEF MarkedBy
      <3> QED
        BY <2>2, <3>2, <3>3, <3>5
    <2> QED
      BY <1>3, <2>1, <2>3, <2>4 DEF SlotStep
  <1>4. ASSUME NEW S \in SUBSET Slots, merged' = merged, orphaned' = orphaned \cup (Marked(S) \ merged),
               \A t \in Slots \ S : slot'[t] = slot[t]
        PROVE  Covered \subseteq Covered'
    <2>1. \A t \in S : MarkedBy(t) \subseteq orphaned' \cup merged'
      BY <1>4, MarkedIs DEF MarkedBy
    <2>2. \A t \in Slots \ S : MarkedBy(t) = MarkedBy(t)'
      BY <1>4 DEF MarkedBy
    <2> QED
      BY <1>4, <2>1, <2>2, CoveredGrows
  <1>5. ASSUME NEW s \in Slots, NEW throttled \in BOOLEAN, Fail(s, throttled) PROVE Covered \subseteq Covered'
    <2>1. /\ merged' = merged /\ orphaned' = orphaned \cup (Marked({s}) \ merged)
          /\ \A t \in Slots \ {s} : slot'[t] = slot[t]
      BY <1>5 DEF Fail, JobsInv
    <2> QED
      BY <1>4, <2>1
  <1>6. ASSUME NEW p \in Procs, Crash(p) PROVE Covered \subseteq Covered'
    <2> DEFINE mine == {s \in Slots : Home[s] = p /\ ~Busy(s, "idle")}
    <2>1. /\ merged' = merged /\ orphaned' = orphaned \cup (Marked(mine) \ merged)
          /\ slot' = [s \in Slots |-> IF s \in mine THEN Idle ELSE slot[s]]
      BY <1>6 DEF Crash
    <2>2. mine \in SUBSET Slots
      OBVIOUS
    <2> HIDE DEF mine
    <2>3. \A t \in Slots \ mine : slot'[t] = slot[t]
      BY <2>1
    <2> QED
      BY <1>4, <2>1, <2>2, <2>3
  <1>7. ASSUME (\E p \in Procs : Flush(p)) \/ ExpireSeen \/ ExpireSlow \/ UNCHANGED vars
        PROVE  UNCHANGED <<slot, merged, orphaned>>
    BY <1>7 DEF Flush, ExpireSeen, ExpireSlow, vars
  <1> QED
    BY <1>1, <1>2, <1>3, <1>5, <1>6, <1>7 DEF Next

SeenInv == (\A k \in seen : k[2] \in Covered) /\ skipped \subseteq Covered

(* The keys are set by the step that counts the slot's files as marked.    *)
LEMMA SeenNext == ASSUME JobsInv, SeenInv, [Next]_vars PROVE SeenInv'
PROOF
  <1>0. (\A f : f \in Covered <=> f \in merged \cup orphaned \/ \E s \in Slots : f \in MarkedBy(s))'
    BY CoveredIs, PTL
  <1>1. Covered \subseteq Covered'
    BY CoveredNext
  <1>2. ASSUME NEW s \in Slots, NEW j \in jobs, SkipSeen(s, j) PROVE SeenInv'
    <2>1. SeenKey(j, j.file) \in seen /\ skipped' = skipped \cup {j.file} /\ seen' = seen
      BY <1>2 DEF SkipSeen
    <2>2. j.file \in Covered
      BY <2>1 DEF SeenInv, SeenKey
    <2> QED
      BY <1>1, <2>1, <2>2 DEF SeenInv
  <1>3. ASSUME NEW s \in Slots, MarkSeen(s) PROVE SeenInv'
    <2>1. PICK j : j = JobOf(s)
      OBVIOUS
    <2>2. PICK S \in SUBSET slot[s].files : seen' = seen \cup {SeenKey(j, f) : f \in S}
      BY <1>3, <2>1 DEF MarkSeen
    <2>3. slot[s] \in SlotStates /\ skipped' = skipped
      BY <1>3, SlotType DEF MarkSeen
    <2>4. slot'[s] = [slot[s] EXCEPT !.pc = "marked"]
      BY <1>3 DEF MarkSeen, Put, JobsInv
    <2>5. slot'[s].pc = "marked" /\ slot'[s].files = slot[s].files
      BY <2>3, <2>4 DEF SlotStates
    <2>6. MarkedBy(s)' = slot[s].files
      BY <2>5 DEF MarkedBy
    <2>8. slot[s].files \subseteq Covered'
      BY <1>0, <2>6
    <2>9. \A k \in seen' : k[2] \in Covered'
      <3>1. \A f \in S : SeenKey(j, f)[2] = f
        BY DEF SeenKey
      <3> QED
        BY <1>1, <2>2, <2>8, <3>1 DEF SeenInv
    <2> QED
      BY <1>1, <2>3, <2>9 DEF SeenInv
  <1>4. ASSUME seen' \subseteq seen, skipped' = skipped PROVE SeenInv'
    BY <1>1, <1>4 DEF SeenInv
  <1>5. ASSUME NEW s \in Slots, SlotStep(s), ~MarkSeen(s), \A j \in jobs : ~SkipSeen(s, j)
        PROVE  UNCHANGED <<seen, skipped>>
    BY <1>5 DEF SlotStep, PickUp, Redirect, List, ReadBase, MergeAndWrite, Complete
  <1>6. ASSUME \/ \E f \in Files : Upload(f) \/ UploadThrottled(f) \/ Enqueue(f) \/ RequestFails(f)
               \/ \E s \in Slots, throttled \in BOOLEAN : Fail(s, throttled)
               \/ \E p \in Procs : Flush(p) \/ Crash(p)
               \/ ExpireSeen \/ ExpireSlow \/ UNCHANGED vars
        PROVE  seen' \subseteq seen /\ skipped' = skipped
    BY <1>6 DEF Upload, UploadThrottled, Enqueue, RequestFails, Fail, Flush, Crash, ExpireSeen, ExpireSlow, vars
  <1> QED
    BY <1>2, <1>3, <1>4, <1>5, <1>6 DEF Next

(* A job ends at the seen check (recentlyProcessedEvents) only if a job    *)
(* has merged its file, is on its way to, or was stopped on that way by a  *)
(* failure: the keys are set before the merge, and nothing unmarks them.   *)
THEOREM SkippedIsCoveredHolds == Spec => []SkippedIsCovered
PROOF
  <1>1. Init => SeenInv
    BY DEF Init, SeenInv
  <1>2. Pipeline /\ SeenInv /\ [Next]_vars => SeenInv'
    BY SeenNext DEF Pipeline
  <1>3. SeenInv => SkippedIsCovered
    BY DEF SeenInv, SkippedIsCovered, Covered
  <1> QED
    BY <1>1, <1>2, <1>3, Invariant, PTL DEF Spec

-----------------------------------------------------------------------------
(* How a slot comes to have files that it is to merge.                     *)
Underway == {"listed", "marked", "read"}

LEMMA MergingNext ==
    ASSUME JobsInv, [Next]_vars, NEW s \in Slots, slot'[s].pc \in Underway
    PROVE  slot'[s] = slot[s] \/ List(s) \/ MarkSeen(s) \/ ReadBase(s)
PROOF
  <1>1. ASSUME NEW t \in Slots, NEW state, slot' = [slot EXCEPT ![t] = state], state.pc \notin Underway
        PROVE  slot'[s] = slot[s]
    BY <1>1 DEF JobsInv
  <1>2. Idle.pc \notin Underway
    BY IdleType DEF Underway
  <1>3. ASSUME NEW t \in Slots, SlotStep(t)
        PROVE  slot'[s] = slot[s] \/ List(s) \/ MarkSeen(s) \/ ReadBase(s)
    <2>1. CASE List(t) \/ MarkSeen(t) \/ ReadBase(t)
      <3>1. CASE s = t
        BY <2>1, <3>1
      <3>2. CASE s # t
        BY <2>1, <3>2 DEF List, MarkSeen, ReadBase, Put, JobsInv
      <3> QED
        BY <3>1, <3>2
    <2>2. CASE ~(List(t) \/ MarkSeen(t) \/ ReadBase(t))
      <3>1. PICK state : state.pc \notin Underway /\ (UNCHANGED slot \/ slot' = [slot EXCEPT ![t] = state])
        <4>1. slot[t] \in SlotStates
          BY SlotType
        <4>2. CASE \E j \in jobs : SkipSeen(t, j)
          BY <1>2, <4>2 DEF SkipSeen
        <4>3. CASE \E j \in jobs : PickUp(t, j)
          <5>1. PICK j \in jobs : PickUp(t, j)
            BY <4>3
          <5>2. PICK place \in {"redirecting", "picked"} :
                    slot' = [slot EXCEPT ![t] = [Idle EXCEPT !.job = j.id, !.pc = place]]
            BY <5>1 DEF PickUp
          <5>3. [Idle EXCEPT !.job = j.id, !.pc = place].pc = place
            BY DEF Idle
          <5> QED
            BY <5>2, <5>3 DEF Underway
        <4>4. CASE Redirect(t) \/ MergeAndWrite(t)
          <5>1. PICK place \in {"redirected", "wrote"} : Put(t, place)
            BY <4>4 DEF Redirect, MergeAndWrite
          <5>2. [slot[t] EXCEPT !.pc = place].pc = place
            BY <4>1 DEF SlotStates
          <5> QED
            BY <5>1, <5>2 DEF Put, Underway
        <4>5. CASE Complete(t)
          BY <1>2, <4>5 DEF Complete
        <4> QED
          BY <1>3, <2>2, <4>2, <4>3, <4>4, <4>5 DEF SlotStep
      <3> QED
        BY <1>1, <3>1
    <2> QED
      BY <2>1, <2>2
  <1>4. ASSUME \E t \in Slots, throttled \in BOOLEAN : Fail(t, throttled) PROVE slot'[s] = slot[s]
    BY <1>1, <1>2, <1>4 DEF Fail
  <1>5. ASSUME NEW p \in Procs, Crash(p) PROVE slot'[s] = slot[s]
    BY <1>2, <1>5 DEF Crash
  <1>6. ASSUME \/ \E f \in Files : Upload(f) \/ UploadThrottled(f) \/ Enqueue(f) \/ RequestFails(f)
               \/ \E p \in Procs : Flush(p)
               \/ ExpireSeen \/ ExpireSlow \/ UNCHANGED vars
        PROVE  slot' = slot
    BY <1>6 DEF Upload, UploadThrottled, Enqueue, RequestFails, Flush, ExpireSeen, ExpireSlow, vars
  <1> QED
    BY <1>3, <1>4, <1>5, <1>6 DEF Next

(* What those steps do to it.                                              *)
LEMMA MergingSteps ==
    ASSUME JobsInv, NEW s \in Slots
    PROVE  /\ List(s) => /\ slot'[s].pc \in {"listed", "marked"}
                         /\ ~SkipS3List => slot'[s].files = InBucket
                         /\ \E i \in DOMAIN bucket : slot'[s].first = bucket[i]
           /\ MarkSeen(s) => /\ slot[s].pc = "listed" /\ slot'[s].pc = "marked"
                             /\ slot'[s].files = slot[s].files /\ slot'[s].first = slot[s].first
           /\ ReadBase(s) => /\ slot[s].pc = "marked" /\ slot'[s].pc = "read"
                             /\ slot'[s].files = slot[s].files /\ slot'[s].first = slot[s].first
                             /\ slot'[s].base \in IF ReadSkipped THEN {NoRow} ELSE Found(s)
                             /\ unread' = unread \cup (top.covers \ slot'[s].base.covers)
           /\ MergeAndWrite(s) => /\ slot[s].pc = "read" /\ slot'[s].pc = "wrote"
                                  /\ \A t \in Slots \ {s} : slot'[t] = slot[t]
PROOF
  <1>1. slot[s] \in SlotStates /\ slot \in [Slots -> SlotStates]
    BY DEF JobsInv
  <1>2. ASSUME List(s)
        PROVE  /\ slot'[s].pc \in {"listed", "marked"} /\ (~SkipS3List => slot'[s].files = InBucket)
               /\ \E i \in DOMAIN bucket : slot'[s].first = bucket[i]
    <2> DEFINE files == IF SkipS3List THEN {JobOf(s).file} ELSE InBucket
               place == IF SeenEnabled THEN "listed" ELSE "marked"
    <2>0. PICK i \in DOMAIN bucket :
             slot' = [slot EXCEPT ![s] = [slot[s] EXCEPT !.files = files, !.first = bucket[i], !.pc = place]]
      BY <1>2, ListSets
    <2>1. place \in {"listed", "marked"} /\ (~SkipS3List => files = InBucket)
      OBVIOUS
    <2> HIDE DEF files, place
    <2>2. slot'[s] = [slot[s] EXCEPT !.files = files, !.first = bucket[i], !.pc = place]
      BY <1>1, <2>0
    <2>3. slot'[s].pc = place /\ slot'[s].files = files /\ slot'[s].first = bucket[i]
      BY <1>1, <2>2 DEF SlotStates
    <2> QED
      BY <2>1, <2>3
  <1>3. ASSUME MarkSeen(s)
        PROVE  /\ slot[s].pc = "listed" /\ slot'[s].pc = "marked"
               /\ slot'[s].files = slot[s].files /\ slot'[s].first = slot[s].first
    <2>1. slot[s].pc = "listed" /\ slot'[s] = [slot[s] EXCEPT !.pc = "marked"]
      BY <1>1, <1>3 DEF MarkSeen, Busy, Put
    <2> QED
      BY <1>1, <2>1 DEF SlotStates
  <1>4. ASSUME ReadBase(s)
        PROVE  /\ slot[s].pc = "marked" /\ slot'[s].pc = "read" /\ slot'[s].files = slot[s].files
               /\ slot'[s].first = slot[s].first
               /\ slot'[s].base \in IF ReadSkipped THEN {NoRow} ELSE Found(s)
               /\ unread' = unread \cup (top.covers \ slot'[s].base.covers)
    <2>1. PICK base \in IF ReadSkipped THEN {NoRow} ELSE Found(s) :
              /\ slot' = [slot EXCEPT ![s] = [slot[s] EXCEPT !.base = base, !.pc = "read"]]
              /\ unread' = unread \cup (top.covers \ base.covers)
      BY <1>4 DEF ReadBase
    <2>2. slot[s].pc = "marked" /\ slot'[s] = [slot[s] EXCEPT !.base = base, !.pc = "read"]
      BY <1>1, <1>4, <2>1 DEF ReadBase, Busy
    <2>3. /\ slot'[s].pc = "read" /\ slot'[s].files = slot[s].files /\ slot'[s].first = slot[s].first
          /\ slot'[s].base = base
      BY <1>1, <2>2 DEF SlotStates
    <2> QED
      BY <2>1, <2>2, <2>3
  <1>5. ASSUME MergeAndWrite(s)
        PROVE  /\ slot[s].pc = "read" /\ slot'[s].pc = "wrote"
               /\ \A t \in Slots \ {s} : slot'[t] = slot[t]
    <2>1. /\ slot[s].pc = "read" /\ slot'[s] = [slot[s] EXCEPT !.pc = "wrote"]
          /\ \A t \in Slots \ {s} : slot'[t] = slot[t]
      BY <1>1, <1>5 DEF MergeAndWrite, Busy, Put
    <2> QED
      BY <1>1, <2>1 DEF SlotStates
  <1> QED
    BY <1>2, <1>3, <1>4, <1>5

-----------------------------------------------------------------------------
(* The rows there are, in ClickHouse and in the writers.                   *)

AllRows == stored \cup Held

(* Only a merge makes a row, only a crash takes one away.                  *)
MakesRow(s) ==
    /\ MergeAndWrite(s) /\ slot[s].pc = "read" /\ Held' = Held \cup {MergedRow(s)}
    /\ UNCHANGED <<stored, top, unread>>

StoresRow(r) ==
    /\ r \in Held /\ Held' \subseteq Held /\ Held \subseteq Held' \cup {r} /\ stored' = stored \cup {r}
    /\ top' = IF r.ts > top.ts THEN r ELSE top
    /\ UNCHANGED <<merged, clock, lost, unread>>

LosesRows ==
    /\ Held' \subseteq Held /\ lost \subseteq lost' /\ Covers(AllRows) \subseteq Covers(AllRows') \cup lost'
    /\ UNCHANGED <<stored, top, merged, clock, unread>>

LeavesRows == UNCHANGED <<buffer, stored, top, merged, clock, lost>> /\ Held' = Held

LEMMA RowsNext ==
    ASSUME JobsInv, Stored, [Next]_vars
    PROVE  \/ \E s \in Slots : MakesRow(s)
           \/ \E r \in AllRows : StoresRow(r)
           \/ LosesRows
           \/ LeavesRows /\ (unread' = unread \/ \E s \in Slots : ReadBase(s))
PROOF
  <1>1. ASSUME NEW s \in Slots, MergeAndWrite(s) PROVE MakesRow(s)
    <2>1. PICK r : r = MergedRow(s)
      OBVIOUS
    <2>2. buffer' = [buffer EXCEPT ![Home[s]] = @ \cup {r}] /\ Home[s] \in Procs
      BY <1>1, <2>1, HomeAssumption DEF MergeAndWrite
    <2>3. /\ buffer'[Home[s]] = buffer[Home[s]] \cup {r}
          /\ \A p \in Procs \ {Home[s]} : buffer'[p] = buffer[p]
      BY <2>2 DEF Stored
    <2>4. Held' = Held \cup {r}
      BY <2>2, <2>3 DEF Held
    <2>5. slot[s].pc = "read" /\ UNCHANGED <<stored, top, unread>>
      BY <1>1 DEF MergeAndWrite, Busy
    <2> QED
      BY <1>1, <2>1, <2>4, <2>5 DEF MakesRow
  <1>2. ASSUME NEW p \in Procs, Flush(p) PROVE \E r \in AllRows : StoresRow(r)
    <2>1. PICK r \in buffer[p] : /\ buffer' = [buffer EXCEPT ![p] = @ \ {r}] /\ stored' = stored \cup {r}
                                 /\ top' = IF r.ts > top.ts THEN r ELSE top
                                 /\ UNCHANGED <<merged, clock, lost, unread>>
      BY <1>2 DEF Flush
    <2>2. buffer'[p] = buffer[p] \ {r} /\ \A q \in Procs \ {p} : buffer'[q] = buffer[q]
      BY <2>1 DEF Stored
    <2>3. r \in Held /\ Held' \subseteq Held /\ Held \subseteq Held' \cup {r}
      BY <2>2 DEF Held
    <2> QED
      BY <2>1, <2>3 DEF StoresRow, AllRows
  <1>3. ASSUME NEW p \in Procs, Crash(p) PROVE LosesRows
    <2>1. /\ buffer' = [buffer EXCEPT ![p] = {}] /\ UNCHANGED <<stored, top, merged, clock, unread>>
          /\ lost' = lost \cup (Covers(buffer[p]) \ Covers(stored \cup UNION {buffer[q] : q \in Procs \ {p}}))
      BY <1>3 DEF Crash
    <2>2. buffer'[p] = {} /\ \A q \in Procs \ {p} : buffer'[q] = buffer[q]
      BY <2>1 DEF Stored
    <2>3. Held' = UNION {buffer[q] : q \in Procs \ {p}}
      BY <2>2 DEF Held
    <2>4. Held = Held' \cup buffer[p]
      BY <2>3 DEF Held
    <2>5. AllRows' = stored \cup Held' /\ AllRows = AllRows' \cup buffer[p]
      BY <2>1, <2>4 DEF AllRows
    <2>6. lost' = lost \cup (Covers(buffer[p]) \ Covers(AllRows'))
      BY <2>1, <2>3, <2>5
    <2>7. Covers(AllRows) = Covers(AllRows') \cup Covers(buffer[p])
      BY <2>5 DEF Covers
    <2> QED
      BY <2>1, <2>4, <2>6, <2>7 DEF LosesRows
  <1>4. ASSUME UNCHANGED <<buffer, stored, top, merged, clock, lost>> PROVE LeavesRows
    BY <1>4 DEF LeavesRows, Held
  <1>5. ASSUME NEW s \in Slots, SlotStep(s), ~MergeAndWrite(s)
        PROVE  LeavesRows /\ (unread' = unread \/ ReadBase(s))
    BY <1>4, <1>5 DEF SlotStep, SkipSeen, PickUp, Redirect, List, MarkSeen, ReadBase, Complete
  <1>6. ASSUME \/ \E f \in Files : Upload(f) \/ UploadThrottled(f) \/ Enqueue(f) \/ RequestFails(f)
               \/ \E s \in Slots, throttled \in BOOLEAN : Fail(s, throttled)
               \/ ExpireSeen \/ ExpireSlow \/ UNCHANGED vars
        PROVE  LeavesRows /\ unread' = unread
    BY <1>4, <1>6 DEF Upload, UploadThrottled, Enqueue, RequestFails, Fail, ExpireSeen, ExpireSlow, vars
  <1> QED
    BY <1>1, <1>2, <1>3, <1>5, <1>6 DEF Next

(* What was merged is in a row, or its rows were lost with a process.      *)
Traced == merged \subseteq Covers(AllRows) \cup lost

LEMMA TracedNext == ASSUME JobsInv, Stored, Traced, [Next]_vars PROVE Traced'
PROOF
  <1>1. ASSUME NEW s \in Slots, MakesRow(s) PROVE Traced'
    <2>1. PICK r : r = MergedRow(s)
      OBVIOUS
    <2>2. AllRows' = AllRows \cup {r} /\ merged' = merged \cup slot[s].files /\ lost' = lost \ r.covers
      BY <1>1, <2>1 DEF MakesRow, MergeAndWrite, AllRows
    <2>3. slot[s].files \subseteq r.covers
      BY <1>1, <2>1, NewRow DEF MakesRow
    <2>4. Covers(AllRows') = Covers(AllRows) \cup r.covers
      BY <2>2 DEF Covers
    <2> QED
      BY <2>2, <2>3, <2>4 DEF Traced
  <1>2. ASSUME NEW r \in AllRows, StoresRow(r) PROVE Traced'
    <2>1. AllRows' = AllRows /\ UNCHANGED <<merged, lost>>
      BY <1>2 DEF StoresRow, AllRows
    <2> QED
      BY <2>1 DEF Traced
  <1>3. ASSUME LosesRows PROVE Traced'
    BY <1>3 DEF LosesRows, Traced
  <1>4. ASSUME LeavesRows PROVE Traced'
    BY <1>4 DEF LeavesRows, Traced, AllRows
  <1> QED
    BY <1>1, <1>2, <1>3, <1>4, RowsNext

(* What the API accepted (processEventBatch answered with success) never   *)
(* evaporates, however many retries, redirections and crashes there are: a *)
(* job of it is alive, a row merged from it is stored or held, its end is  *)
(* on record, or a process died with its only rows.                        *)
THEOREM AcceptedIsKeptHolds == Spec => []AcceptedIsKept
PROOF
  <1> DEFINE Kept == \A f \in accepted : Alive(f) \/ Past(f)
  <1>1. Init => Kept
    BY DEF Init
  <1>2. Pipeline /\ Kept /\ [Next]_vars => Kept'
    <2> SUFFICES ASSUME Pipeline, Kept, [Next]_vars, NEW f \in accepted' PROVE Alive(f)' \/ Past(f)'
      OBVIOUS
    <2>1. Forward
      BY JobsNext DEF Pipeline, JobsOK
    <2>2. CASE f \in accepted
      <3>1. f \in Files
        BY <2>2 DEF Pipeline, Recorded
      <3> QED
        BY <2>1, <2>2, <3>1 DEF Forward
    <2>3. CASE f \notin accepted
      <3>1. f \in Files /\ Enqueue(f)
        <4>1. ASSUME NEW s \in Slots, SlotStep(s) PROVE accepted' = accepted
          BY <4>1 DEF SlotStep, SkipSeen, PickUp, Redirect, List, MarkSeen, ReadBase, MergeAndWrite, Complete
        <4>2. ASSUME NEW g \in Files, Upload(g) \/ UploadThrottled(g) \/ RequestFails(g) PROVE accepted' = accepted
          BY <4>2 DEF Upload, UploadThrottled, RequestFails
        <4>3. ASSUME \/ \E s \in Slots, throttled \in BOOLEAN : Fail(s, throttled)
                     \/ \E p \in Procs : Flush(p) \/ Crash(p)
                     \/ ExpireSeen \/ ExpireSlow \/ UNCHANGED vars
              PROVE  accepted' = accepted
          BY <4>3 DEF Fail, Flush, Crash, ExpireSeen, ExpireSlow, vars
        <4>4. ASSUME NEW g \in Files, Enqueue(g) PROVE f = g
          BY <2>3, <4>4 DEF Enqueue
        <4> QED
          BY <2>3, <4>1, <4>2, <4>3, <4>4 DEF Next
      <3> QED
        BY <3>1, EnqueueJobs DEF Pipeline
    <2> QED
      BY <2>2, <2>3
  <1>3. Kept /\ Traced => AcceptedIsKept
    BY DEF AcceptedIsKept, InHand, Traced, AllRows, Alive, Past
  <1>4. Init => Traced
    BY DEF Init, Traced
  <1>5. Pipeline /\ Traced /\ [Next]_vars => Traced'
    BY TracedNext DEF Pipeline
  <1> HIDE DEF Kept
  <1> QED
    BY <1>1, <1>2, <1>3, <1>4, <1>5, Invariant, PTL DEF Spec

-----------------------------------------------------------------------------
(* What is on display stays there: a job's read of the row covers it, or   *)
(* the read is on record; every row still held was made from such a read.  *)

Shown(f) ==
    /\ f \in top.covers
    /\ \A s \in Slots : slot[s].pc = "read" => f \in slot[s].base.covers
    /\ \A r \in Held : f \in r.covers

LEMMA ShownNext ==
    ASSUME Pipeline, [Next]_vars, NEW f \in Files, f \in unread \/ Shown(f)
    PROVE  f \in unread' \/ Shown(f)'
PROOF
  <1>1. JobsInv /\ Stored
    BY DEF Pipeline
  <1>2. unread \subseteq unread'
    BY <1>1, RowsNext, MergingSteps DEF MakesRow, StoresRow, LosesRows
  <1>3. SUFFICES ASSUME f \notin unread' PROVE Shown(f)'
    OBVIOUS
  <1>4. Shown(f)
    BY <1>2, <1>3
  <1>5. f \in top'.covers
    BY <1>1, <1>4, RowsNext DEF Shown, MakesRow, StoresRow, LosesRows, LeavesRows
  <1>6. ASSUME NEW s \in Slots, slot'[s].pc = "read" PROVE f \in slot'[s].base.covers
    <2>1. CASE slot'[s] = slot[s]
      BY <1>4, <1>6, <2>1 DEF Shown
    <2>2. CASE ReadBase(s)
      BY <1>1, <1>3, <1>4, <2>2, MergingSteps DEF Shown
    <2>3. ~List(s) /\ ~MarkSeen(s)
      BY <1>1, <1>6, MergingSteps
    <2> QED
      BY <1>1, <1>6, <2>1, <2>2, <2>3, MergingNext DEF Underway
  <1>7. ASSUME NEW r \in Held' PROVE f \in r.covers
    <2>1. ASSUME NEW s \in Slots, MakesRow(s) PROVE f \in r.covers
      <3>1. f \in MergedRow(s).covers
        BY <1>1, <1>4, <2>1, NewRow DEF MakesRow, Shown
      <3> QED
        BY <1>4, <1>7, <2>1, <3>1 DEF MakesRow, Shown
    <2>2. ASSUME Held' \subseteq Held PROVE f \in r.covers
      BY <1>4, <1>7, <2>2 DEF Shown
    <2> QED
      BY <1>1, <2>1, <2>2, RowsNext DEF StoresRow, LosesRows, LeavesRows
  <1> QED
    BY <1>5, <1>6, <1>7 DEF Shown

(* An event on display while nothing is being merged is not taken off      *)
(* again, however many workers race on the entity and whichever rows their *)
(* writers lose, unless some job's read of the row (getClickhouseRecord)   *)
(* left it out, by its filters or by ClickhouseReadSkipCache.              *)
THEOREM SettledStaysHolds == Spec => SettledStays
PROOF
  <1>1. ASSUME NEW f \in Files
        PROVE  Spec => [](AtRest /\ f \in top.covers => [](f \in top.covers \cup unread))
    <2>1. AtRest /\ f \in top.covers => Shown(f)
      BY DEF AtRest, Shown, Held
    <2>2. Pipeline /\ (f \in unread \/ Shown(f)) /\ [Next]_vars => (f \in unread \/ Shown(f))'
      BY ShownNext
    <2>3. f \in unread \/ Shown(f) => f \in top.covers \cup unread
      BY DEF Shown
    <2>4. Shown(f) => f \in unread \/ Shown(f)
      OBVIOUS
    <2> QED
      BY <2>1, <2>2, <2>3, <2>4, Invariant, PTL DEF Spec
  <1> QED
    BY <1>1 DEF SettledStays

-----------------------------------------------------------------------------
(* The row on display is the newest of those stored, and no two are of one *)
(* merge.                                                                  *)

Newest ==
    /\ \A r \in AllRows : r.ts \in 1..clock
    /\ \A q, r \in AllRows : q.ts = r.ts => q = r
    /\ \A r \in stored : r.ts <= top.ts

LEMMA NewestNext == ASSUME Pipeline, Newest, [Next]_vars PROVE Newest'
PROOF
  <1>0. JobsInv /\ Stored /\ clock \in Nat
    BY DEF Pipeline, Stored
  <1>1. ASSUME NEW s \in Slots, MakesRow(s) PROVE Newest'
    <2>1. PICK new : new = MergedRow(s)
      OBVIOUS
    <2>2. new.ts = clock + 1 /\ clock' = clock + 1
      BY <1>0, <1>1, <2>1, NewRow DEF MakesRow, MergeAndWrite
    <2>3. AllRows' = AllRows \cup {new} /\ UNCHANGED <<stored, top>>
      BY <1>1, <2>1 DEF MakesRow, AllRows
    <2>4. \A r \in AllRows : r.ts \in 1..clock' /\ r.ts # new.ts
      BY <1>0, <2>2 DEF Newest
    <2>5. new.ts \in 1..clock'
      BY <1>0, <2>2
    <2> QED
      BY <2>3, <2>4, <2>5 DEF Newest
  <1>2. ASSUME NEW r \in AllRows, StoresRow(r) PROVE Newest'
    <2>1. AllRows' = AllRows /\ clock' = clock /\ stored' = stored \cup {r}
      BY <1>2 DEF StoresRow, AllRows
    <2>2. top' = (IF r.ts > top.ts THEN r ELSE top) /\ r.ts \in Nat /\ top.ts \in Nat
      BY <1>0, <1>2 DEF StoresRow, Newest, Stored, Rows
    <2>3. \A q \in stored : q.ts \in Nat /\ q.ts <= top.ts
      BY <1>0 DEF Newest, Stored, Rows
    <2>4. top.ts <= top'.ts /\ r.ts <= top'.ts /\ top'.ts \in Nat
      BY <2>2
    <2>5. \A q \in stored' : q.ts <= top'.ts
      BY <2>1, <2>2, <2>3, <2>4
    <2> QED
      BY <2>1, <2>5 DEF Newest
  <1>3. ASSUME LosesRows PROVE Newest'
    BY <1>3 DEF LosesRows, Newest, AllRows
  <1>4. ASSUME LeavesRows PROVE Newest'
    BY <1>4 DEF LeavesRows, Newest, AllRows
  <1> QED
    BY <1>0, <1>1, <1>2, <1>3, <1>4, RowsNext

LEMMA InitNewest == Init => Newest
PROOF
  <1> SUFFICES ASSUME Init PROVE Newest
    OBVIOUS
  <1>1. stored = {} /\ Held = {}
    BY DEF Init, Held
  <1> QED
    BY <1>1 DEF Newest, AllRows

-----------------------------------------------------------------------------
(* A job that lists all files has, of what was merged, all but what others *)
(* merged meanwhile; so a newer row covers an older one, or knows what it  *)
(* lacks.                                                                  *)

SlotsOK ==
    /\ merged \subseteq InBucket
    /\ \A s \in Slots :
          /\ slot[s].pc \in Underway => /\ slot[s].files \subseteq InBucket
                                        /\ merged \subseteq slot[s].files \cup meanwhile[s]
          /\ slot[s].pc = "read" => slot[s].base.covers \subseteq merged

Growing ==
    /\ \A r \in AllRows : /\ r.covers \subseteq merged
                          /\ r.late = {} => r.winner = Max(r.covers)
    /\ \A q, r \in AllRows : q.ts < r.ts => q.covers \subseteq r.covers \cup r.late

LEMMA MeanwhileNext ==
    ASSUME JobsInv, Stored, [Next]_vars, NEW s \in Slots, slot'[s].pc \in Underway,
           \A t \in Slots : ~MergeAndWrite(t)
    PROVE  meanwhile'[s] = meanwhile[s] /\ merged' = merged
PROOF
  <1>1. ASSUME NEW t \in Slots, NEW throttled \in BOOLEAN, Fail(t, throttled)
        PROVE  meanwhile'[s] = meanwhile[s] /\ merged' = merged
    <2>1. slot'[t] = Idle
      BY <1>1 DEF Fail, JobsInv
    <2>2. s # t
      BY <2>1, IdleType DEF Underway
    <2> QED
      BY <1>1, <2>2 DEF Fail, Stored
  <1>2. ASSUME NEW p \in Procs, Crash(p) PROVE meanwhile'[s] = meanwhile[s] /\ merged' = merged
    BY <1>2, IdleType DEF Crash, Underway
  <1>3. ASSUME \/ \E f \in Files : Upload(f) \/ UploadThrottled(f) \/ Enqueue(f) \/ RequestFails(f)
               \/ \E t \in Slots : SlotStep(t)
               \/ \E p \in Procs : Flush(p)
               \/ ExpireSeen \/ ExpireSlow \/ UNCHANGED vars
        PROVE  UNCHANGED <<meanwhile, merged>>
    BY <1>3 DEF Upload, UploadThrottled, Enqueue, RequestFails, Flush, ExpireSeen, ExpireSlow, vars,
                SlotStep, SkipSeen, PickUp, Redirect, List, MarkSeen, ReadBase, Complete
  <1> QED
    BY <1>1, <1>2, <1>3 DEF Next

LEMMA BucketGrows == ASSUME Pipeline, [Next]_vars PROVE InBucket \subseteq InBucket'
PROOF
  <1>1. ASSUME NEW f \in Files, Upload(f) PROVE InBucket \subseteq InBucket'
    BY <1>1, UploadPlaced DEF Pipeline
  <1>2. ASSUME \/ \E f \in Files : UploadThrottled(f) \/ Enqueue(f) \/ RequestFails(f)
               \/ \E s \in Slots : SlotStep(s) \/ \E throttled \in BOOLEAN : Fail(s, throttled)
               \/ \E p \in Procs : Flush(p) \/ Crash(p)
               \/ ExpireSeen \/ ExpireSlow \/ UNCHANGED vars
        PROVE  bucket' = bucket
    BY <1>2 DEF UploadThrottled, Enqueue, RequestFails, Flush, Crash, Fail, ExpireSeen, ExpireSlow, vars,
                SlotStep, SkipSeen, PickUp, Redirect, List, MarkSeen, ReadBase, MergeAndWrite, Complete
  <1> QED
    BY <1>1, <1>2 DEF Next, InBucket

LEMMA SlotsOKNext ==
    ASSUME ~SkipS3List, Pipeline, SlotsOK, Growing, [Next]_vars
    PROVE  SlotsOK'
PROOF
  <1>0. JobsInv /\ Stored /\ InBucket \subseteq InBucket'
    BY BucketGrows DEF Pipeline
  <1>1. CASE \E s \in Slots : MergeAndWrite(s)
    <2>1. PICK s \in Slots : MergeAndWrite(s)
      BY <1>1
    <2>2. /\ slot[s].pc = "read" /\ slot'[s].pc = "wrote" /\ merged' = merged \cup slot[s].files
          /\ \A t \in Slots \ {s} : slot'[t] = slot[t]
      BY <1>0, <2>1, MergingSteps DEF MergeAndWrite
    <2>3. merged' \subseteq InBucket'
      BY <1>0, <2>2 DEF SlotsOK, Underway
    <2>4. ASSUME NEW t \in Slots, slot'[t].pc \in Underway
          PROVE  /\ slot'[t].files \subseteq InBucket' /\ merged' \subseteq slot'[t].files \cup meanwhile'[t]
                 /\ slot'[t].pc = "read" => slot'[t].base.covers \subseteq merged'
      <3>1. t # s /\ slot'[t] = slot[t]
        BY <2>2, <2>4 DEF Underway
      <3>2. meanwhile'[t] = meanwhile[t] \cup slot[s].files
        BY <2>1, <2>4, <3>1 DEF MergeAndWrite, Merging, Underway
      <3> QED
        BY <1>0, <2>2, <2>4, <3>1, <3>2 DEF SlotsOK
    <2> QED
      BY <2>3, <2>4 DEF SlotsOK, Underway
  <1>2. CASE \A s \in Slots : ~MergeAndWrite(s)
    <2>1. merged' = merged
      BY <1>0, <1>2, RowsNext DEF MakesRow, StoresRow, LosesRows, LeavesRows
    <2>2. ASSUME NEW s \in Slots, slot'[s].pc \in Underway
          PROVE  /\ slot'[s].files \subseteq InBucket' /\ merged \subseteq slot'[s].files \cup meanwhile'[s]
                 /\ slot'[s].pc = "read" => slot'[s].base.covers \subseteq merged
      <3>0. meanwhile'[s] = meanwhile[s]
        BY <1>0, <1>2, <2>2, MeanwhileNext
      <3>1. CASE slot'[s] = slot[s]
        BY <1>0, <2>2, <3>0, <3>1 DEF SlotsOK
      <3>2. CASE List(s)
        <4>1. slot'[s].files = InBucket /\ slot'[s].pc # "read"
          BY <1>0, <3>2, MergingSteps
        <4> QED
          BY <1>0, <4>1 DEF SlotsOK
      <3>3. CASE MarkSeen(s)
        <4>1. slot[s].pc = "listed" /\ slot'[s].files = slot[s].files /\ slot'[s].pc # "read"
          BY <1>0, <3>3, MergingSteps
        <4> QED
          BY <1>0, <3>0, <4>1 DEF SlotsOK, Underway
      <3>4. CASE ReadBase(s)
        <4>1. /\ slot[s].pc = "marked" /\ slot'[s].files = slot[s].files
              /\ slot'[s].base \in stored \cup {NoRow}
          BY <1>0, <3>4, MergingSteps DEF Found
        <4>2. slot'[s].base.covers \subseteq merged
          BY <4>1 DEF Growing, AllRows, NoRow
        <4> QED
          BY <1>0, <3>0, <4>1, <4>2 DEF SlotsOK, Underway
      <3> QED
        BY <1>0, <2>2, <3>1, <3>2, <3>3, <3>4, MergingNext
    <2> QED
      BY <1>0, <2>1, <2>2 DEF SlotsOK, Underway
  <1> QED
    BY <1>1, <1>2

LEMMA GrowingNext ==
    ASSUME ~SkipS3List, Pipeline, Newest, SlotsOK, Growing, [Next]_vars
    PROVE  Growing'
PROOF
  <1>0. JobsInv /\ Stored /\ clock \in Nat
    BY DEF Pipeline, Stored
  <1>1. ASSUME NEW s \in Slots, MakesRow(s) PROVE Growing'
    <2>1. PICK new : new = MergedRow(s)
      OBVIOUS
    <2>2. /\ AllRows' = AllRows \cup {new} /\ slot[s].pc = "read"
          /\ merged' = merged \cup slot[s].files
      BY <1>1, <2>1 DEF MakesRow, AllRows, MergeAndWrite
    <2>3. /\ new.ts = clock + 1 /\ new.covers = slot[s].base.covers \cup slot[s].files
          /\ new.late = meanwhile[s] \ slot[s].files /\ new.winner = Max(slot[s].files)
      BY <1>0, <2>1, <2>2, NewRow
    <2>4. merged \subseteq slot[s].files \cup meanwhile[s] /\ slot[s].base.covers \subseteq merged
      BY <2>2 DEF SlotsOK, Underway
    <2>5. new.covers \subseteq merged' /\ merged \subseteq new.covers \cup new.late
      BY <2>2, <2>3, <2>4
    <2>6. new.late = {} => new.winner = Max(new.covers)
      <3>1. ASSUME new.late = {} PROVE new.covers = slot[s].files
        BY <2>3, <2>4, <3>1
      <3> QED
        BY <2>3, <3>1
    <2>7. \A q \in AllRows : q.covers \subseteq merged /\ q.ts \in Nat /\ q.ts < new.ts
      BY <1>0, <2>3 DEF Growing, Newest
    <2>8. \A q \in AllRows' : q.covers \subseteq merged' /\ (q.late = {} => q.winner = Max(q.covers))
      BY <2>2, <2>5, <2>6, <2>7 DEF Growing
    <2>9. ASSUME NEW q \in AllRows', NEW r \in AllRows', q.ts < r.ts PROVE q.covers \subseteq r.covers \cup r.late
      <3>1. CASE r = new
        <4>1. q # new
          BY <1>0, <2>3, <2>9, <3>1
        <4> QED
          BY <2>2, <2>5, <2>7, <3>1, <4>1
      <3>2. CASE r # new
        <4>1. q # new
          BY <1>0, <2>2, <2>3, <2>7, <2>9, <3>2
        <4> QED
          BY <2>2, <2>9, <3>2, <4>1 DEF Growing
      <3> QED
        BY <3>1, <3>2
    <2> QED
      BY <2>8, <2>9 DEF Growing
  <1>2. ASSUME AllRows' \subseteq AllRows, merged' = merged PROVE Growing'
    BY <1>2 DEF Growing
  <1> QED
    BY <1>0, <1>1, <1>2, RowsNext DEF StoresRow, LosesRows, LeavesRows, AllRows

(* When nothing is under way any more and the jobs list all the files of   *)
(* the entity, then whatever overlapped, failed or crashed: an accepted    *)
(* event is in the row on display, or was merged by another job while the  *)
(* job of this row was under way, or was ended by a fault; and if nothing  *)
(* was merged meanwhile, the latest event wins.                            *)
THEOREM ConvergedHolds == ~SkipS3List => (Spec => []Converged)
PROOF
  <1> SUFFICES ASSUME ~SkipS3List PROVE Spec => []Converged
    OBVIOUS
  <1>1. Init => SlotsOK /\ Growing /\ Traced
    <2> SUFFICES ASSUME Init PROVE SlotsOK /\ Growing /\ Traced
      OBVIOUS
    <2>1. AllRows = {}
      BY DEF Init, AllRows, Held
    <2>2. \A s \in Slots : slot[s].pc = "idle"
      BY IdleType DEF Init
    <2>3. SlotsOK
      BY <2>2 DEF Init, SlotsOK, Underway
    <2> QED
      BY <2>1, <2>3 DEF Init, Growing, Traced
  <1>2. Pipeline /\ Newest /\ SlotsOK /\ Growing /\ [Next]_vars => SlotsOK' /\ Growing'
    BY SlotsOKNext, GrowingNext
  <1>3. Pipeline /\ Newest /\ [Next]_vars => Newest'
    BY NewestNext
  <1>4. Pipeline /\ Traced /\ [Next]_vars => Traced'
    BY TracedNext DEF Pipeline
  <1>5. ASSUME Pipeline, Newest, SlotsOK, Growing, Traced, AcceptedIsKept, SkippedIsCovered PROVE Converged
    <2> SUFFICES ASSUME Quiet
                 PROVE  /\ accepted \subseteq top.covers \cup top.late \cup GivenUp
                        /\ top.covers # {} /\ top.late = {} => top.winner = Max(top.covers)
      BY DEF Converged
    <2>1. \A s \in Slots : slot[s].pc = "idle"
      BY <1>5 DEF Quiet, Pipeline, JobsInv, Busy
    <2>2. MergingNow = {}
      BY <2>1, MarkedIs DEF MergingNow
    <2>3. Held = {} /\ AllRows = stored
      BY DEF Quiet, Held, AllRows
    <2>4. accepted \subseteq Covers(stored) \cup GivenUp
      BY <1>5, <2>2, <2>3 DEF AcceptedIsKept, InHand, SkippedIsCovered, Traced, Quiet, GivenUp
    <2>5. Covers(stored) \subseteq top.covers \cup top.late
      <3> SUFFICES ASSUME NEW r \in stored PROVE r.covers \subseteq top.covers \cup top.late
        BY DEF Covers
      <3>1. top \in stored \cup {NoRow} /\ r.ts \in 1..clock /\ r.ts <= top.ts /\ clock \in Nat /\ NoRow.ts = 0
        BY <1>5, <2>3 DEF Pipeline, Stored, Newest, NoRow
      <3>2. top \in stored /\ top.ts \in Nat
        BY <1>5, <2>3, <3>1 DEF Newest
      <3>3. CASE r.ts = top.ts
        BY <1>5, <2>3, <3>2, <3>3 DEF Newest
      <3>4. CASE r.ts < top.ts
        BY <1>5, <2>3, <3>2, <3>4 DEF Growing
      <3> QED
        BY <3>1, <3>2, <3>3, <3>4
    <2>6. top.covers # {} /\ top.late = {} => top.winner = Max(top.covers)
      BY <1>5, <2>3 DEF Pipeline, Stored, Growing, NoRow
    <2> QED
      BY <2>4, <2>5, <2>6
  <1> QED
    BY <1>1, <1>2, <1>3, <1>4, <1>5, InitNewest, Invariant, AcceptedIsKeptHolds, SkippedIsCoveredHolds, PTL DEF Spec

-----------------------------------------------------------------------------
(* When no filter can reject a row of the entity, a read finds the one on  *)
(* display.                                                                *)

Passing(r) == r.winner \in Files /\ \A f \in Files : StartOf[f] <= r.start

RowsPass ==
    /\ \A r \in AllRows : Passing(r)
    /\ \A s \in Slots :
          /\ slot[s].pc \in Underway => slot[s].first \in Files
          /\ slot[s].pc = "read" => slot[s].base = NoRow \/ Passing(slot[s].base)

LEMMA RowsPassNext ==
    ASSUME FilterPasses, Pipeline, RowsPass, [Next]_vars
    PROVE  RowsPass'
PROOF
  <1>0. JobsInv /\ Stored /\ Placed
    BY DEF Pipeline
  <1>1. ASSUME NEW r \in AllRows' PROVE Passing(r)
    <2>1. ASSUME NEW s \in Slots, MakesRow(s) PROVE Passing(r)
      <3>1. PICK new : new = MergedRow(s)
        OBVIOUS
      <3>2. /\ AllRows' = AllRows \cup {new} /\ slot[s].pc = "read"
        BY <2>1, <3>1 DEF MakesRow, AllRows
      <3>3. /\ new.winner \in Files /\ Min(slot[s].files) \in Files
            /\ new.start = IF slot[s].base = NoRow THEN EventStart(Min(slot[s].files)) ELSE slot[s].base.start
        BY <1>0, <3>1, <3>2, NewRow
      <3>4. Passing(new)
        BY <3>2, <3>3 DEF Passing, RowsPass, FilterPasses
      <3> QED
        BY <1>1, <3>2, <3>4 DEF RowsPass
    <2>2. ASSUME AllRows' \subseteq AllRows PROVE Passing(r)
      BY <1>1, <2>2 DEF RowsPass
    <2> QED
      BY <1>0, <2>1, <2>2, RowsNext DEF StoresRow, LosesRows, LeavesRows, AllRows
  <1>2. ASSUME NEW s \in Slots, slot'[s].pc \in Underway
        PROVE  /\ slot'[s].first \in Files
               /\ slot'[s].pc = "read" => slot'[s].base = NoRow \/ Passing(slot'[s].base)
    <2>1. CASE slot'[s] = slot[s]
      BY <1>2, <2>1 DEF RowsPass
    <2>2. CASE List(s)
      BY <1>0, <2>2, MergingSteps DEF Placed
    <2>3. CASE MarkSeen(s)
      BY <1>0, <2>3, MergingSteps DEF RowsPass, Underway
    <2>4. CASE ReadBase(s)
      <3>1. slot'[s].base \in stored \cup {NoRow}
        BY <1>0, <2>4, MergingSteps DEF Found
      <3> QED
        BY <1>0, <2>4, <3>1, MergingSteps DEF RowsPass, AllRows, Underway
    <2> QED
      BY <1>0, <1>2, <2>1, <2>2, <2>3, <2>4, MergingNext
  <1> QED
    BY <1>1, <1>2 DEF RowsPass, Passing, Underway

LEMMA FoundIsTop ==
    ASSUME ~ReadSkipped, FilterPasses, Pipeline, Newest, RowsPass, NEW s \in Slots, ReadBase(s)
    PROVE  unread' = unread
PROOF
  <1>0. JobsInv /\ Stored
    BY DEF Pipeline
  <1>1. /\ slot[s].pc = "marked" /\ slot'[s].base \in Found(s)
        /\ unread' = unread \cup (top.covers \ slot'[s].base.covers)
    BY <1>0, MergingSteps
  <1>2. slot[s].first \in Files /\ slot[s].files \in SUBSET Files
    BY <1>0, <1>1, SlotType DEF RowsPass, Underway, SlotStates
  <1>3. ASSUME NEW r \in stored PROVE Matches(r, s)
    <2>1. r.winner \in Files /\ \A f \in slot[s].files : StartOf[f] <= r.start
      BY <1>2 DEF RowsPass, Passing, AllRows
    <2>2. KindOf[r.winner] = KindOf[slot[s].first]
      BY <1>2, <2>1 DEF FilterPasses
    <2> QED
      BY <2>1, <2>2 DEF Matches
  <1>4. CASE top = NoRow
    BY <1>1, <1>4 DEF NoRow
  <1>5. CASE top \in stored
    <2>1. \A r \in stored : r.ts \in Nat /\ top.ts \in Nat /\ r.ts <= top.ts
      BY <1>0, <1>5 DEF Newest, Stored, Rows
    <2>2. ~Superseded(top)
      BY <2>1 DEF Superseded
    <2>3. slot'[s].base \in stored /\ ~(top.ts > slot'[s].base.ts)
      BY <1>1, <1>3, <1>5, <2>2 DEF Found
    <2>4. slot'[s].base.ts = top.ts
      BY <2>1, <2>3
    <2>5. slot'[s].base = top
      BY <1>5, <2>3, <2>4 DEF Newest, AllRows
    <2> QED
      BY <1>1, <2>5
  <1> QED
    BY <1>0, <1>4, <1>5 DEF Stored

(* If all events of the entity are of one type and none carries a start    *)
(* after that of a row (FilterPasses), and ClickhouseReadSkipCache does    *)
(* not hold the project, no read of the row (getClickhouseRecord) leaves   *)
(* out an event on display, though its filters are the job's own; with     *)
(* SettledStays, what was at rest then stays.                              *)
THEOREM NothingUnread == ~ReadSkipped /\ FilterPasses => (Spec => [](unread = {}))
PROOF
  <1> SUFFICES ASSUME ~ReadSkipped, FilterPasses PROVE Spec => [](unread = {})
    OBVIOUS
  <1>1. Init => RowsPass /\ unread = {}
    <2> SUFFICES ASSUME Init PROVE RowsPass /\ unread = {}
      OBVIOUS
    <2>1. AllRows = {} /\ \A s \in Slots : slot[s].pc = "idle"
      BY IdleType DEF Init, AllRows, Held
    <2> QED
      BY <2>1 DEF Init, RowsPass, Underway
  <1>2. Pipeline /\ Newest /\ RowsPass /\ unread = {} /\ [Next]_vars => (RowsPass /\ unread = {})'
    <2> SUFFICES ASSUME Pipeline, Newest, RowsPass, unread = {}, [Next]_vars
                 PROVE  (RowsPass /\ unread = {})'
      OBVIOUS
    <2>1. unread' = unread
      BY FoundIsTop, RowsNext DEF Pipeline, MakesRow, StoresRow, LosesRows
    <2> QED
      BY <2>1, RowsPassNext
  <1>3. Pipeline /\ Newest /\ [Next]_vars => Newest'
    BY NewestNext
  <1> QED
    BY <1>1, <1>2, <1>3, InitNewest, Invariant, PTL DEF Spec
=============================================================================
