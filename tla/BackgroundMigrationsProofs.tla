--------------------- MODULE BackgroundMigrationsProofs ---------------------
(***************************************************************************)
(* For any number of workers and migrations, any gates and any bounds: the *)
(* verdict on a migration is never written under the worker that holds and *)
(* runs it; a finished migration was run to its end; one is run at a time; *)
(* and the managers keep their shape.                                      *)
(*                                                                         *)
(* NotSettledUnderHolder is not inductive: a worker enters migration.run   *)
(* with a row it picked some awaits earlier, and may also come back from a *)
(* failed validation with activeMigration left over. Held follows the row  *)
(* from its pick to the run; what is left over is known to be invalid.     *)
(*                                                                         *)
(* DoneInv says why a worker may mark its row finished, CalmInv that       *)
(* whoever has a row has the first pending one, so that nobody else has    *)
(* any. The type invariant bounds the heartbeat chains of a process, which *)
(* takes a tally of what every iteration of its loop is spent on.          *)
(***************************************************************************)
EXTENDS BackgroundMigrations, FiniteSetTheorems, TLAPS

Managers ==
    [at : Places, more : BOOLEAN, active : Migrations \cup {None},
     cur : Migrations \cup {None}, aborted : BOOLEAN, chains : Nat,
     close : CloseSteps]

Shape ==
    /\ row \in [Migrations -> RowStates]
    /\ worker \in [Workers -> Managers]

(* What w holds is pending, or it is known to fail its validation.         *)
Runnable(w, m) == Owns(w, m) => Pending(m) \/ m \in Invalid

Held(w) ==
    /\ At(w, "pick") => worker[w].active \in {None} \cup Invalid
    /\ At(w, "beat") => worker[w].active = None \/ Runnable(w, worker[w].active)
    /\ At(w, "validate") => Runnable(w, worker[w].cur)
    /\ worker[w].at \in {"validate", "invalid"} =>
          /\ worker[w].cur # None
          /\ worker[w].active \in {None, worker[w].cur}
    /\ At(w, "invalid") => worker[w].cur \in Invalid
    /\ worker[w].at \in {"run", "finish", "fail"} => worker[w].cur # None
    /\ At(w, "run") => (Owns(w, worker[w].cur) => Pending(worker[w].cur))

IInv == Shape /\ \A w \in Workers : Held(w)


(* What a step of v may do to the rows: take one for v, settle v's own.    *)
RowStep(v) ==
    \A m \in Migrations :
        /\ row'[m].holder \in {row[m].holder, v}
        /\ row[m].holder # v => /\ row'[m].finished = row[m].finished
                                /\ row'[m].failed = row[m].failed

-----------------------------------------------------------------------------
(* A step of v that keeps the shapes and what v holds disturbs no other    *)
(* worker.                                                                 *)
LEMMA OthersUndisturbed ==
    ASSUME IInv, NEW v \in Workers, NEW st \in Managers, Become(v, st),
           row' \in [Migrations -> RowStates], RowStep(v), Held(v)'
    PROVE  IInv'
PROOF
  <1>1. Shape'
    BY DEF IInv, Shape, Become
  <1>2. ASSUME NEW w \in Workers, w # v PROVE Held(w)'
    <2>1. Held(w) /\ worker'[w] = worker[w] /\ worker[w] \in Managers
      BY <1>2 DEF IInv, Shape, Become
    <2>2. ASSUME NEW m \in Migrations PROVE Runnable(w, m) => Runnable(w, m)'
      BY <1>2 DEF RowStep, Runnable, Owns, Pending
    <2>3. ASSUME NEW m \in Migrations, Owns(w, m) => Pending(m)
          PROVE  (Owns(w, m) => Pending(m))'
      BY <1>2, <2>3 DEF RowStep, Owns, Pending
    <2> QED
      BY <2>1, <2>2, <2>3 DEF Held, At, Managers
  <1> QED
    BY <1>1, <1>2 DEF IInv

(* The same for a step that leaves the rows alone.                         *)
LEMMA OthersUndisturbedNoRow ==
    ASSUME IInv, NEW v \in Workers, NEW st \in Managers, Become(v, st),
           UNCHANGED row, Held(v)'
    PROVE  IInv'
PROOF
  <1>1. row' \in [Migrations -> RowStates] /\ RowStep(v)
    BY DEF IInv, Shape, RowStep, RowStates
  <1> QED
    BY <1>1, OthersUndisturbed

LEMMA NoneAssumption == None \notin Migrations
PROOF BY MigrationsAssumption DEF None

-----------------------------------------------------------------------------
(* One lemma per action.                                                   *)

LEMMA InitHolds == Init => IInv
PROOF
  <1> SUFFICES ASSUME Init PROVE IInv
    OBVIOUS
  <1>1. Shape
    BY DEF Init, Shape, RowStates, Managers, Fresh, Places, CloseSteps, None
  <1>2. \A w \in Workers : Held(w)
    BY DEF Init, Held, At, Fresh, None
  <1> QED
    BY <1>1, <1>2 DEF IInv

LEMMA PickStep == ASSUME IInv, NEW v \in Workers, Pick(v) PROVE IInv'
PROOF
  <1>1. /\ worker[v] \in Managers /\ Shape /\ Held(v) /\ At(v, "pick")
        /\ row \in [Migrations -> RowStates]
    BY DEF IInv, Shape, Pick
  <1>2. ASSUME NEW m \in Candidates(v), Acquire(v, m) PROVE IInv'
    <2> DEFINE st == [worker[v] EXCEPT !.at = "beat", !.active = m, !.aborted = FALSE]
    <2>1. m \in Migrations /\ Pending(m)
      BY EnabledAssumption DEF Candidates
    <2>2. st \in Managers /\ Become(v, st)
      BY <1>1, <1>2, <2>1 DEF Managers, Places, Acquire
    <2>3. row' = [row EXCEPT ![m].holder = v, ![m].lease = "fresh"]
      BY <1>2 DEF Acquire
    <2>4. row' \in [Migrations -> RowStates]
      BY <1>1, <2>1, <2>3 DEF RowStates
    <2>5. RowStep(v) /\ Pending(m)'
      BY <1>1, <2>1, <2>3 DEF RowStates, RowStep, Pending
    <2>6. worker'[v] = st
      BY <1>1, <2>2 DEF Become, Shape
    <2>7. Held(v)'
      BY <1>1, <2>5, <2>6 DEF Held, At, Runnable, Managers
    <2> QED
      BY <2>2, <2>4, <2>5, <2>7, OthersUndisturbed
  <1>3. ASSUME NothingToRun(v) PROVE IInv'
    <2> DEFINE st == [worker[v] EXCEPT !.more = FALSE,
                          !.at = IF worker[v].active = None THEN "stopped" ELSE "beat"]
    <2>1. st \in Managers /\ Become(v, st) /\ UNCHANGED row
      BY <1>1, <1>3 DEF Managers, Places, NothingToRun
    <2>2. /\ worker'[v].at \in {"stopped", "beat"}
          /\ worker'[v].active = worker[v].active
      BY <1>1, <2>1 DEF Become, Shape, Managers
    <2>3. Held(v)'
      BY <1>1, <2>2 DEF Held, At, Runnable
    <2> QED
      BY <2>1, <2>3, OthersUndisturbedNoRow
  <1> QED
    BY <1>2, <1>3 DEF Pick

(* A heartbeat changes leases only.                                        *)
LEMMA RenewedRows ==
    ASSUME Shape, NEW v \in Workers, row' = Renewed(v)
    PROVE  /\ row' \in [Migrations -> RowStates]
           /\ RowStep(v)
           /\ \A m \in Migrations : /\ row'[m].holder = row[m].holder
                                    /\ Pending(m)' = Pending(m)
PROOF
  <1>1. row \in [Migrations -> RowStates]
    BY DEF Shape
  <1>2. CASE row' = row
    BY <1>1, <1>2 DEF RowStep, RowStates, Pending
  <1>3. CASE row' # row
    <2>1. PICK m \in Migrations : row' = [row EXCEPT ![m].lease = "fresh"]
      BY <1>1, <1>3 DEF Renewed, Shape, Managers
    <2> QED
      BY <1>1, <2>1 DEF RowStep, RowStates, Pending
  <1> QED
    BY <1>2, <1>3

LEMMA FirstBeatStep == ASSUME IInv, NEW v \in Workers, FirstBeat(v) PROVE IInv'
PROOF
  <1> DEFINE st == IF worker[v].active = None
                   THEN [worker[v] EXCEPT !.at = "rejected"]
                   ELSE [worker[v] EXCEPT !.at = "validate", !.chains = @ + 1,
                                          !.cur = worker[v].active]
  <1>1. worker[v] \in Managers /\ Shape /\ Held(v) /\ At(v, "beat")
    BY DEF IInv, Shape, FirstBeat
  <1>2. st \in Managers /\ Become(v, st)
    <2>1. CASE worker[v].active = None
      BY <1>1, <2>1 DEF FirstBeat, Go, Managers, Places
    <2>2. CASE worker[v].active # None
      <3>1. worker[v].active \in Migrations /\ worker[v].chains + 1 \in Nat
        BY <1>1, <2>2 DEF Managers
      <3>2. st \in Managers
        BY <1>1, <2>2, <3>1 DEF Managers, Places
      <3> QED
        BY <2>2, <3>2 DEF FirstBeat
    <2> QED
      BY <2>1, <2>2
  <1>3. worker'[v] = st
    BY <1>1, <1>2 DEF Become, Shape
  <1>4. /\ row' \in [Migrations -> RowStates] /\ RowStep(v)
        /\ \A m \in Migrations : row'[m].holder = row[m].holder /\ Pending(m)' = Pending(m)
    BY <1>1, RenewedRows DEF FirstBeat
  <1>5. Held(v)'
    <2>1. CASE worker[v].active = None
      BY <1>1, <1>3, <2>1 DEF Held, At, Managers
    <2>2. CASE worker[v].active # None
      <3>1. /\ worker'[v].at = "validate" /\ worker'[v].cur = worker[v].active
            /\ worker'[v].active = worker[v].active
            /\ worker[v].active \in Migrations
        BY <1>1, <1>3, <2>2 DEF Managers
      <3>2. Runnable(v, worker[v].active)
        BY <1>1, <2>2 DEF Held
      <3>3. Runnable(v, worker[v].cur)'
        BY <1>4, <3>1, <3>2 DEF Runnable, Owns
      <3> QED
        BY <2>2, <3>1, <3>3 DEF Held, At
    <2> QED
      BY <2>1, <2>2
  <1> QED
    BY <1>2, <1>4, <1>5, OthersUndisturbed

LEMMA HeartBeatStep == ASSUME IInv, NEW v \in Workers, HeartBeat(v) PROVE IInv'
PROOF
  <1> DEFINE st == [worker[v] EXCEPT !.chains = IF worker[v].active = None THEN @ - 1 ELSE @]
  <1>1. worker[v] \in Managers /\ Shape /\ Held(v)
    BY DEF IInv, Shape
  <1>2. st \in Managers /\ Become(v, st)
    BY <1>1 DEF HeartBeat, Managers
  <1>3. /\ worker'[v].at = worker[v].at /\ worker'[v].active = worker[v].active
        /\ worker'[v].cur = worker[v].cur
    BY <1>1, <1>2 DEF Become, Shape, Managers
  <1>4. /\ row' \in [Migrations -> RowStates] /\ RowStep(v)
        /\ \A m \in Migrations : row'[m].holder = row[m].holder /\ Pending(m)' = Pending(m)
    BY <1>1, RenewedRows DEF HeartBeat
  <1>5. ASSUME NEW m \in Migrations
        PROVE  /\ Runnable(v, m)' = Runnable(v, m)
               /\ (Owns(v, m) => Pending(m))' = (Owns(v, m) => Pending(m))
    BY <1>4 DEF Runnable, Owns
  <1>6. Held(v)'
    BY <1>1, <1>3, <1>5 DEF Held, At, Managers
  <1> QED
    BY <1>2, <1>4, <1>6, OthersUndisturbed

LEMMA ValidateStep == ASSUME IInv, NEW v \in Workers, Validate(v) PROVE IInv'
PROOF
  <1> DEFINE st == [worker[v] EXCEPT !.at = IF worker[v].cur \in Invalid
                                           THEN "invalid" ELSE "run"]
  <1>1. worker[v] \in Managers /\ Shape /\ Held(v)
    BY DEF IInv, Shape
  <1>2. st \in Managers /\ Become(v, st) /\ UNCHANGED row
    BY <1>1 DEF Validate, Go, Managers, Places, CloseSteps, None
  <1>3. worker'[v] = st
    BY <1>1, <1>2 DEF Become, Shape
  <1>4. Held(v)'
    BY <1>1, <1>2, <1>3 DEF Validate, Held, At, Runnable, Managers, None, Owns, Pending
  <1> QED
    BY <1>2, <1>4, OthersUndisturbedNoRow

(* Leaving an iteration with nothing active, or for a place where nothing  *)
(* but the migration at hand is asked for, keeps Held.                     *)
LEMMA ReturnedStep ==
    ASSUME IInv, NEW v \in Workers, At(v, "run"), Returned(v), UNCHANGED row
    PROVE  IInv'
PROOF
  <1>1. worker[v] \in Managers /\ Shape /\ Held(v)
    BY DEF IInv, Shape
  <1>2. CASE worker[v].active # None
    <2> DEFINE st == [worker[v] EXCEPT !.at = "finish"]
    <2>1. st \in Managers /\ Become(v, st)
      BY <1>1, <1>2 DEF Returned, Go, Managers, Places
    <2>2. worker'[v] = st
      BY <1>1, <2>1 DEF Become, Shape
    <2>3. Held(v)'
      BY <1>1, <2>2 DEF Held, At, Managers
    <2> QED
      BY <2>1, <2>3, OthersUndisturbedNoRow
  <1>3. CASE worker[v].active = None
    <2> DEFINE st == Loop([worker[v] EXCEPT !.active = None])
    <2>1. st \in Managers /\ Become(v, st)
      BY <1>1, <1>3 DEF Returned, NextIteration, Loop, Managers, Places
    <2>2. worker'[v] = st
      BY <1>1, <2>1 DEF Become, Shape
    <2>3. Held(v)'
      BY <1>1, <2>2 DEF Held, At, Managers, Loop
    <2> QED
      BY <2>1, <2>3, OthersUndisturbedNoRow
  <1> QED
    BY <1>2, <1>3

(* The three updates that settle a row do so to a row of the worker itself,*)
(* which is then past the run.                                             *)
LEMMA SettledRows ==
    ASSUME Shape, NEW v \in Workers, NEW m \in Migrations, Owns(v, m), Fail(m) \/ Finish(m)
    PROVE  row' \in [Migrations -> RowStates] /\ RowStep(v)
PROOF
  <1>1. row \in [Migrations -> RowStates]
    BY DEF Shape
  <1>2. CASE row' = [row EXCEPT ![m].failed = TRUE, ![m].lease = "none"]
    <2> DEFINE settled == [row[m] EXCEPT !.failed = TRUE, !.lease = "none"]
    <2>1. row' = [row EXCEPT ![m] = settled]
      BY <1>1, <1>2
    <2>2. row[m] \in RowStates /\ settled \in RowStates /\ settled.holder = row[m].holder
      <3>1. row[m] \in RowStates
        BY <1>1
      <3>2. settled \in RowStates
        BY <3>1, ZenonT(30) DEF RowStates
      <3>3. settled.holder = row[m].holder
        BY <3>1 DEF RowStates
      <3> QED
        BY <3>1, <3>2, <3>3
    <2> HIDE DEF settled
    <2>3. row' \in [Migrations -> RowStates]
      BY <1>1, <2>1, <2>2
    <2>4. RowStep(v)
      BY <1>1, <2>1, <2>2 DEF RowStep, Owns
    <2> QED
      BY <2>3, <2>4
  <1>3. CASE row' = [row EXCEPT ![m].finished = TRUE, ![m].lease = "none"]
    <2> DEFINE settled == [row[m] EXCEPT !.finished = TRUE, !.lease = "none"]
    <2>1. row' = [row EXCEPT ![m] = settled]
      BY <1>1, <1>3
    <2>2. row[m] \in RowStates /\ settled \in RowStates /\ settled.holder = row[m].holder
      <3>1. row[m] \in RowStates
        BY <1>1
      <3>2. settled \in RowStates
        BY <3>1, ZenonT(30) DEF RowStates
      <3>3. settled.holder = row[m].holder
        BY <3>1 DEF RowStates
      <3> QED
        BY <3>1, <3>2, <3>3
    <2> HIDE DEF settled
    <2>3. row' \in [Migrations -> RowStates]
      BY <1>1, <2>1, <2>2
    <2>4. RowStep(v)
      BY <1>1, <2>1, <2>2 DEF RowStep, Owns
    <2> QED
      BY <2>3, <2>4
  <1> QED
    BY <1>2, <1>3 DEF Fail, Finish

LEMMA MarkInvalidStep == ASSUME IInv, NEW v \in Workers, MarkInvalid(v) PROVE IInv'
PROOF
  <1>1. /\ worker[v] \in Managers /\ Shape /\ Held(v) /\ At(v, "invalid")
        /\ worker[v].cur \in Migrations
    BY DEF IInv, Shape, MarkInvalid, Held, At, Managers
  <1>2. CASE Owns(v, worker[v].cur)
    <2> DEFINE st == Loop(worker[v])
    <2>1. st \in Managers /\ Become(v, st) /\ Fail(worker[v].cur)
      BY <1>1, <1>2 DEF MarkInvalid, Loop, Managers, Places
    <2>2. worker'[v] = st
      BY <1>1, <2>1 DEF Become, Shape
    <2>3. Held(v)'
      BY <1>1, <2>2 DEF Held, At, Managers, Loop
    <2> QED
      BY <1>1, <1>2, <2>1, <2>3, SettledRows, OthersUndisturbed
  <1>3. CASE ~Owns(v, worker[v].cur)
    <2> DEFINE st == [worker[v] EXCEPT !.at = "rejected"]
    <2>1. st \in Managers /\ Become(v, st) /\ UNCHANGED row
      BY <1>1, <1>3 DEF MarkInvalid, Go, Managers, Places
    <2>2. worker'[v] = st
      BY <1>1, <2>1 DEF Become, Shape
    <2>3. Held(v)'
      BY <1>1, <2>2 DEF Held, At, Managers
    <2> QED
      BY <2>1, <2>3, OthersUndisturbedNoRow
  <1> QED
    BY <1>2, <1>3

LEMMA MarkFinishedStep == ASSUME IInv, NEW v \in Workers, MarkFinished(v) PROVE IInv'
PROOF
  <1>1. /\ worker[v] \in Managers /\ Shape /\ Held(v) /\ At(v, "finish")
        /\ worker[v].cur \in Migrations
    BY DEF IInv, Shape, MarkFinished, Held, At, Managers
  <1>2. CASE Owns(v, worker[v].cur)
    <2> DEFINE st == Loop([worker[v] EXCEPT !.active = None])
    <2>1. st \in Managers /\ Become(v, st)
      BY <1>1, <1>2 DEF MarkFinished, NextIteration, Loop, Managers, Places
    <2>2. worker'[v] = st
      BY <1>1, <2>1 DEF Become, Shape
    <2>3. Held(v)'
      BY <1>1, <2>2 DEF Held, At, Managers, Loop
    <2>4. row' \in [Migrations -> RowStates] /\ RowStep(v)
      BY <1>1, <1>2, SettledRows DEF MarkFinished
    <2> QED
      BY <2>1, <2>3, <2>4, OthersUndisturbed
  <1>3. CASE ~Owns(v, worker[v].cur)
    <2> DEFINE st == [worker[v] EXCEPT !.at = "fail"]
    <2>1. st \in Managers /\ Become(v, st) /\ UNCHANGED row
      BY <1>1, <1>3 DEF MarkFinished, Go, Managers, Places
    <2>2. worker'[v] = st
      BY <1>1, <2>1 DEF Become, Shape
    <2>3. Held(v)'
      BY <1>1, <2>2 DEF Held, At, Managers
    <2> QED
      BY <2>1, <2>3, OthersUndisturbedNoRow
  <1> QED
    BY <1>2, <1>3

LEMMA MarkFailedStep == ASSUME IInv, NEW v \in Workers, MarkFailed(v) PROVE IInv'
PROOF
  <1>1. /\ worker[v] \in Managers /\ Shape /\ Held(v) /\ At(v, "fail")
        /\ worker[v].cur \in Migrations
    BY DEF IInv, Shape, MarkFailed, Held, At, Managers
  <1>2. CASE Owns(v, worker[v].cur)
    <2> DEFINE st == Loop([worker[v] EXCEPT !.active = None])
    <2>1. st \in Managers /\ Become(v, st)
      BY <1>1, <1>2 DEF MarkFailed, NextIteration, Loop, Managers, Places
    <2>2. worker'[v] = st
      BY <1>1, <2>1 DEF Become, Shape
    <2>3. Held(v)'
      BY <1>1, <2>2 DEF Held, At, Managers, Loop
    <2>4. row' \in [Migrations -> RowStates] /\ RowStep(v)
      BY <1>1, <1>2, SettledRows DEF MarkFailed
    <2> QED
      BY <2>1, <2>3, <2>4, OthersUndisturbed
  <1>3. CASE ~Owns(v, worker[v].cur)
    <2> DEFINE st == [worker[v] EXCEPT !.at = "rejected"]
    <2>1. st \in Managers /\ Become(v, st) /\ UNCHANGED row
      BY <1>1, <1>3 DEF MarkFailed, Go, Managers, Places
    <2>2. worker'[v] = st
      BY <1>1, <2>1 DEF Become, Shape
    <2>3. Held(v)'
      BY <1>1, <2>2 DEF Held, At, Managers
    <2> QED
      BY <2>1, <2>3, OthersUndisturbedNoRow
  <1> QED
    BY <1>2, <1>3

LEMMA RunThrowsStep == ASSUME IInv, NEW v \in Workers, RunThrows(v) PROVE IInv'
PROOF
  <1> DEFINE st == [worker[v] EXCEPT !.at = "fail"]
  <1>1. worker[v] \in Managers /\ Shape /\ Held(v)
    BY DEF IInv, Shape
  <1>2. st \in Managers /\ Become(v, st) /\ UNCHANGED row
    BY <1>1 DEF RunThrows, Go, Managers, Places, CloseSteps, None
  <1>3. worker'[v] = st
    BY <1>1, <1>2 DEF Become, Shape
  <1>4. Held(v)'
    BY <1>1, <1>2, <1>3 DEF RunThrows, Held, At, Runnable, Managers, None, Owns, Pending
  <1> QED
    BY <1>2, <1>4, OthersUndisturbedNoRow

LEMMA CloseAbortStep == ASSUME IInv, NEW v \in Workers, CloseAbort(v) PROVE IInv'
PROOF
  <1> DEFINE st == IF worker[v].active = None
                   THEN [worker[v] EXCEPT !.close = "closed"]
                   ELSE [worker[v] EXCEPT !.close = "unlock", !.aborted = TRUE]
  <1>1. worker[v] \in Managers /\ Shape /\ Held(v)
    BY DEF IInv, Shape
  <1>2. st \in Managers /\ Become(v, st) /\ UNCHANGED row
    BY <1>1 DEF CloseAbort, Go, Managers, Places, CloseSteps, None
  <1>3. worker'[v] = st
    BY <1>1, <1>2 DEF Become, Shape
  <1>4. Held(v)'
    BY <1>1, <1>2, <1>3 DEF CloseAbort, Held, At, Runnable, Managers, None, Owns, Pending
  <1> QED
    BY <1>2, <1>4, OthersUndisturbedNoRow

LEMMA CloseUnlockStep == ASSUME IInv, NEW v \in Workers, CloseUnlock(v) PROVE IInv'
PROOF
  <1> DEFINE m == worker[v].active
             released == m # None /\ Owns(v, m)
  <1>0. PICK c \in {"clear", "threw"} : Become(v, [worker[v] EXCEPT !.close = c])
    BY DEF CloseUnlock
  <1> DEFINE st == [worker[v] EXCEPT !.close = c]
  <1>1. worker[v] \in Managers /\ Shape /\ Held(v) /\ row \in [Migrations -> RowStates]
    BY DEF IInv, Shape
  <1>2. st \in Managers /\ Become(v, st)
    BY <1>0, <1>1 DEF Managers, CloseSteps
  <1>3. /\ worker'[v].at = worker[v].at /\ worker'[v].active = worker[v].active
        /\ worker'[v].cur = worker[v].cur
    BY <1>1, <1>2 DEF Become, Shape, Managers
  <1>4. \/ row' = row
        \/ m \in Migrations /\ row' = [row EXCEPT ![m].lease = "none"]
    <2>1. m \in Migrations \cup {None}
      BY <1>1 DEF Managers
    <2>2. CASE released
      BY <2>1, <2>2 DEF CloseUnlock
    <2>3. CASE ~released
      BY <2>3 DEF CloseUnlock
    <2> QED
      BY <2>2, <2>3
  <1>5. /\ row' \in [Migrations -> RowStates] /\ RowStep(v)
        /\ \A n \in Migrations : row'[n].holder = row[n].holder /\ Pending(n)' = Pending(n)
    BY <1>1, <1>4 DEF RowStep, RowStates, Pending
  <1>6. ASSUME NEW n \in Migrations
        PROVE  /\ Runnable(v, n)' = Runnable(v, n)
               /\ (Owns(v, n) => Pending(n))' = (Owns(v, n) => Pending(n))
    BY <1>5 DEF Runnable, Owns
  <1>7. Held(v)'
    BY <1>1, <1>3, <1>6 DEF Held, At, Managers
  <1> QED
    BY <1>2, <1>5, <1>7, OthersUndisturbed

LEMMA CloseClearStep == ASSUME IInv, NEW v \in Workers, CloseClear(v) PROVE IInv'
PROOF
  <1> DEFINE st == [worker[v] EXCEPT !.active = None,
                          !.close = IF worker[v].active = None THEN "threw" ELSE "closed"]
  <1>1. worker[v] \in Managers /\ Shape /\ Held(v)
    BY DEF IInv, Shape
  <1>2. st \in Managers /\ Become(v, st) /\ UNCHANGED row
    BY <1>1 DEF CloseClear, Go, Managers, Places, CloseSteps, None
  <1>3. worker'[v] = st
    BY <1>1, <1>2 DEF Become, Shape
  <1>4. Held(v)'
    BY <1>1, <1>2, <1>3 DEF CloseClear, Held, At, Runnable, Managers, None, Owns, Pending
  <1> QED
    BY <1>2, <1>4, OthersUndisturbedNoRow

LEMMA KillStep == ASSUME IInv, NEW v \in Workers, Kill(v) PROVE IInv'
PROOF
  <1> DEFINE st == [Fresh EXCEPT !.at = "dead"]
  <1>1. worker[v] \in Managers /\ Shape /\ Held(v)
    BY DEF IInv, Shape
  <1>2. st \in Managers /\ Become(v, st) /\ UNCHANGED row
    BY <1>1 DEF Kill, Go, Managers, Places, CloseSteps, None, Fresh
  <1>3. worker'[v] = st
    BY <1>1, <1>2 DEF Become, Shape
  <1>4. Held(v)'
    BY <1>1, <1>2, <1>3 DEF Kill, Fresh, Held, At, Runnable, Managers, None, Owns, Pending
  <1> QED
    BY <1>2, <1>4, OthersUndisturbedNoRow

LEMMA RestartStep == ASSUME IInv, NEW v \in Workers, Restart(v) PROVE IInv'
PROOF
  <1> DEFINE st == Fresh
  <1>1. worker[v] \in Managers /\ Shape /\ Held(v)
    BY DEF IInv, Shape
  <1>2. st \in Managers /\ Become(v, st) /\ UNCHANGED row
    BY <1>1 DEF Restart, Go, Managers, Places, CloseSteps, None, Fresh
  <1>3. worker'[v] = st
    BY <1>1, <1>2 DEF Become, Shape
  <1>4. Held(v)'
    BY <1>1, <1>2, <1>3 DEF Restart, Fresh, Held, At, Runnable, Managers, None, Owns, Pending
  <1> QED
    BY <1>2, <1>4, OthersUndisturbedNoRow

(* Retrying makes a row pending; expiry touches leases only.               *)
LEMMA OutsideStep ==
    ASSUME IInv, NEW m \in Migrations, Retry(m) \/ Expire(m) PROVE IInv'
PROOF
  <1>1. Shape /\ row \in [Migrations -> RowStates] /\ UNCHANGED worker
    BY DEF IInv, Shape, Retry, Expire
  <1>2. /\ row' \in [Migrations -> RowStates]
        /\ \A n \in Migrations : row'[n].holder = row[n].holder /\ (Pending(n) => Pending(n)')
    <2>1. CASE row' = [row EXCEPT ![m].failed = FALSE, ![m].finished = FALSE]
      BY <1>1, <2>1 DEF RowStates, Pending
    <2>2. CASE row' = [row EXCEPT ![m].lease = "stale"]
      BY <1>1, <2>2 DEF RowStates, Pending
    <2> QED
      BY <2>1, <2>2 DEF Retry, Expire
  <1>3. ASSUME NEW w \in Workers PROVE Held(w)'
    <2>1. Held(w) /\ worker[w] \in Managers
      BY <1>1 DEF IInv, Shape
    <2>2. ASSUME NEW n \in Migrations
          PROVE  /\ Runnable(w, n) => Runnable(w, n)'
                 /\ (Owns(w, n) => Pending(n)) => (Owns(w, n) => Pending(n))'
      BY <1>2 DEF Runnable, Owns
    <2> QED
      BY <1>1, <2>1, <2>2 DEF Held, At, Managers
  <1> QED
    BY <1>1, <1>2, <1>3 DEF IInv, Shape

(* Where a throw leaves v: out of the loop, or, from inside the try, in the *)
(* catch block.                                                            *)
Thrown(v, st) ==
    /\ st \in Managers /\ Become(v, st) /\ worker'[v] = st /\ UNCHANGED done
    /\ st.cur = worker[v].cur /\ st.chains = worker[v].chains
    /\ st.close = worker[v].close /\ st.more = worker[v].more
    /\ st.aborted => worker[v].aborted
    /\ \/ /\ st.at = "rejected"
          /\ worker[v].at \in {"pick", "beat", "validate", "invalid", "fail"}
       \/ st.at = "fail" /\ At(v, "finish") /\ st.active = worker[v].active

LEMMA ThrownTo ==
    ASSUME Shape, NEW v \in Workers, Throws(v)
    PROVE  \E st : Thrown(v, st)
PROOF
  <1>1. worker[v] \in Managers /\ UNCHANGED done
    BY DEF Shape, Throws
  <1>2. ASSUME NEW place, Go(v, place),
               \/ /\ place = "rejected"
                  /\ worker[v].at \in {"pick", "beat", "validate", "invalid", "fail"}
               \/ place = "fail" /\ At(v, "finish")
        PROVE  \E st : Thrown(v, st)
    <2> DEFINE st == [worker[v] EXCEPT !.at = place]
    <2>1. st \in Managers /\ Become(v, st)
      BY <1>1, <1>2 DEF Go, Managers, Places
    <2>2. /\ worker'[v] = st /\ st.at = place
          /\ st.cur = worker[v].cur /\ st.chains = worker[v].chains
          /\ st.close = worker[v].close /\ st.more = worker[v].more
          /\ st.aborted = worker[v].aborted /\ st.active = worker[v].active
      BY <1>1, <2>1 DEF Become, Shape, Managers
    <2> HIDE DEF st
    <2> QED
      BY <1>1, <1>2, <2>1, <2>2 DEF Thrown
  <1>3. ASSUME NEW m \in Candidates(v), At(v, "pick"),
               Become(v, [worker[v] EXCEPT !.at = "rejected", !.active = m, !.aborted = FALSE])
        PROVE  \E st : Thrown(v, st)
    <2> DEFINE st == [worker[v] EXCEPT !.at = "rejected", !.active = m, !.aborted = FALSE]
    <2>1. m \in Migrations
      BY EnabledAssumption DEF Candidates
    <2>2. st \in Managers /\ Become(v, st)
      BY <1>1, <1>3, <2>1 DEF Managers, Places
    <2>3. /\ worker'[v] = st /\ st.at = "rejected" /\ ~st.aborted
          /\ st.cur = worker[v].cur /\ st.chains = worker[v].chains
          /\ st.close = worker[v].close /\ st.more = worker[v].more
      BY <1>1, <2>2 DEF Become, Shape, Managers
    <2> HIDE DEF st
    <2> QED
      BY <1>1, <1>3, <2>2, <2>3 DEF Thrown, At
  <1>4. CASE PickThrows(v)
    BY <1>2, <1>3, <1>4 DEF PickThrows, Reject, At
  <1>5. CASE FirstBeatThrows(v) \/ ValidateThrows(v)
    BY <1>2, <1>5 DEF FirstBeatThrows, ValidateThrows, Reject, At
  <1>6. CASE VerdictThrows(v)
    BY <1>2, <1>6 DEF VerdictThrows, Reject, At
  <1> QED
    BY <1>4, <1>5, <1>6 DEF Throws

(* What it leaves in the rows: nothing, or what the query that threw did   *)
(* before its answer was lost.                                             *)
Taken(v, m) == row' = [row EXCEPT ![m].holder = v, ![m].lease = "fresh"]

LEMMA ThrownRows ==
    ASSUME IInv, NEW v \in Workers, Throws(v)
    PROVE  \/ UNCHANGED row
           \/ /\ At(v, "pick")
              /\ \E m \in Candidates(v) : /\ \A n \in Candidates(v) : m <= n
                                          /\ row[m].lease # "fresh" /\ Taken(v, m)
           \/ At(v, "beat") /\ row' = Renewed(v)
           \/ /\ worker[v].cur \in Migrations /\ Owns(v, worker[v].cur)
              /\ \/ worker[v].at \in {"invalid", "fail"} /\ Fail(worker[v].cur)
                 \/ At(v, "finish") /\ Finish(worker[v].cur)
PROOF
  <1>1. worker[v].at \in {"invalid", "finish", "fail"} => worker[v].cur \in Migrations
    BY DEF IInv, Shape, Managers, Held
  <1>2. CASE PickThrows(v)
    BY <1>2 DEF PickThrows, Taken
  <1>3. CASE FirstBeatThrows(v) \/ ValidateThrows(v)
    BY <1>3 DEF FirstBeatThrows, ValidateThrows
  <1>4. CASE VerdictThrows(v)
    BY <1>1, <1>4 DEF VerdictThrows, At
  <1> QED
    BY <1>2, <1>3, <1>4 DEF Throws

LEMMA TakenRows ==
    ASSUME Shape, NEW v \in Workers, NEW m \in Migrations, Taken(v, m)
    PROVE  /\ row' \in [Migrations -> RowStates] /\ RowStep(v)
           /\ row'[m].holder = v /\ row'[m].lease = "fresh"
           /\ \A n \in Migrations \ {m} : row'[n] = row[n]
           /\ \A n \in Migrations : /\ row'[n].finished = row[n].finished
                                    /\ row'[n].failed = row[n].failed
PROOF
  <1> DEFINE taken == [row[m] EXCEPT !.holder = v, !.lease = "fresh"]
  <1>1. row \in [Migrations -> RowStates] /\ row' = [row EXCEPT ![m] = taken]
    BY DEF Shape, Taken
  <1>2. row[m] \in RowStates
    BY <1>1
  <1>3. /\ taken \in RowStates /\ taken.holder = v /\ taken.lease = "fresh"
        /\ taken.finished = row[m].finished /\ taken.failed = row[m].failed
    BY <1>2 DEF RowStates
  <1> HIDE DEF taken
  <1> QED
    BY <1>1, <1>3 DEF RowStep

LEMMA SettledRow ==
    ASSUME Shape, NEW m \in Migrations, Fail(m) \/ Finish(m)
    PROVE  /\ ~Pending(m)'
           /\ \A n \in Migrations \ {m} : row'[n] = row[n]
           /\ \A n \in Migrations : row'[n].finished => row[n].finished \/ (n = m /\ Finish(m))
           /\ \A n \in Migrations : Pending(n)' => Pending(n)
PROOF
  <1>1. row \in [Migrations -> RowStates]
    BY DEF Shape
  <1>2. \A n \in Migrations \ {m} : row'[n] = row[n]
    BY <1>1 DEF Fail, Finish
  <1>3. ~Pending(m)' /\ (row'[m].finished => row[m].finished \/ Finish(m))
    <2>1. CASE Fail(m)
      BY <1>1, <2>1 DEF Fail, Pending, RowStates
    <2>2. CASE Finish(m)
      <3>1. row'[m].finished
        BY <1>1, <2>2 DEF Finish, RowStates
      <3> QED
        BY <2>2, <3>1 DEF Pending
    <2> QED
      BY <2>1, <2>2
  <1> QED
    BY <1>2, <1>3 DEF Pending

LEMMA ThrownRowStep ==
    ASSUME IInv, NEW v \in Workers, Throws(v)
    PROVE  /\ row' \in [Migrations -> RowStates] /\ RowStep(v)
           /\ \A m \in Migrations : Pending(m)' => Pending(m)
PROOF
  <1>1. Shape /\ row \in [Migrations -> RowStates]
    BY DEF IInv, Shape
  <1>2. CASE UNCHANGED row
    BY <1>1, <1>2 DEF RowStep, RowStates, Pending
  <1>3. ASSUME NEW m \in Candidates(v), Taken(v, m)
        PROVE  /\ row' \in [Migrations -> RowStates] /\ RowStep(v)
               /\ \A n \in Migrations : Pending(n)' => Pending(n)
    <2>1. m \in Migrations
      BY EnabledAssumption DEF Candidates
    <2> QED
      BY <1>1, <1>3, <2>1, TakenRows DEF Pending
  <1>4. CASE row' = Renewed(v)
    BY <1>1, <1>4, RenewedRows
  <1>5. ASSUME NEW m \in Migrations, Owns(v, m), Fail(m) \/ Finish(m)
        PROVE  /\ row' \in [Migrations -> RowStates] /\ RowStep(v)
               /\ \A n \in Migrations : Pending(n)' => Pending(n)
    BY <1>1, <1>5, SettledRows, SettledRow
  <1> QED
    BY <1>2, <1>3, <1>4, <1>5, ThrownRows

LEMMA ThrowsStep == ASSUME IInv, NEW v \in Workers, Throws(v) PROVE IInv'
PROOF
  <1>1. Shape /\ Held(v)
    BY DEF IInv
  <1>2. PICK st : Thrown(v, st)
    BY <1>1, ThrownTo
  <1>3. Held(v)'
    BY <1>1, <1>2 DEF Thrown, Held, At
  <1> QED
    BY <1>2, <1>3, ThrownRowStep, OthersUndisturbed DEF Thrown

LEMMA NextStep == IInv /\ [Next]_vars => IInv'
PROOF
  <1> SUFFICES ASSUME IInv, [Next]_vars PROVE IInv'
    OBVIOUS
  <1>1. CASE UNCHANGED vars
    BY <1>1 DEF vars, IInv, Shape, Held, At, Runnable, Owns, Pending
  <1>2. ASSUME NEW v \in Workers, RunStep(v) PROVE IInv'
    <2>1. RunCompletes(v) \/ RunAborts(v) => IInv'
      BY ReturnedStep DEF RunCompletes, RunAborts
    <2> QED
      BY <1>2, <2>1, PickStep, FirstBeatStep, ValidateStep, MarkInvalidStep,
         RunThrowsStep, MarkFinishedStep, MarkFailedStep DEF RunStep
  <1>3. ASSUME NEW v \in Workers, HeartBeat(v) \/ CloseAbort(v) \/ CloseStep(v)
        PROVE  IInv'
    BY <1>3, HeartBeatStep, CloseAbortStep, CloseUnlockStep, CloseClearStep DEF CloseStep
  <1>4. ASSUME NEW v \in Workers, Kill(v) \/ Restart(v) \/ Throws(v) PROVE IInv'
    BY <1>4, KillStep, RestartStep, ThrowsStep
  <1> QED
    BY <1>1, <1>2, <1>3, <1>4, OutsideStep DEF Next

-----------------------------------------------------------------------------
(* The verdict on a migration is never written under its holder's run: a   *)
(* manager that lost its lease, was closed or came back late cannot finish *)
(* or fail the row another one runs.                                       *)
THEOREM VerdictsAreFenced == Spec => []NotSettledUnderHolder
PROOF
  <1>1. IInv => NotSettledUnderHolder
    BY DEF IInv, Held, NotSettledUnderHolder
  <1> QED
    BY InitHolds, NextStep, <1>1, PTL DEF Spec

-----------------------------------------------------------------------------
(* What the counters of outside events tell.                               *)

EventsOK == events \in [kill : Nat, close : Nat, retry : Nat, stall : Nat, throw : Nat]

Kinds == {"kill", "close", "retry", "stall", "throw"}

LEMMA CountStep ==
    ASSUME EventsOK, NEW kind \in Kinds, Count(kind)
    PROVE  EventsOK' /\ events'[kind] = events[kind] + 1
                     /\ \A k \in Kinds : events'[k] >= events[k]
PROOF BY DEF EventsOK, Count, Kinds

LEMMA EventsStep ==
    ASSUME EventsOK, [Next]_vars
    PROVE  /\ EventsOK'
           /\ events'.kill >= events.kill /\ events'.close >= events.close
           /\ events'.retry >= events.retry /\ events'.stall >= events.stall
PROOF
  <1>1. CASE UNCHANGED events
    BY <1>1 DEF EventsOK
  <1>2. CASE \E kind \in Kinds : Count(kind)
    BY <1>2, CountStep DEF Kinds
  <1>3. ASSUME NEW v \in Workers, RunStep(v) \/ HeartBeat(v) \/ CloseStep(v) \/ Restart(v)
        PROVE  UNCHANGED events
    BY <1>3 DEF RunStep, HeartBeat, CloseStep, Restart, Pick, FirstBeat, Validate, MarkInvalid,
                RunCompletes, RunAborts, RunThrows, MarkFinished, MarkFailed, CloseUnlock, CloseClear
  <1>4. ASSUME NEW v \in Workers, CloseAbort(v) \/ Kill(v) \/ Throws(v)
        PROVE  Count("close") \/ Count("kill") \/ Count("throw")
    BY <1>4 DEF CloseAbort, Kill, Throws
  <1>5. ASSUME NEW m \in Migrations, Retry(m) \/ Expire(m)
        PROVE  Count("retry") \/ Count("stall") \/ UNCHANGED events
    BY <1>5 DEF Retry, Expire
  <1>6. UNCHANGED events \/ \E kind \in Kinds : Count(kind)
    BY <1>3, <1>4, <1>5 DEF Next, vars, Kinds
  <1> QED
    BY <1>1, <1>2, <1>6

(* Calm lasts only as long as nothing happened that ends it.               *)
LEMMA CalmBefore == ASSUME EventsOK, [Next]_vars, Calm' PROVE Calm
PROOF
  <1>1. /\ events'.close >= events.close /\ events'.retry >= events.retry
        /\ events'.stall >= events.stall
        /\ events.close \in Nat /\ events.retry \in Nat /\ events.stall \in Nat
    BY EventsStep DEF EventsOK
  <1> QED
    BY <1>1 DEF Calm

LEMMA EventsAlways == Spec => []EventsOK
PROOF
  <1>1. Init => EventsOK
    BY DEF Init, EventsOK
  <1>2. EventsOK /\ [Next]_vars => EventsOK'
    BY EventsStep
  <1> QED
    BY <1>1, <1>2, PTL DEF Spec

(* The invariant of the first theorem, for the others to use.              *)
LEMMA IInvAlways == Spec => []IInv
PROOF BY InitHolds, NextStep, PTL DEF Spec

-----------------------------------------------------------------------------
(* A finished migration was done.                                          *)

(* Without a close no run is aborted, so a worker about to mark its row    *)
(* finished has seen the migration come to its end.                        *)
DoneBy(w) == ~worker[w].aborted /\ (At(w, "finish") => worker[w].cur \in done)

DoneInv == events.close = 0 => FinishedWasDone /\ \A w \in Workers : DoneBy(w)

(* What a step of v owes: its manager as asked, no row finished unless its *)
(* migration is done.                                                      *)
LEMMA DoneByOthers ==
    ASSUME Shape, NEW v \in Workers, NEW st, Become(v, st), FinishedWasDone,
           \A w \in Workers : DoneBy(w), events.close = 0,
           ~st.aborted, st.at = "finish" => st.cur \in done', done \subseteq done',
           \A m \in Migrations : row'[m].finished => row[m].finished \/ m \in done'
    PROVE  FinishedWasDone' /\ \A w \in Workers : DoneBy(w)'
PROOF
  <1>1. FinishedWasDone'
    BY DEF FinishedWasDone
  <1>2. ASSUME NEW w \in Workers PROVE DoneBy(w)'
    <2>1. CASE w = v
      <3>1. worker'[v] = st
        BY DEF Become, Shape
      <3> QED
        BY <2>1, <3>1 DEF DoneBy, At
    <2>2. CASE w # v
      <3>1. worker'[w] = worker[w] /\ DoneBy(w)
        BY <2>2 DEF Become, Shape
      <3> QED
        BY <3>1 DEF DoneBy, At
    <2> QED
      BY <2>1, <2>2
  <1> QED
    BY <1>1, <1>2

LEMMA DoneRunStep ==
    ASSUME Shape, NEW v \in Workers, RunStep(v) \/ HeartBeat(v), FinishedWasDone,
           \A w \in Workers : DoneBy(w), events.close = 0
    PROVE  FinishedWasDone' /\ \A w \in Workers : DoneBy(w)'
PROOF
  <1>1. worker[v] \in Managers /\ row \in [Migrations -> RowStates] /\ ~worker[v].aborted
    BY DEF Shape, DoneBy
  <1>2. CASE Pick(v)
    <2> PICK st : /\ Become(v, st)
                  /\ \/ \E m \in Migrations : st = [worker[v] EXCEPT !.at = "beat", !.active = m, !.aborted = FALSE]
                     \/ st = [worker[v] EXCEPT !.more = FALSE,
                                !.at = IF worker[v].active = None THEN "stopped" ELSE "beat"]
      BY <1>2, EnabledAssumption DEF Pick, Acquire, NothingToRun, Candidates
    <2>1. ~st.aborted /\ st.at # "finish"
      BY <1>1 DEF Managers
    <2>2. done' = done /\ \A m \in Migrations : row'[m].finished => row[m].finished
      <3>1. \/ UNCHANGED row
            \/ \E m \in Migrations : row' = [row EXCEPT ![m].holder = v, ![m].lease = "fresh"]
        BY <1>2, EnabledAssumption DEF Pick, Acquire, NothingToRun, Candidates
      <3>2. ASSUME NEW m \in Migrations, row' = [row EXCEPT ![m].holder = v, ![m].lease = "fresh"]
            PROVE  \A n \in Migrations : row'[n].finished = row[n].finished
        <4>1. row' = [row EXCEPT ![m] = [row[m] EXCEPT !.holder = v, !.lease = "fresh"]]
          BY <1>1, <3>2
        <4>2. [row[m] EXCEPT !.holder = v, !.lease = "fresh"].finished = row[m].finished
          BY <1>1 DEF RowStates
        <4> QED
          BY <1>1, <4>1, <4>2
      <3>3. done' = done
        BY <1>2 DEF Pick
      <3> QED
        BY <3>1, <3>2, <3>3
    <2> QED
      BY <2>1, <2>2, DoneByOthers
  <1>3. CASE FirstBeat(v) \/ HeartBeat(v)
    <2>1. done' = done /\ row' = Renewed(v)
      BY <1>3 DEF FirstBeat, HeartBeat
    <2>2. \A m \in Migrations : row'[m].finished => row[m].finished
      BY <1>1, <2>1 DEF Renewed, RowStates
    <2>3. CASE FirstBeat(v)
      <3> DEFINE st == IF worker[v].active = None
                       THEN [worker[v] EXCEPT !.at = "rejected"]
                       ELSE [worker[v] EXCEPT !.at = "validate", !.chains = @ + 1,
                                              !.cur = worker[v].active]
      <3>1. Become(v, st)
        BY <2>3 DEF FirstBeat, Go
      <3>2. ~st.aborted /\ st.at # "finish"
        BY <1>1 DEF Managers
      <3> HIDE DEF st
      <3> QED
        BY <2>1, <2>2, <3>1, <3>2, DoneByOthers
    <2>4. CASE HeartBeat(v)
      <3> DEFINE st == [worker[v] EXCEPT !.chains = IF worker[v].active = None THEN @ - 1 ELSE @]
      <3>1. Become(v, st)
        BY <2>4 DEF HeartBeat
      <3>2. ~st.aborted /\ st.at = worker[v].at /\ st.cur = worker[v].cur
        BY <1>1 DEF Managers
      <3>3. worker[v].at = "finish" => worker[v].cur \in done
        BY DEF DoneBy, At
      <3> HIDE DEF st
      <3> QED
        BY <2>1, <2>2, <3>1, <3>2, <3>3, DoneByOthers
    <2> QED
      BY <1>3, <2>3, <2>4
  <1>4. ASSUME NEW place \in Places \ {"finish"}, Go(v, place), UNCHANGED <<row, done>>
        PROVE  FinishedWasDone' /\ \A w \in Workers : DoneBy(w)'
    <2> DEFINE st == [worker[v] EXCEPT !.at = place]
    <2>1. Become(v, st) /\ ~st.aborted /\ st.at # "finish"
      BY <1>1, <1>4 DEF Go, Managers
    <2> QED
      BY <1>4, <2>1, DoneByOthers
  <1>5. ASSUME Returned(v), At(v, "run"), UNCHANGED row, done' = done \cup {worker[v].cur}
        PROVE  FinishedWasDone' /\ \A w \in Workers : DoneBy(w)'
    <2> DEFINE st == IF worker[v].active # None
                     THEN [worker[v] EXCEPT !.at = "finish"]
                     ELSE Loop([worker[v] EXCEPT !.active = None])
    <2>1. Become(v, st)
      BY <1>5 DEF Returned, Go, NextIteration
    <2>2. ~st.aborted /\ (st.at = "finish" => st.cur = worker[v].cur)
      BY <1>1 DEF Managers, Loop
    <2> HIDE DEF st
    <2> QED
      BY <1>5, <2>1, <2>2, DoneByOthers
  <1>6. ASSUME NEW st \in {Loop(worker[v]), Loop([worker[v] EXCEPT !.active = None])},
               Become(v, st), UNCHANGED done,
               \A m \in Migrations : row'[m].finished => row[m].finished \/ m \in done
        PROVE  FinishedWasDone' /\ \A w \in Workers : DoneBy(w)'
    <2>1. ~st.aborted /\ st.at # "finish"
      BY <1>1, <1>6 DEF Managers, Loop
    <2> QED
      BY <1>6, <2>1, DoneByOthers
  <1>7. ASSUME NEW m, Fail(m)
        PROVE  \A n \in Migrations : row'[n].finished => row[n].finished
    BY <1>1, <1>7 DEF Fail, RowStates
  <1>8. CASE MarkInvalid(v)
    <2>1. \/ Fail(worker[v].cur) /\ Become(v, Loop(worker[v])) /\ UNCHANGED done
          \/ Go(v, "rejected") /\ UNCHANGED <<row, done>>
      BY <1>8 DEF MarkInvalid
    <2> QED
      BY <2>1, <1>4, <1>6, <1>7 DEF Places
  <1>9. CASE MarkFinished(v)
    <2>1. worker[v].cur \in done
      BY <1>9 DEF MarkFinished, DoneBy
    <2>2. \/ /\ Finish(worker[v].cur)
             /\ Become(v, Loop([worker[v] EXCEPT !.active = None])) /\ UNCHANGED done
          \/ Go(v, "fail") /\ UNCHANGED <<row, done>>
      BY <1>9 DEF MarkFinished, NextIteration
    <2>3. CASE Finish(worker[v].cur)
      <3>1. \A n \in Migrations : row'[n].finished => row[n].finished \/ n \in done
        BY <1>1, <2>1, <2>3 DEF Finish, RowStates
      <3> QED
        BY <2>2, <3>1, <1>4, <1>6 DEF Places
    <2> QED
      BY <2>2, <2>3, <1>4 DEF Places
  <1>10. CASE MarkFailed(v)
    <2>1. \/ Fail(worker[v].cur) /\ Become(v, Loop([worker[v] EXCEPT !.active = None])) /\ UNCHANGED done
          \/ Go(v, "rejected") /\ UNCHANGED <<row, done>>
      BY <1>10 DEF MarkFailed, NextIteration
    <2> QED
      BY <2>1, <1>4, <1>6, <1>7 DEF Places
  <1>11. CASE Validate(v)
    <2>1. (Go(v, "invalid") \/ Go(v, "run")) /\ UNCHANGED <<row, done>>
      BY <1>11 DEF Validate
    <2> QED
      BY <2>1, <1>4 DEF Places
  <1>12. CASE RunThrows(v)
    BY <1>4, <1>12 DEF RunThrows, Places
  <1>13. CASE RunCompletes(v)
    BY <1>5, <1>13 DEF RunCompletes
  <1>14. ~RunAborts(v)
    BY <1>1 DEF RunAborts
  <1> QED
    BY <1>2, <1>3, <1>8, <1>9, <1>10, <1>11, <1>12, <1>13, <1>14 DEF RunStep

LEMMA DoneThrows ==
    ASSUME IInv, NEW v \in Workers, Throws(v), FinishedWasDone,
           \A w \in Workers : DoneBy(w), events.close = 0
    PROVE  FinishedWasDone' /\ \A w \in Workers : DoneBy(w)'
PROOF
  <1>1. Shape /\ row \in [Migrations -> RowStates] /\ DoneBy(v)
    BY DEF IInv, Shape
  <1>2. PICK st : Thrown(v, st)
    BY <1>1, ThrownTo
  <1>3. ASSUME NEW m \in Migrations, row'[m].finished
        PROVE  row[m].finished \/ m \in done'
    <2>1. done' = done
      BY <1>2 DEF Thrown
    <2>2. CASE UNCHANGED row
      BY <1>3, <2>2
    <2>3. ASSUME NEW n \in Candidates(v), Taken(v, n) PROVE row[m].finished
      <3>1. n \in Migrations
        BY EnabledAssumption DEF Candidates
      <3> QED
        BY <1>1, <1>3, <2>3, <3>1, TakenRows
    <2>4. CASE row' = Renewed(v)
      BY <1>1, <1>3, <2>4 DEF Renewed, RowStates
    <2>5. CASE /\ worker[v].cur \in Migrations
               /\ Fail(worker[v].cur) \/ (At(v, "finish") /\ Finish(worker[v].cur))
      <3>1. row[m].finished \/ (m = worker[v].cur /\ Finish(m))
        BY <1>1, <1>3, <2>5, SettledRow
      <3>2. Fail(worker[v].cur) => row[worker[v].cur].finished = row'[worker[v].cur].finished
        BY <1>1, <2>5 DEF Fail, RowStates
      <3> QED
        BY <1>1, <1>3, <2>1, <2>5, <3>1, <3>2 DEF DoneBy
    <2> QED
      BY <2>2, <2>3, <2>4, <2>5, ThrownRows
  <1> QED
    BY <1>1, <1>2, <1>3, DoneByOthers DEF Thrown, DoneBy

LEMMA DoneNext == IInv /\ EventsOK /\ DoneInv /\ [Next]_vars => DoneInv'
PROOF
  <1> SUFFICES ASSUME IInv, EventsOK, DoneInv, [Next]_vars, events'.close = 0
               PROVE  FinishedWasDone' /\ \A w \in Workers : DoneBy(w)'
    BY DEF DoneInv
  <1>1. events.close = 0 /\ EventsOK'
    BY EventsStep DEF EventsOK
  <1>2. FinishedWasDone /\ \A w \in Workers : DoneBy(w)
    BY <1>1 DEF DoneInv
  <1>3. Shape /\ row \in [Migrations -> RowStates] /\ worker \in [Workers -> Managers]
    BY DEF IInv, Shape
  <1>4. ASSUME NEW v \in Workers, RunStep(v) \/ HeartBeat(v) \/ Throws(v)
        PROVE  FinishedWasDone' /\ \A w \in Workers : DoneBy(w)'
    BY <1>1, <1>2, <1>3, <1>4, DoneRunStep, DoneThrows
  <1>5. ASSUME NEW v \in Workers, NEW st, Become(v, st), UNCHANGED done,
               ~st.aborted, st.at = "finish" => st.cur \in done,
               \A m \in Migrations : row'[m].finished => row[m].finished
        PROVE  FinishedWasDone' /\ \A w \in Workers : DoneBy(w)'
    BY <1>1, <1>2, <1>3, <1>5, DoneByOthers
  <1>6. ASSUME NEW v \in Workers, Kill(v) \/ Restart(v)
        PROVE  FinishedWasDone' /\ \A w \in Workers : DoneBy(w)'
    <2>1. \E st \in {Fresh, [Fresh EXCEPT !.at = "dead"]} :
              Become(v, st) /\ UNCHANGED <<row, done>> /\ ~st.aborted /\ st.at # "finish"
      BY <1>6 DEF Kill, Restart, Fresh
    <2> QED
      BY <1>5, <2>1
  <1>7. ASSUME NEW v \in Workers PROVE ~CloseAbort(v)
    <2> SUFFICES ASSUME CloseAbort(v) PROVE FALSE
      OBVIOUS
    <2>1. events'.close = events.close + 1
      BY CountStep DEF Kinds, CloseAbort
    <2> QED
      BY <1>1, <2>1 DEF EventsOK
  <1>8. ASSUME NEW v \in Workers, CloseStep(v)
        PROVE  FinishedWasDone' /\ \A w \in Workers : DoneBy(w)'
    <2>1. ~worker[v].aborted /\ (worker[v].at = "finish" => worker[v].cur \in done)
      BY <1>2 DEF DoneBy, At
    <2>2. \A m \in Migrations : row'[m].finished => row[m].finished
      BY <1>3, <1>8 DEF CloseStep, CloseUnlock, CloseClear, RowStates
    <2>3. CASE CloseUnlock(v)
      <3>1. \E c \in {"clear", "threw"} : Become(v, [worker[v] EXCEPT !.close = c])
        BY <2>3 DEF CloseUnlock
      <3>2. PICK c \in {"clear", "threw"} : Become(v, [worker[v] EXCEPT !.close = c])
        BY <3>1
      <3> DEFINE st == [worker[v] EXCEPT !.close = c]
      <3>3. st.aborted = worker[v].aborted /\ st.at = worker[v].at /\ st.cur = worker[v].cur
        BY <1>3 DEF Managers
      <3>4. Become(v, st) /\ UNCHANGED done
        BY <2>3, <3>2 DEF CloseUnlock
      <3> HIDE DEF st
      <3> QED
        BY <1>5, <2>1, <2>2, <3>3, <3>4
    <2>4. CASE CloseClear(v)
      <3> DEFINE st == [worker[v] EXCEPT !.active = None,
                            !.close = IF worker[v].active = None THEN "threw" ELSE "closed"]
      <3>1. st.aborted = worker[v].aborted /\ st.at = worker[v].at /\ st.cur = worker[v].cur
        BY <1>3 DEF Managers
      <3>2. Become(v, st) /\ UNCHANGED done
        BY <2>4 DEF CloseClear
      <3> HIDE DEF st
      <3> QED
        BY <1>5, <2>1, <2>2, <3>1, <3>2
    <2> QED
      BY <1>8, <2>3, <2>4 DEF CloseStep
  <1>9. ASSUME NEW m \in Migrations, Retry(m) \/ Expire(m)
        PROVE  FinishedWasDone' /\ \A w \in Workers : DoneBy(w)'
    <2>1. /\ UNCHANGED <<worker, done>>
          /\ \A n \in Migrations : row'[n].finished => row[n].finished
      BY <1>3, <1>9 DEF Retry, Expire, RowStates
    <2> QED
      BY <1>1, <1>2, <2>1 DEF FinishedWasDone, DoneBy, At
  <1>10. CASE UNCHANGED vars
    BY <1>2, <1>10 DEF vars, FinishedWasDone, DoneBy, At
  <1> QED
    BY <1>4, <1>6, <1>7, <1>8, <1>9, <1>10 DEF Next

(* Whatever is killed, stalls, takes over or is retried: a migration is    *)
(* marked finished only after some run of it came to its own end, as long  *)
(* as no manager was closed.                                               *)
THEOREM FinishedWasDoneHolds == Spec => []FinishedWasDone
PROOF
  <1>1. Init => DoneInv
    BY DEF Init, DoneInv, FinishedWasDone, DoneBy, At, Fresh
  <1>2. DoneInv => FinishedWasDone
    BY DEF DoneInv, FinishedWasDone
  <1> QED
    BY <1>1, <1>2, DoneNext, EventsAlways, IInvAlways, PTL DEF Spec

-----------------------------------------------------------------------------
(* One migration at a time.  Nobody may pass over a locked row, so the row *)
(* a worker holds is the first pending one for everybody: the lock of one  *)
(* row is the lock of all of them, if every worker sees the same rows.     *)

SameGates == \A v, w \in Workers : Enabled[v] = Enabled[w]

First(w, m) == \A n \in Enabled[w] : Pending(n) => m <= n

(* w has the lock on the first pending migration.                          *)
Locks(w, m) ==
    /\ m \in Enabled[w] /\ Pending(m) /\ First(w, m)
    /\ Owns(w, m) /\ row[m].lease = "fresh"

(* What an iteration that failed its validation leaves behind.             *)
Leftover(m) == m \in Invalid /\ ~Pending(m)

(* The migration of an iteration, by how far it came; in the catch block   *)
(* the row may be finished already, by the update whose answer was lost.   *)
InHand(w, place, m) ==
    \/ Locks(w, m)
    \/ place \in {"validate", "invalid"} /\ Leftover(m)
    \/ place = "fail" /\ ~Pending(m)

CalmWorker(w) ==
    /\ worker[w].close = "open"
    /\ At(w, "pick") => worker[w].active = None \/ Leftover(worker[w].active)
    /\ At(w, "beat") => /\ worker[w].active # None
                        /\ Locks(w, worker[w].active) \/ Leftover(worker[w].active)
    /\ worker[w].at \in Working =>
          /\ worker[w].cur # None /\ worker[w].active = worker[w].cur /\ worker[w].chains > 0
          /\ InHand(w, worker[w].at, worker[w].cur)
    /\ At(w, "invalid") => worker[w].cur \in Invalid

CalmInv == Calm => \A w \in Workers : CalmWorker(w)

(* Calm rows: nothing settled becomes pending, and locks of workers other  *)
(* than v hold.                                                            *)
CalmRows(v) ==
    /\ row' \in [Migrations -> RowStates]
    /\ \A m \in Migrations : Pending(m)' => Pending(m)
    /\ \A w \in Workers \ {v}, m \in Migrations :
          Locks(w, m) => row'[m].holder = row[m].holder /\ row'[m].lease = "fresh" /\ Pending(m)'

LEMMA LocksKept ==
    ASSUME Shape, NEW w \in Workers, NEW m \in Migrations, Locks(w, m),
           \A n \in Migrations : Pending(n)' => Pending(n),
           row'[m].holder = row[m].holder, row'[m].lease = "fresh", Pending(m)'
    PROVE  Locks(w, m)'
PROOF BY EnabledAssumption DEF Locks, First, Owns

LEMMA CalmOthers ==
    ASSUME Shape, \A w \in Workers : CalmWorker(w), NEW v \in Workers, NEW st,
           Become(v, st), CalmRows(v), CalmWorker(v)'
    PROVE  \A w \in Workers : CalmWorker(w)'
PROOF
  <1> SUFFICES ASSUME NEW w \in Workers, w # v PROVE CalmWorker(w)'
    OBVIOUS
  <1>1. worker'[w] = worker[w] /\ worker[w] \in Managers /\ CalmWorker(w)
    BY DEF Become, Shape
  <1>2. ASSUME NEW m \in Migrations
        PROVE  /\ Locks(w, m) => Locks(w, m)'
               /\ Leftover(m) => Leftover(m)'
               /\ \A place : InHand(w, place, m) => InHand(w, place, m)'
    BY LocksKept DEF CalmRows, Leftover, InHand
  <1>3. worker[w].active \in Migrations \cup {None} /\ worker[w].cur \in Migrations \cup {None}
    BY <1>1 DEF Managers
  <1>4. At(w, "pick") => (worker[w].active = None \/ Leftover(worker[w].active)')
    BY <1>1, <1>2, <1>3 DEF CalmWorker
  <1>5. At(w, "beat") => Locks(w, worker[w].active)' \/ Leftover(worker[w].active)'
    BY <1>1, <1>2, <1>3 DEF CalmWorker
  <1>6. worker[w].at \in Working => InHand(w, worker[w].at, worker[w].cur)'
    BY <1>1, <1>2, <1>3 DEF CalmWorker
  <1> QED
    BY <1>1, <1>4, <1>5, <1>6 DEF CalmWorker, At

(* Steps that leave the rows alone leave them calm.                        *)
LEMMA CalmRowsSame ==
    ASSUME Shape, NEW v \in Workers, UNCHANGED row PROVE CalmRows(v)
PROOF BY DEF Shape, CalmRows, Pending, Locks

(* Two locks are one: both are on the first pending migration.             *)
LEMMA LocksAgree ==
    ASSUME SameGates, NEW v \in Workers, NEW w \in Workers,
           NEW m \in Migrations, NEW n \in Migrations, Pending(m), First(v, m), m \in Enabled[v],
           Locks(w, n)
    PROVE  m = n
PROOF
  <1>1. m \in Nat /\ n \in Nat
    BY MigrationsAssumption
  <1>2. Enabled[v] = Enabled[w]
    BY DEF SameGates
  <1>3. m <= n /\ n <= m
    BY <1>2 DEF First, Locks
  <1> QED
    BY <1>1, <1>3

(* A free row may be taken: nobody locks it, and hence nobody any row.     *)
LEMMA CalmTaken ==
    ASSUME SameGates, Shape, NEW v \in Workers, NEW m \in Candidates(v),
           \A n \in Candidates(v) : m <= n, row[m].lease # "fresh", Taken(v, m)
    PROVE  /\ m \in Migrations /\ m # None
           /\ CalmRows(v) /\ Locks(v, m)'
PROOF
  <1>1. m \in Migrations /\ m \in Enabled[v] /\ Pending(m) /\ First(v, m) /\ m # None
    BY EnabledAssumption, NoneAssumption DEF Candidates, First
  <1>2. /\ row' \in [Migrations -> RowStates]
        /\ row'[m].holder = v /\ row'[m].lease = "fresh"
        /\ \A n \in Migrations : Pending(n)' <=> Pending(n)
    BY <1>1, TakenRows DEF Pending
  <1>3. ASSUME NEW w \in Workers, NEW n \in Migrations, Locks(w, n) PROVE FALSE
    <2>1. m = n
      BY <1>1, <1>3, LocksAgree
    <2> QED
      BY <1>3, <2>1 DEF Locks
  <1>4. CalmRows(v)
    BY <1>2, <1>3 DEF CalmRows
  <1>5. Locks(v, m)'
    BY <1>1, <1>2, EnabledAssumption DEF Locks, First, Owns
  <1> QED
    BY <1>1, <1>4, <1>5

LEMMA CalmPick ==
    ASSUME SameGates, Shape, \A w \in Workers : CalmWorker(w), NEW v \in Workers, Pick(v)
    PROVE  \A w \in Workers : CalmWorker(w)'
PROOF
  <1>1. /\ worker[v] \in Managers /\ row \in [Migrations -> RowStates]
        /\ CalmWorker(v) /\ At(v, "pick")
    BY DEF Shape, Pick
  <1>2. ASSUME NEW m \in Candidates(v), \A n \in Candidates(v) : m <= n,
               row[m].lease # "fresh", Acquire(v, m)
        PROVE  \A w \in Workers : CalmWorker(w)'
    <2> DEFINE st == [worker[v] EXCEPT !.at = "beat", !.active = m, !.aborted = FALSE]
    <2>1. Taken(v, m) /\ Become(v, st)
      BY <1>2 DEF Acquire, Taken
    <2>2. m # None /\ CalmRows(v) /\ Locks(v, m)'
      BY <1>2, <2>1, CalmTaken
    <2>3. worker'[v] = st /\ st.at = "beat" /\ st.active = m /\ st.close = worker[v].close
      BY <1>1, <2>1 DEF Become, Shape, Managers
    <2> HIDE DEF st
    <2>4. CalmWorker(v)'
      BY <1>1, <2>2, <2>3 DEF CalmWorker, At, Working
    <2> QED
      BY <2>1, <2>2, <2>4, CalmOthers
  <1>3. ASSUME NothingToRun(v)
        PROVE  \A w \in Workers : CalmWorker(w)'
    <2> DEFINE st == [worker[v] EXCEPT !.more = FALSE,
                          !.at = IF worker[v].active = None THEN "stopped" ELSE "beat"]
    <2>1. Become(v, st) /\ UNCHANGED row /\ CalmRows(v)
      BY <1>3, CalmRowsSame DEF NothingToRun
    <2>2. /\ worker'[v] = st /\ st.active = worker[v].active /\ st.close = worker[v].close
          /\ st.at = IF worker[v].active = None THEN "stopped" ELSE "beat"
      BY <1>1, <2>1 DEF Become, Shape, Managers
    <2> HIDE DEF st
    <2>3. Leftover(worker[v].active) => Leftover(worker[v].active)'
      BY <2>1, <2>2 DEF Leftover, Pending
    <2>4. CalmWorker(v)'
      BY <1>1, <2>2, <2>3 DEF CalmWorker, At, Working
    <2> QED
      BY <2>1, <2>4, CalmOthers
  <1> QED
    BY <1>2, <1>3 DEF Pick

(* Heartbeats disturb nobody and keep the sender's lock.                   *)
LEMMA CalmRenewed ==
    ASSUME Shape, NEW v \in Workers, row' = Renewed(v)
    PROVE  /\ CalmRows(v)
           /\ \A w \in Workers, m \in Migrations : (Locks(w, m) => Locks(w, m)')
           /\ \A m \in Migrations : Leftover(m) => Leftover(m)'
           /\ \A w \in Workers, m \in Migrations, place \in Places :
                 InHand(w, place, m) => InHand(w, place, m)'
PROOF
  <1>1. /\ row' \in [Migrations -> RowStates]
        /\ \A m \in Migrations : row'[m].holder = row[m].holder /\ Pending(m)' = Pending(m)
    BY RenewedRows
  <1>2. \A m \in Migrations : row[m].lease = "fresh" => row'[m].lease = "fresh"
    BY DEF Renewed, Shape, RowStates
  <1>3. \A w \in Workers, m \in Migrations :
            Locks(w, m) => row'[m].holder = row[m].holder /\ row'[m].lease = "fresh" /\ Pending(m)'
    BY <1>1, <1>2 DEF Locks
  <1>4. CalmRows(v)
    BY <1>1, <1>3 DEF CalmRows
  <1>5. \A w \in Workers, m \in Migrations : (Locks(w, m) => Locks(w, m)')
    BY <1>1, <1>3, LocksKept
  <1> QED
    BY <1>1, <1>4, <1>5 DEF Leftover, InHand

LEMMA CalmBeats ==
    ASSUME Shape, \A w \in Workers : CalmWorker(w), NEW v \in Workers, FirstBeat(v) \/ HeartBeat(v)
    PROVE  \A w \in Workers : CalmWorker(w)'
PROOF
  <1>1. worker[v] \in Managers /\ CalmWorker(v) /\ row' = Renewed(v)
    BY DEF Shape, FirstBeat, HeartBeat
  <1>2. /\ CalmRows(v)
        /\ \A m \in Migrations : /\ Locks(v, m) => Locks(v, m)'
                                 /\ Leftover(m) => Leftover(m)'
                                 /\ \A place \in Places : InHand(v, place, m) => InHand(v, place, m)'
    BY <1>1, CalmRenewed
  <1>3. worker[v].active \in Migrations \cup {None} /\ worker[v].cur \in Migrations \cup {None}
        /\ worker[v].chains \in Nat
    BY <1>1 DEF Managers
  <1>4. CASE FirstBeat(v)
    <2> DEFINE st == [worker[v] EXCEPT !.at = "validate", !.chains = @ + 1,
                                       !.cur = worker[v].active]
    <2>1. At(v, "beat") /\ worker[v].active # None
      BY <1>1, <1>4 DEF FirstBeat, CalmWorker
    <2>2. Become(v, st)
      BY <1>4, <2>1 DEF FirstBeat
    <2>3. /\ worker'[v] = st /\ st.at = "validate" /\ st.active = worker[v].active
          /\ st.cur = worker[v].active /\ st.close = worker[v].close /\ st.chains > 0
      BY <1>1, <1>3, <2>2 DEF Become, Shape, Managers
    <2>4. Locks(v, worker[v].active) \/ Leftover(worker[v].active)
      BY <1>1, <2>1 DEF CalmWorker
    <2> HIDE DEF st
    <2>5. InHand(v, "validate", worker[v].cur)'
      BY <1>2, <1>3, <2>1, <2>3, <2>4 DEF InHand
    <2>6. CalmWorker(v)'
      BY <1>1, <2>1, <2>3, <2>5 DEF CalmWorker, At, Working
    <2> QED
      BY <1>2, <2>2, <2>6, CalmOthers
  <1>5. CASE HeartBeat(v)
    <2> DEFINE st == [worker[v] EXCEPT !.chains = IF worker[v].active = None THEN @ - 1 ELSE @]
    <2>1. Become(v, st)
      BY <1>5 DEF HeartBeat
    <2>2. /\ worker'[v] = st /\ st.at = worker[v].at /\ st.active = worker[v].active
          /\ st.cur = worker[v].cur /\ st.close = worker[v].close
          /\ worker[v].active # None => st.chains = worker[v].chains
      BY <1>1, <1>3, <2>1 DEF Become, Shape, Managers
    <2> HIDE DEF st
    <2>3. /\ At(v, "pick") => worker[v].active = None \/ Leftover(worker[v].active)'
          /\ At(v, "beat") => Locks(v, worker[v].active)' \/ Leftover(worker[v].active)'
      BY <1>1, <1>2, <1>3, <2>2 DEF CalmWorker
    <2>4. worker[v].at \in Working => InHand(v, worker[v].at, worker[v].cur)'
      <3>1. \A place : /\ place = worker[v].at /\ InHand(v, place, worker[v].cur)'
                         => InHand(v, worker[v].at, worker[v].cur)'
        BY <2>2 DEF InHand
      <3>2. \A m : m = worker[v].cur => \A place : InHand(v, place, m)' => InHand(v, place, worker[v].cur)'
        BY <2>2 DEF InHand, Locks, Leftover, First, Pending, Owns
      <3>3. worker[v].at \in Places /\ (worker[v].at \in Working => worker[v].cur \in Migrations)
        BY <1>1, <1>3 DEF Managers, CalmWorker
      <3> QED
        BY <1>1, <1>2, <3>1, <3>2, <3>3 DEF CalmWorker
    <2>5. CalmWorker(v)'
      BY <1>1, <2>2, <2>3, <2>4 DEF CalmWorker, At
    <2> QED
      BY <1>2, <2>1, <2>5, CalmOthers
  <1> QED
    BY <1>4, <1>5

(* A worker that goes on with the row it locks, or leaves it, and a process *)
(* that dies or starts, leave the rows alone.                              *)
LEMMA CalmMoves ==
    ASSUME Shape, \A w \in Workers : CalmWorker(w), NEW v \in Workers,
           \/ Validate(v) \/ RunThrows(v) \/ Kill(v) \/ Restart(v)
           \/ At(v, "run") /\ Returned(v) /\ UNCHANGED row
    PROVE  \A w \in Workers : CalmWorker(w)'
PROOF
  <1>1. worker[v] \in Managers /\ CalmWorker(v)
    BY DEF Shape
  <1>2. UNCHANGED row /\ CalmRows(v)
    BY CalmRowsSame DEF Validate, RunThrows, Kill, Restart
  <1>3. ASSUME NEW m, NEW place PROVE InHand(v, place, m) => InHand(v, place, m)'
    BY <1>2 DEF InHand, Locks, Leftover, First, Pending, Owns
  <1>4. ASSUME NEW place \in {"invalid", "run", "finish", "fail"}, worker[v].at \in Working,
               Go(v, place), place = "invalid" => worker[v].cur \in Invalid,
               InHand(v, place, worker[v].cur)
        PROVE  \A w \in Workers : CalmWorker(w)'
    <2> DEFINE st == [worker[v] EXCEPT !.at = place]
    <2>1. Become(v, st)
      BY <1>4 DEF Go
    <2>2. /\ worker'[v] = st /\ st.at = place /\ st.active = worker[v].active
          /\ st.cur = worker[v].cur /\ st.close = worker[v].close /\ st.chains = worker[v].chains
      BY <1>1, <2>1 DEF Become, Shape, Managers
    <2> HIDE DEF st
    <2>3. worker[v].cur # None /\ worker[v].active = worker[v].cur /\ worker[v].chains > 0
      BY <1>1, <1>4 DEF CalmWorker
    <2>4. InHand(v, worker[v].at, worker[v].cur)'
      BY <1>3, <1>4, <2>2
    <2>5. CalmWorker(v)'
      BY <1>1, <1>4, <2>2, <2>3, <2>4 DEF CalmWorker, At, Working
    <2> QED
      BY <1>2, <2>1, <2>5, CalmOthers
  <1>5. CASE Validate(v)
    <2>1. At(v, "validate") /\ worker[v].at \in Working
      BY <1>5 DEF Validate, At, Working
    <2>2. CASE worker[v].cur \in Invalid
      <3>1. Go(v, "invalid") /\ InHand(v, "invalid", worker[v].cur)
        BY <1>1, <1>5, <2>1, <2>2 DEF Validate, CalmWorker, InHand, At
      <3> QED
        BY <1>4, <2>1, <2>2, <3>1
    <2>3. CASE worker[v].cur \notin Invalid
      <3>1. Go(v, "run") /\ InHand(v, "run", worker[v].cur)
        BY <1>1, <1>5, <2>1, <2>3 DEF Validate, CalmWorker, InHand, Leftover, At
      <3> QED
        BY <1>4, <2>1, <3>1
    <2> QED
      BY <2>2, <2>3
  <1>6. CASE RunThrows(v) \/ (At(v, "run") /\ Returned(v) /\ UNCHANGED row)
    <2>1. /\ At(v, "run") /\ worker[v].at \in Working /\ worker[v].active # None
          /\ InHand(v, "fail", worker[v].cur) /\ InHand(v, "finish", worker[v].cur)
      BY <1>1, <1>6 DEF RunThrows, CalmWorker, InHand, At, Working
    <2>2. Go(v, "fail") \/ Go(v, "finish")
      BY <1>6, <2>1 DEF RunThrows, Returned
    <2> QED
      BY <1>4, <2>1, <2>2
  <1>7. CASE Kill(v) \/ Restart(v)
    <2>1. PICK st \in {Fresh, [Fresh EXCEPT !.at = "dead"]} : Become(v, st)
      BY <1>7 DEF Kill, Restart
    <2>2. worker'[v] = st /\ st.close = "open" /\ st.active = None /\ st.at \in {"pick", "dead"}
      BY <2>1 DEF Become, Shape, Fresh
    <2>3. CalmWorker(v)'
      BY <2>2 DEF CalmWorker, At, Working
    <2> QED
      BY <1>2, <2>1, <2>3, CalmOthers
  <1> QED
    BY <1>5, <1>6, <1>7

(* The verdict on a row goes to a row nobody else locks.                   *)
LEMMA CalmSettled ==
    ASSUME Shape, NEW v \in Workers, NEW m \in Migrations, Owns(v, m), Fail(m) \/ Finish(m)
    PROVE  CalmRows(v)
PROOF
  <1>1. /\ row' \in [Migrations -> RowStates]
        /\ \A n \in Migrations \ {m} : row'[n] = row[n]
        /\ \A n \in Migrations : Pending(n)' => Pending(n)
    BY SettledRows, SettledRow
  <1>2. ASSUME NEW w \in Workers \ {v}, NEW n \in Migrations, Locks(w, n)
        PROVE  row'[n].holder = row[n].holder /\ row'[n].lease = "fresh" /\ Pending(n)'
    <2>1. n # m
      BY <1>2 DEF Locks, Owns
    <2> QED
      BY <1>1, <1>2, <2>1 DEF Locks, Pending
  <1> QED
    BY <1>1, <1>2 DEF CalmRows

LEMMA CalmSettles ==
    ASSUME Shape, \A w \in Workers : CalmWorker(w), NEW v \in Workers,
           MarkInvalid(v) \/ MarkFinished(v) \/ MarkFailed(v)
    PROVE  \A w \in Workers : CalmWorker(w)'
PROOF
  <1>0. PICK m : m = worker[v].cur
    OBVIOUS
  <1>1. /\ worker[v] \in Managers /\ CalmWorker(v) /\ row \in [Migrations -> RowStates]
        /\ worker[v].at \in {"invalid", "finish", "fail"}
    BY DEF Shape, MarkInvalid, MarkFinished, MarkFailed, At
  <1>2. m \in Migrations /\ worker[v].active = m
    BY <1>0, <1>1 DEF CalmWorker, Working, Managers
  <1>3. CASE Owns(v, m)
    <2>2. Fail(m) \/ Finish(m)
      BY <1>0, <1>3 DEF MarkInvalid, MarkFinished, MarkFailed
    <2>5. ~Pending(m)'
      BY <1>2, <2>2, SettledRow
    <2>6. CalmRows(v)
      BY <1>2, <1>3, <2>2, CalmSettled
    <2>7. CASE Become(v, Loop([worker[v] EXCEPT !.active = None]))
      <3> DEFINE next == Loop([worker[v] EXCEPT !.active = None])
      <3>1. /\ worker'[v] = next /\ next.at \in {"pick", "stopped"} /\ next.active = None
            /\ next.close = worker[v].close
        BY <1>1, <2>7 DEF Become, Shape, Managers, Loop
      <3> HIDE DEF next
      <3>2. CalmWorker(v)'
        BY <1>1, <3>1 DEF CalmWorker, At, Working
      <3> QED
        BY <2>6, <2>7, <3>2, CalmOthers
    <2>8. CASE Become(v, Loop(worker[v])) /\ At(v, "invalid")
      <3> DEFINE next == Loop(worker[v])
      <3>1. /\ worker'[v] = next /\ next.at \in {"pick", "stopped"} /\ next.active = m
            /\ next.close = worker[v].close
        BY <1>1, <1>2, <2>8 DEF Become, Shape, Managers, Loop
      <3> HIDE DEF next
      <3>2. m \in Invalid
        BY <1>0, <1>1, <2>8 DEF CalmWorker
      <3>3. Leftover(worker[v].active)'
        BY <2>5, <3>1, <3>2 DEF Leftover, Pending
      <3>4. CalmWorker(v)'
        BY <1>1, <3>1, <3>3 DEF CalmWorker, At, Working
      <3> QED
        BY <2>6, <2>8, <3>4, CalmOthers
    <2>9. \/ Become(v, Loop([worker[v] EXCEPT !.active = None]))
          \/ Become(v, Loop(worker[v])) /\ At(v, "invalid")
      BY <1>0, <1>3 DEF MarkInvalid, MarkFinished, MarkFailed, NextIteration
    <2> QED
      BY <2>7, <2>8, <2>9
  <1>4. CASE ~Owns(v, m)
    <2>1. ~At(v, "finish")
      BY <1>0, <1>1, <1>4 DEF CalmWorker, InHand, Locks, At, Working
    <2>2. Go(v, "rejected") /\ UNCHANGED row
      BY <1>0, <1>4, <2>1 DEF MarkInvalid, MarkFinished, MarkFailed
    <2> DEFINE st == [worker[v] EXCEPT !.at = "rejected"]
    <2>3. Become(v, st) /\ CalmRows(v)
      BY <2>2, CalmRowsSame DEF Go
    <2>4. worker'[v] = st /\ st.at = "rejected" /\ st.close = worker[v].close
      BY <1>1, <2>3 DEF Become, Shape, Managers
    <2>5. CalmWorker(v)'
      BY <1>1, <2>4 DEF CalmWorker, At, Working
    <2> QED
      BY <2>3, <2>5, CalmOthers
  <1> QED
    BY <1>3, <1>4

(* Leases in use do not lapse.                                             *)
LEMMA CalmExpires ==
    ASSUME Shape, \A w \in Workers : CalmWorker(w), NEW m \in Migrations, Expire(m), Unattended(m)
    PROVE  \A w \in Workers : CalmWorker(w)'
PROOF
  <1>1. row \in [Migrations -> RowStates] /\ UNCHANGED worker
        /\ row' = [row EXCEPT ![m].lease = "stale"]
    BY DEF Shape, Expire
  <1>2. /\ \A n \in Migrations : row'[n].holder = row[n].holder /\ (Pending(n)' <=> Pending(n))
        /\ \A n \in Migrations \ {m} : row'[n] = row[n]
    BY <1>1 DEF RowStates, Pending
  <1>3. ASSUME NEW w \in Workers, worker[w].at \in Working \cup {"beat"},
               NEW n \in Migrations, worker[w].active = n, Locks(w, n)
        PROVE  Locks(w, n)'
    <2>1. n # m
      <3> SUFFICES ASSUME n = m PROVE FALSE
        OBVIOUS
      <3>1. row[m].holder = w
        BY <1>3 DEF Locks, Owns
      <3>2. worker[w].chains > 0 \/ At(w, "beat")
        BY <1>3 DEF CalmWorker, At
      <3>3. worker[w].chains \in Nat
        BY DEF Shape, Managers
      <3>4. ~At(w, "dead")
        BY <1>3 DEF At, Working
      <3> QED
        BY <1>3, <3>1, <3>2, <3>3, <3>4 DEF Unattended
    <2>2. row'[n] = row[n] /\ row[n].lease = "fresh"
      BY <1>2, <1>3, <2>1 DEF Locks
    <2> QED
      BY <1>2, <1>3, <2>2, LocksKept DEF Locks
  <1>4. ASSUME NEW w \in Workers PROVE CalmWorker(w)'
    <2>1. /\ CalmWorker(w) /\ worker[w] \in Managers
          /\ worker[w].active \in Migrations \cup {None} /\ worker[w].cur \in Migrations \cup {None}
      BY DEF Shape, Managers
    <2>2. \A n \in Migrations : Leftover(n) => Leftover(n)'
      BY <1>2 DEF Leftover
    <2>3. At(w, "beat") => Locks(w, worker[w].active)' \/ Leftover(worker[w].active)'
      BY <1>1, <1>3, <2>1, <2>2 DEF CalmWorker, At
    <2>4. worker[w].at \in Working => InHand(w, worker[w].at, worker[w].cur)'
      <3> SUFFICES ASSUME worker[w].at \in Working
                   PROVE  InHand(w, worker[w].at, worker[w].cur)'
        OBVIOUS
      <3>1. /\ worker[w].cur \in Migrations /\ worker[w].active = worker[w].cur
            /\ InHand(w, worker[w].at, worker[w].cur) /\ worker'[w] = worker[w]
        BY <1>1, <2>1 DEF CalmWorker
      <3>2. Locks(w, worker[w].cur) => Locks(w, worker[w].cur)'
        BY <1>3, <3>1
      <3>3. /\ Leftover(worker[w].cur) => Leftover(worker[w].cur)'
            /\ ~Pending(worker[w].cur) => ~Pending(worker[w].cur)'
        BY <1>2, <2>2, <3>1
      <3> QED
        BY <3>1, <3>2, <3>3 DEF InHand
    <2>5. At(w, "pick") => worker[w].active = None \/ Leftover(worker[w].active)'
      BY <1>1, <2>1, <2>2 DEF CalmWorker
    <2> QED
      BY <1>1, <2>1, <2>3, <2>4, <2>5 DEF CalmWorker, At
  <1> QED
    BY <1>4

(* What a throw leaves behind disturbs nobody: a row it took is locked by  *)
(* nobody else, the verdict whose answer was lost was on the worker's own. *)
LEMMA CalmThrows ==
    ASSUME SameGates, IInv, \A w \in Workers : CalmWorker(w), NEW v \in Workers, Throws(v)
    PROVE  \A w \in Workers : CalmWorker(w)'
PROOF
  <1>1. Shape /\ CalmWorker(v) /\ worker[v] \in Managers
    BY DEF IInv, Shape
  <1>2. PICK st : Thrown(v, st)
    BY <1>1, ThrownTo
  <1>3. CalmRows(v)
    <2>1. CASE UNCHANGED row
      BY <1>1, <2>1, CalmRowsSame
    <2>2. CASE \E m \in Candidates(v) : /\ \A n \in Candidates(v) : m <= n
                                        /\ row[m].lease # "fresh" /\ Taken(v, m)
      BY <1>1, <2>2, CalmTaken
    <2>3. CASE row' = Renewed(v)
      BY <1>1, <2>3, CalmRenewed
    <2>4. CASE /\ worker[v].cur \in Migrations /\ Owns(v, worker[v].cur)
               /\ Fail(worker[v].cur) \/ Finish(worker[v].cur)
      BY <1>1, <2>4, CalmSettled
    <2> QED
      BY <2>1, <2>2, <2>3, <2>4, ThrownRows
  <1>4. CASE st.at = "rejected"
    <2>1. CalmWorker(v)'
      BY <1>1, <1>2, <1>4 DEF Thrown, CalmWorker, At, Working
    <2> QED
      BY <1>1, <1>2, <1>3, <2>1, CalmOthers DEF Thrown
  <1>5. CASE st.at = "fail"
    <2>1. /\ At(v, "finish") /\ worker[v].at \in Working
          /\ worker'[v] = st /\ st.cur = worker[v].cur /\ st.active = worker[v].active
          /\ st.close = worker[v].close /\ st.chains = worker[v].chains
      BY <1>2, <1>5 DEF Thrown, At, Working
    <2>2. /\ Locks(v, worker[v].cur) /\ worker[v].cur \in Migrations
          /\ worker[v].cur # None /\ worker[v].active = worker[v].cur /\ worker[v].chains > 0
      BY <1>1, <2>1 DEF CalmWorker, InHand, At, Managers
    <2>3. UNCHANGED row \/ Finish(worker[v].cur)
      BY <2>1, ThrownRows DEF At
    <2>4. \A m : m = worker[v].cur => Locks(v, m)' \/ ~Pending(m)'
      BY <1>1, <2>2, <2>3, SettledRow DEF Locks, First, Pending, Owns
    <2>5. InHand(v, worker[v].at, worker[v].cur)'
      BY <1>5, <2>1, <2>2, <2>4 DEF InHand
    <2>6. CalmWorker(v)'
      BY <1>1, <1>5, <2>1, <2>2, <2>5 DEF CalmWorker, At, Working
    <2> QED
      BY <1>1, <1>2, <1>3, <2>6, CalmOthers DEF Thrown
  <1> QED
    BY <1>2, <1>4, <1>5 DEF Thrown

LEMMA CalmNext ==
    SameGates /\ IInv /\ EventsOK /\ CalmInv /\ [Next]_vars => CalmInv'
PROOF
  <1> SUFFICES ASSUME SameGates, IInv, EventsOK, CalmInv, [Next]_vars, Calm'
               PROVE  \A w \in Workers : CalmWorker(w)'
    BY DEF CalmInv
  <1>1. Shape /\ Calm /\ \A w \in Workers : CalmWorker(w)
    BY CalmBefore DEF CalmInv, IInv
  <1>2. ASSUME NEW v \in Workers,
               RunStep(v) \/ HeartBeat(v) \/ Kill(v) \/ Restart(v) \/ Throws(v)
        PROVE  \A w \in Workers : CalmWorker(w)'
    <2>1. RunCompletes(v) \/ RunAborts(v) => At(v, "run") /\ Returned(v) /\ UNCHANGED row
      BY DEF RunCompletes, RunAborts
    <2> QED
      BY <1>1, <1>2, <2>1, CalmPick, CalmBeats, CalmMoves, CalmSettles, CalmThrows DEF RunStep
  <1>3. ASSUME NEW v \in Workers PROVE ~CloseAbort(v) /\ ~CloseStep(v)
    <2>1. ~CloseStep(v)
      BY <1>1 DEF CloseStep, CloseUnlock, CloseClear, CalmWorker
    <2>2. ASSUME CloseAbort(v) PROVE FALSE
      <3>1. events'.close = events.close + 1
        BY <2>2, CountStep DEF Kinds, CloseAbort
      <3> QED
        BY <1>1, <3>1 DEF Calm
    <2> QED
      BY <2>1, <2>2
  <1>4. ASSUME NEW m \in Migrations, Retry(m) PROVE FALSE
    <2>1. events'.retry = events.retry + 1
      BY <1>4, CountStep DEF Kinds, Retry
    <2> QED
      BY <1>1, <2>1 DEF Calm
  <1>5. ASSUME NEW m \in Migrations, Expire(m)
        PROVE  \A w \in Workers : CalmWorker(w)'
    <2>1. Unattended(m)
      <3> SUFFICES ASSUME ~Unattended(m) PROVE FALSE
        OBVIOUS
      <3>1. events'.stall = events.stall + 1
        BY <1>5, CountStep DEF Kinds, Expire
      <3> QED
        BY <1>1, <3>1 DEF Calm
    <2> QED
      BY <1>1, <1>5, <2>1, CalmExpires
  <1>6. CASE UNCHANGED vars
    <2> SUFFICES ASSUME NEW w \in Workers PROVE CalmWorker(w)'
      OBVIOUS
    <2>1. UNCHANGED <<row, worker>> /\ CalmWorker(w)
      BY <1>1, <1>6 DEF vars
    <2>2. \A m : (Locks(w, m) <=> Locks(w, m)') /\ (Leftover(m) <=> Leftover(m)')
      BY <2>1 DEF Locks, Leftover, First, Pending, Owns
    <2>3. \A m, place : InHand(w, place, m) <=> InHand(w, place, m)'
      BY <2>1 DEF InHand, Locks, Leftover, First, Pending, Owns
    <2> QED
      BY <2>1, <2>2, <2>3 DEF CalmWorker, At
  <1> QED
    BY <1>2, <1>3, <1>4, <1>5, <1>6 DEF Next

(* Two workers inside migration.run lock the same row, which has one holder. *)
LEMMA CalmOneAtATime == ASSUME SameGates, Shape, CalmInv PROVE OneAtATime
PROOF
  <1> SUFFICES ASSUME Calm, NEW v \in Workers, NEW w \in Workers, At(v, "run"), At(w, "run")
               PROVE  v = w
    BY DEF OneAtATime
  <1> DEFINE m == worker[v].cur
             n == worker[w].cur
  <1>1. CalmWorker(v) /\ CalmWorker(w)
    BY DEF CalmInv
  <1>2. Locks(v, m) /\ Locks(w, n)
    BY <1>1 DEF CalmWorker, InHand, At, Working
  <1>3. m \in Migrations /\ n \in Migrations
    BY <1>2, EnabledAssumption DEF Locks
  <1>4. m = n
    BY <1>2, <1>3, LocksAgree DEF Locks
  <1> QED
    BY <1>2, <1>4 DEF Locks, Owns

(* No two workers are inside migration.run at once, whatever is killed and *)
(* restarted, for any number of workers, if leases are renewed in time and *)
(* nobody closes a manager or retries a migration.  Workers whose gates    *)
(* differ do run different migrations side by side: hence SameGates.       *)
THEOREM OneAtATimeHolds == SameGates => (Spec => []OneAtATime)
PROOF
  <1> SUFFICES ASSUME SameGates PROVE Spec => []OneAtATime
    OBVIOUS
  <1>1. Init => CalmInv
    BY DEF Init, CalmInv, CalmWorker, At, Fresh, Working
  <1>2. IInv => Shape
    BY DEF IInv
  <1>3. IInv /\ EventsOK /\ CalmInv /\ [Next]_vars => CalmInv'
    BY CalmNext
  <1>4. Shape /\ CalmInv => OneAtATime
    BY CalmOneAtATime
  <1> QED
    BY <1>1, <1>2, <1>3, <1>4, EventsAlways, IInvAlways, PTL DEF Spec

-----------------------------------------------------------------------------
(* How many heartbeat chains a manager may have started.  Every iteration  *)
(* starts one, and what an iteration costs is paid for: the row it settles,*)
(* a retry that made one pending again, the one iteration a close leaves   *)
(* without a verdict, or the last one, that finds nothing to run.          *)

Settled == {m \in Migrations : ~Pending(m)}

Tally == Cardinality(Settled) + events.retry

(* close() has run to its end; it left a run without its migration.        *)
Ended(w) == worker[w].close \in {"closed", "threw"}
Loose(w) == worker[w].at \in Working /\ worker[w].active = None

Late(w)  == IF Ended(w) /\ ~Loose(w) THEN 1 ELSE 0
Spent(w) == IF /\ ~At(w, "beat")
               /\ worker[w].more => worker[w].at \in Working \cup {"rejected"}
            THEN 1 ELSE 0

Fenced(w, m) == Owns(w, m) => Pending(m)

(* The row at hand is on the tally already: its update was applied, and its *)
(* answer lost.                                                            *)
Earned(w) == worker[w].chains <= Tally + Late(w)

Paid(w) ==
    /\ worker[w].at \in {"run", "finish"} => Fenced(w, worker[w].cur)
    /\ At(w, "fail") => Fenced(w, worker[w].cur) \/ Earned(w)
    /\ worker[w].at \in {"validate", "invalid"} /\ worker[w].more => Fenced(w, worker[w].cur)
    /\ At(w, "beat") /\ worker[w].more /\ worker[w].active # None => Fenced(w, worker[w].active)
    /\ At(w, "pick") => worker[w].more
    /\ Loose(w) => Ended(w)
    /\ worker[w].close # "open" => events.close > 0
    /\ worker[w].chains <= Tally + Late(w) + Spent(w)

LEMMA TallyType ==
    ASSUME EventsOK
    PROVE  IsFiniteSet(Settled) /\ Cardinality(Settled) \in Nat /\ Tally \in Nat
           /\ Cardinality(Settled) <= Cardinality(Migrations) /\ Cardinality(Migrations) \in Nat
PROOF
  <1>1. Settled \subseteq Migrations /\ IsFiniteSet(Migrations)
    BY MigrationsAssumption DEF Settled
  <1>2. IsFiniteSet(Settled) /\ Cardinality(Settled) <= Cardinality(Migrations)
    BY <1>1, FS_Subset
  <1>3. Cardinality(Settled) \in Nat /\ Cardinality(Migrations) \in Nat
    BY <1>1, <1>2, FS_CardinalityType
  <1> QED
    BY <1>2, <1>3 DEF Tally, EventsOK

(* The tally never falls, and rises with every row that is settled.        *)
LEMMA TallyGrows ==
    ASSUME EventsOK, EventsOK', events'.retry >= events.retry,
           \A m \in Migrations : Pending(m)' => Pending(m)
    PROVE  /\ Tally \in Nat /\ Tally' \in Nat /\ Tally <= Tally'
           /\ \A m \in Migrations : Pending(m) /\ ~Pending(m)' => Tally + 1 <= Tally'
PROOF
  <1> DEFINE S == Settled
             T == Settled'
  <1>1. /\ IsFiniteSet(T) /\ Cardinality(S) \in Nat /\ Cardinality(T) \in Nat
        /\ Tally = Cardinality(S) + events.retry /\ Tally' = Cardinality(T) + events'.retry
        /\ events.retry \in Nat /\ events'.retry \in Nat /\ IsFiniteSet(S)
    <2>1. IsFiniteSet(S) /\ Cardinality(S) \in Nat
      BY TallyType
    <2>2. T \subseteq Migrations /\ IsFiniteSet(Migrations)
      BY MigrationsAssumption DEF Settled
    <2>3. IsFiniteSet(T) /\ Cardinality(T) \in Nat
      BY <2>2, FS_Subset, FS_CardinalityType
    <2> QED
      BY <2>1, <2>3 DEF Tally, EventsOK
  <1>2. S \subseteq T
    BY DEF Settled
  <1>3. ASSUME NEW m \in Migrations, Pending(m), ~Pending(m)'
        PROVE  m \in T /\ m \notin S
    BY <1>3 DEF Settled
  <1> HIDE DEF S, T
  <1>4. Cardinality(S) <= Cardinality(T)
    BY <1>1, <1>2, FS_Subset
  <1>5. ASSUME NEW m \in T, m \notin S
        PROVE  Cardinality(S) + 1 <= Cardinality(T)
    <2>1. Cardinality(S \cup {m}) = Cardinality(S) + 1
      BY <1>1, <1>5, FS_AddElement
    <2>2. S \cup {m} \subseteq T
      BY <1>2
    <2> QED
      BY <1>1, <2>1, <2>2, FS_Subset
  <1>6. Tally <= Tally'
    BY <1>1, <1>4
  <1>7. ASSUME NEW m \in Migrations, Pending(m), ~Pending(m)'
        PROVE  Tally + 1 <= Tally'
    BY <1>1, <1>3, <1>5, <1>7
  <1> QED
    BY <1>1, <1>6, <1>7

(* A step of v that settles at most v's own rows disturbs no other worker. *)
LEMMA PaidOthers ==
    ASSUME IInv, EventsOK, EventsOK', \A w \in Workers : Paid(w), NEW v \in Workers, NEW st,
           Become(v, st), RowStep(v), Tally' \in Nat, Tally \in Nat, Tally <= Tally',
           events'.close >= events.close, Paid(v)'
    PROVE  \A w \in Workers : Paid(w)'
PROOF
  <1> SUFFICES ASSUME NEW w \in Workers, w # v PROVE Paid(w)'
    OBVIOUS
  <1>1. worker'[w] = worker[w] /\ worker[w] \in Managers /\ Paid(w) /\ Held(w)
    BY DEF IInv, Become, Shape
  <1>2. ASSUME NEW m \in Migrations PROVE Fenced(w, m) => Fenced(w, m)'
    BY DEF RowStep, Fenced, Owns, Pending
  <1>3. worker[w].active \in Migrations \cup {None} /\ worker[w].cur \in Migrations \cup {None}
        /\ worker[w].chains \in Nat
    BY <1>1 DEF Managers
  <1>4. Late(w)' = Late(w) /\ Spent(w)' = Spent(w) /\ Loose(w)' = Loose(w) /\ Ended(w)' = Ended(w)
    BY <1>1 DEF Late, Spent, Loose, Ended, At
  <1>5. Late(w) \in {0, 1} /\ Spent(w) \in {0, 1}
    BY DEF Late, Spent
  <1>6. worker'[w].chains <= Tally' + Late(w)' + Spent(w)'
    <2>1. worker[w].chains <= Tally + Late(w) + Spent(w)
      BY <1>1 DEF Paid
    <2> QED
      BY <1>1, <1>3, <1>4, <1>5, <2>1
  <1>7. worker'[w].close # "open" => events'.close > 0
    BY <1>1 DEF Paid, EventsOK
  <1>8. worker[w].at \in {"run", "finish", "fail", "validate", "invalid"} => worker[w].cur \in Migrations
    BY <1>1, <1>3 DEF Held
  <1>9. /\ worker[w].at \in {"run", "finish"} => Fenced(w, worker[w].cur)'
        /\ At(w, "fail") => Fenced(w, worker[w].cur)' \/ Earned(w)'
        /\ worker[w].at \in {"validate", "invalid"} /\ worker[w].more => Fenced(w, worker[w].cur)'
        /\ At(w, "beat") /\ worker[w].more /\ worker[w].active # None => Fenced(w, worker[w].active)'
    <2>1. Earned(w) => Earned(w)'
      BY <1>1, <1>3, <1>4, <1>5 DEF Earned
    <2> QED
      BY <1>1, <1>2, <1>3, <1>8, <2>1 DEF Paid, At
  <1> QED
    BY <1>1, <1>4, <1>6, <1>7, <1>9 DEF Paid, At

(* The same, for a step that makes no row pending.                         *)
LEMMA PaidBy ==
    ASSUME IInv, EventsOK, EventsOK', \A w \in Workers : Paid(w), NEW v \in Workers, NEW st,
           Become(v, st), RowStep(v), \A m \in Migrations : Pending(m)' => Pending(m),
           events'.close >= events.close, events'.retry >= events.retry, Paid(v)'
    PROVE  \A w \in Workers : Paid(w)'
PROOF
  <1>1. Tally \in Nat /\ Tally' \in Nat /\ Tally <= Tally'
    BY TallyGrows
  <1> QED
    BY <1>1, PaidOthers

(* Taking a row costs nothing yet.                                         *)
LEMMA PaidPick ==
    ASSUME IInv, EventsOK, UNCHANGED events, \A w \in Workers : Paid(w), NEW v \in Workers, Pick(v)
    PROVE  \A w \in Workers : Paid(w)'
PROOF
  <1>1. /\ worker[v] \in Managers /\ row \in [Migrations -> RowStates] /\ Shape
        /\ Paid(v) /\ At(v, "pick") /\ worker[v].more /\ EventsOK'
    BY DEF IInv, Shape, Pick, Paid, EventsOK
  <1>2. /\ worker[v].chains \in Nat
        /\ worker[v].chains <= Tally + (IF Ended(v) THEN 1 ELSE 0)
    <2>1. Late(v) = (IF Ended(v) THEN 1 ELSE 0) /\ Spent(v) = 0
      BY <1>1 DEF Late, Loose, Working, Spent, At
    <2>2. worker[v].chains \in Nat /\ Tally \in Nat
      BY <1>1, TallyType DEF Managers
    <2> QED
      BY <1>1, <2>1, <2>2 DEF Paid
  <1>3. ASSUME NEW st, NEW m, Become(v, st), worker'[v] = st, st.chains = worker[v].chains,
               st.close = worker[v].close, st.at \in {"beat", "stopped"},
               st.at = "beat" /\ st.more => st.active = m /\ Pending(m)',
               RowStep(v), \A n \in Migrations : Pending(n)' => Pending(n)
        PROVE  \A w \in Workers : Paid(w)'
    <2>1. Tally \in Nat /\ Tally' \in Nat /\ Tally <= Tally'
      BY <1>1, <1>3, TallyGrows DEF EventsOK
    <2>2. Late(v)' = (IF Ended(v) THEN 1 ELSE 0) /\ Spent(v)' \in {0, 1}
      BY <1>3 DEF Late, Loose, Working, Spent, Ended, At
    <2>3. worker'[v].chains <= Tally' + Late(v)' + Spent(v)'
      BY <1>2, <1>3, <2>1, <2>2
    <2>4. worker'[v].close # "open" => events'.close > 0
      BY <1>1, <1>3 DEF Paid
    <2>5. At(v, "beat")' /\ worker'[v].more => Fenced(v, worker[v].active)'
      BY <1>3 DEF At, Fenced, Pending
    <2>6. Paid(v)'
      BY <1>3, <2>3, <2>4, <2>5 DEF Paid, Loose, Working, At
    <2> QED
      BY <1>1, <1>3, <2>6, PaidBy DEF EventsOK
  <1>4. ASSUME NEW m \in Candidates(v), Acquire(v, m)
        PROVE  \A w \in Workers : Paid(w)'
    <2> DEFINE st == [worker[v] EXCEPT !.at = "beat", !.active = m, !.aborted = FALSE]
    <2>1. m \in Migrations /\ Pending(m) /\ Become(v, st)
      BY <1>4, EnabledAssumption DEF Candidates, Acquire
    <2>2. row' = [row EXCEPT ![m].holder = v, ![m].lease = "fresh"]
      BY <1>4 DEF Acquire
    <2>3. RowStep(v) /\ \A n \in Migrations : Pending(n)' = Pending(n)
      <3>1. ASSUME NEW n \in Migrations
            PROVE  /\ row'[n].holder = (IF n = m THEN v ELSE row[n].holder)
                   /\ row'[n].finished = row[n].finished /\ row'[n].failed = row[n].failed
        <4>1. row' = [row EXCEPT ![m] = [row[m] EXCEPT !.holder = v, !.lease = "fresh"]]
          BY <1>1, <2>1, <2>2
        <4>2. /\ [row[m] EXCEPT !.holder = v, !.lease = "fresh"].finished = row[m].finished
              /\ [row[m] EXCEPT !.holder = v, !.lease = "fresh"].failed = row[m].failed
              /\ [row[m] EXCEPT !.holder = v, !.lease = "fresh"].holder = v
          BY <1>1, <2>1 DEF RowStates
        <4> QED
          BY <1>1, <2>1, <4>1, <4>2
      <3> QED
        BY <3>1 DEF RowStep, Pending
    <2>4. /\ worker'[v] = st /\ st.chains = worker[v].chains /\ st.close = worker[v].close
          /\ st.at = "beat" /\ st.active = m
      BY <1>1, <2>1 DEF Become, Shape, Managers
    <2> HIDE DEF st
    <2>5. Pending(m)'
      BY <2>1, <2>3
    <2> QED
      BY <1>3, <2>1, <2>3, <2>4, <2>5
  <1>5. ASSUME NothingToRun(v)
        PROVE  \A w \in Workers : Paid(w)'
    <2> DEFINE st == [worker[v] EXCEPT !.more = FALSE,
                          !.at = IF worker[v].active = None THEN "stopped" ELSE "beat"]
    <2>1. Become(v, st) /\ UNCHANGED row
      BY <1>5 DEF NothingToRun
    <2>2. RowStep(v) /\ \A n \in Migrations : Pending(n)' = Pending(n)
      BY <1>1, <2>1 DEF RowStep, Pending, RowStates
    <2>3. /\ worker'[v] = st /\ st.chains = worker[v].chains /\ st.close = worker[v].close
          /\ st.at \in {"beat", "stopped"} /\ ~st.more
      BY <1>1, <2>1 DEF Become, Shape, Managers
    <2> HIDE DEF st
    <2> QED
      BY <1>3, <2>1, <2>2, <2>3
  <1> QED
    BY <1>4, <1>5 DEF Pick

(* The first heartbeat spends what the iteration will earn.                *)
LEMMA PaidBeats ==
    ASSUME IInv, EventsOK, UNCHANGED events, \A w \in Workers : Paid(w), NEW v \in Workers,
           FirstBeat(v) \/ HeartBeat(v)
    PROVE  \A w \in Workers : Paid(w)'
PROOF
  <1>1. worker[v] \in Managers /\ Shape /\ Paid(v) /\ EventsOK' /\ Held(v)
    BY DEF IInv, Shape, EventsOK
  <1>2. /\ RowStep(v)
        /\ \A m \in Migrations : row'[m].holder = row[m].holder /\ Pending(m)' = Pending(m)
    BY <1>1, RenewedRows DEF FirstBeat, HeartBeat
  <1>3. Tally \in Nat /\ Tally' \in Nat /\ Tally <= Tally'
    BY <1>1, <1>2, TallyGrows DEF EventsOK
  <1>4. \A m \in Migrations : Fenced(v, m) => Fenced(v, m)'
    BY <1>2 DEF Fenced, Owns
  <1>5. /\ worker[v].active \in Migrations \cup {None} /\ worker[v].cur \in Migrations \cup {None}
        /\ worker[v].chains \in Nat /\ worker[v].chains <= Tally + Late(v) + Spent(v)
        /\ worker[v].close # "open" => events'.close > 0
    BY <1>1 DEF Managers, Paid
  <1>6. CASE FirstBeat(v)
    <2>1. At(v, "beat") /\ Late(v) = (IF Ended(v) THEN 1 ELSE 0) /\ Spent(v) = 0
      BY <1>6 DEF FirstBeat, Late, Loose, Working, Spent, At
    <2>2. CASE worker[v].active = None
      <3> DEFINE st == [worker[v] EXCEPT !.at = "rejected"]
      <3>1. Become(v, st)
        BY <1>6, <2>2 DEF FirstBeat, Go
      <3>2. worker'[v] = st /\ st.chains = worker[v].chains /\ st.close = worker[v].close /\ st.at = "rejected"
        BY <1>1, <3>1 DEF Become, Shape, Managers
      <3> HIDE DEF st
      <3>3. Late(v)' = (IF Ended(v) THEN 1 ELSE 0) /\ Spent(v)' \in {0, 1}
        BY <3>2 DEF Late, Loose, Working, Spent, Ended, At
      <3>4. worker'[v].chains <= Tally' + Late(v)' + Spent(v)'
        BY <1>3, <1>5, <2>1, <3>2, <3>3
      <3>5. Paid(v)'
        BY <1>5, <3>2, <3>4 DEF Paid, Loose, Working, At
      <3> QED
        BY <1>1, <1>2, <3>1, <3>5, PaidBy DEF EventsOK
    <2>3. CASE worker[v].active # None
      <3> DEFINE st == [worker[v] EXCEPT !.at = "validate", !.chains = @ + 1,
                                         !.cur = worker[v].active]
      <3>1. Become(v, st)
        BY <1>6, <2>3 DEF FirstBeat
      <3>2. /\ worker'[v] = st /\ st.chains = worker[v].chains + 1 /\ st.close = worker[v].close
            /\ st.at = "validate" /\ st.active = worker[v].active /\ st.cur = worker[v].active
            /\ st.more = worker[v].more
        BY <1>1, <3>1 DEF Become, Shape, Managers
      <3> HIDE DEF st
      <3>3. Late(v)' = (IF Ended(v) THEN 1 ELSE 0) /\ Spent(v)' = 1
        BY <2>3, <3>2 DEF Late, Loose, Working, Spent, Ended, At
      <3>4. worker'[v].chains <= Tally' + Late(v)' + Spent(v)'
        BY <1>3, <1>5, <2>1, <3>2, <3>3
      <3>5. worker[v].more => Fenced(v, worker[v].cur)'
        <4>1. worker[v].more => Fenced(v, worker[v].active)
          BY <1>1, <2>1, <2>3 DEF Paid
        <4>2. \A m : m = worker[v].active /\ Fenced(v, m)' => Fenced(v, worker[v].cur)'
          BY <3>2 DEF Fenced, Owns, Pending
        <4> QED
          BY <1>4, <1>5, <2>3, <4>1, <4>2
      <3>6. Paid(v)'
        BY <1>5, <2>3, <3>2, <3>4, <3>5 DEF Paid, Loose, Working, At
      <3> QED
        BY <1>1, <1>2, <3>1, <3>6, PaidBy DEF EventsOK
    <2> QED
      BY <2>2, <2>3
  <1>7. CASE HeartBeat(v)
    <2> DEFINE st == [worker[v] EXCEPT !.chains = IF worker[v].active = None THEN @ - 1 ELSE @]
    <2>1. Become(v, st) /\ worker[v].chains > 0
      BY <1>7 DEF HeartBeat
    <2>2. /\ worker'[v] = st /\ st.chains \in Nat /\ st.chains <= worker[v].chains
          /\ st.close = worker[v].close /\ st.more = worker[v].more
          /\ st.at = worker[v].at /\ st.active = worker[v].active /\ st.cur = worker[v].cur
      BY <1>1, <1>5, <2>1 DEF Become, Shape, Managers
    <2> HIDE DEF st
    <2>3. /\ Late(v)' = Late(v) /\ Spent(v)' = Spent(v) /\ Late(v) \in {0, 1} /\ Spent(v) \in {0, 1}
          /\ Loose(v)' = Loose(v) /\ Ended(v)' = Ended(v)
      BY <2>2 DEF Late, Loose, Working, Spent, Ended, At
    <2>4. worker'[v].chains <= Tally' + Late(v)' + Spent(v)'
      BY <1>3, <1>5, <2>2, <2>3
    <2>5. /\ worker[v].at \in {"run", "finish"} => Fenced(v, worker[v].cur)'
          /\ At(v, "fail") => Fenced(v, worker[v].cur)' \/ Earned(v)'
          /\ worker[v].at \in {"validate", "invalid"} /\ worker[v].more => Fenced(v, worker[v].cur)'
          /\ At(v, "beat") /\ worker[v].more /\ worker[v].active # None => Fenced(v, worker[v].active)'
      <3>1. worker[v].at \in {"run", "finish", "fail", "validate", "invalid"} => worker[v].cur \in Migrations
        BY <1>1, <1>5 DEF Held
      <3>2. \A m : /\ m = worker[v].cur /\ Fenced(v, m)' => Fenced(v, worker[v].cur)'
                   /\ m = worker[v].active /\ Fenced(v, m)' => Fenced(v, worker[v].active)'
        BY <2>2 DEF Fenced, Owns, Pending
      <3>3. Earned(v) => Earned(v)'
        BY <1>3, <1>5, <2>2, <2>3 DEF Earned
      <3> QED
        BY <1>1, <1>4, <1>5, <3>1, <3>2, <3>3 DEF Paid, At
    <2>6. Paid(v)'
      BY <1>1, <1>5, <2>2, <2>3, <2>4, <2>5 DEF Paid, At
    <2> QED
      BY <1>1, <1>2, <2>1, <2>6, PaidBy DEF EventsOK
  <1> QED
    BY <1>6, <1>7

LEMMA NoRowChange ==
    ASSUME Shape, UNCHANGED row, NEW v \in Workers
    PROVE  RowStep(v) /\ \A m \in Migrations : Pending(m)' = Pending(m)
PROOF BY DEF Shape, RowStep, RowStates, Pending

(* Within an iteration nothing is spent; one that close() left without a   *)
(* migration ends on the account of the close.                             *)
LEMMA PaidMoves ==
    ASSUME IInv, EventsOK, UNCHANGED <<row, events>>, \A w \in Workers : Paid(w), NEW v \in Workers,
           \/ Validate(v) \/ RunThrows(v)
           \/ At(v, "run") /\ Returned(v)
    PROVE  \A w \in Workers : Paid(w)'
PROOF
  <1>1. worker[v] \in Managers /\ Shape /\ Paid(v) /\ EventsOK' /\ Held(v)
    BY DEF IInv, Shape, EventsOK
  <1>2. RowStep(v) /\ \A m \in Migrations : Pending(m)' = Pending(m)
    BY <1>1, NoRowChange
  <1>3. Tally \in Nat /\ Tally' \in Nat /\ Tally <= Tally'
    BY <1>1, <1>2, TallyGrows DEF EventsOK
  <1>4. /\ worker[v].cur \in Migrations /\ worker[v].chains \in Nat
        /\ worker[v].chains <= Tally + Late(v) + Spent(v)
        /\ worker[v].close # "open" => events'.close > 0
        /\ worker[v].at \in {"validate", "run"}
    BY <1>1 DEF Managers, Paid, Held, Validate, RunThrows, At
  <1>5. Late(v) = (IF Ended(v) /\ ~Loose(v) THEN 1 ELSE 0) /\ Spent(v) = 1
        /\ (Loose(v) <=> worker[v].active = None) /\ (Loose(v) => Ended(v))
    BY <1>1, <1>4 DEF Late, Loose, Working, Spent, At, Paid
  <1>6. ASSUME NEW place \in {"invalid", "run", "finish", "fail"}, Go(v, place),
               (place = "invalid" /\ ~worker[v].more) \/ Fenced(v, worker[v].cur)
        PROVE  \A w \in Workers : Paid(w)'
    <2> DEFINE st == [worker[v] EXCEPT !.at = place]
    <2>1. Become(v, st)
      BY <1>6 DEF Go
    <2>2. /\ worker'[v] = st /\ st.chains = worker[v].chains /\ st.close = worker[v].close
          /\ st.at = place /\ st.active = worker[v].active /\ st.cur = worker[v].cur
          /\ st.more = worker[v].more
      BY <1>1, <2>1 DEF Become, Shape, Managers
    <2> HIDE DEF st
    <2>3. Late(v)' = Late(v) /\ Spent(v)' = 1 /\ Loose(v)' = Loose(v) /\ Ended(v)' = Ended(v)
      BY <1>4, <2>2 DEF Late, Loose, Working, Spent, Ended, At
    <2>4. worker'[v].chains <= Tally' + Late(v)' + Spent(v)'
      BY <1>3, <1>4, <1>5, <2>2, <2>3
    <2>5. Fenced(v, worker[v].cur) => Fenced(v, worker[v].cur)'
      BY <2>2 DEF Fenced, Owns, Pending
    <2>6. Paid(v)'
      BY <1>4, <1>5, <1>6, <2>2, <2>3, <2>4, <2>5 DEF Paid, At
    <2> QED
      BY <1>1, <1>2, <2>1, <2>6, PaidBy DEF EventsOK
  <1>7. CASE Validate(v)
    <2>1. At(v, "validate") /\ Runnable(v, worker[v].cur)
      BY <1>1, <1>7 DEF Validate, Held
    <2>2. CASE worker[v].cur \in Invalid
      <3>1. Go(v, "invalid") /\ (worker[v].more => Fenced(v, worker[v].cur))
        BY <1>1, <1>7, <2>1, <2>2 DEF Validate, Paid, At
      <3> QED
        BY <1>6, <3>1
    <2>3. CASE worker[v].cur \notin Invalid
      <3>1. Go(v, "run") /\ Fenced(v, worker[v].cur)
        BY <1>7, <2>1, <2>3 DEF Validate, Runnable, Fenced
      <3> QED
        BY <1>6, <3>1
    <2> QED
      BY <2>2, <2>3
  <1>8. CASE At(v, "run") /\ (Go(v, "fail") \/ Go(v, "finish"))
    <2>1. Fenced(v, worker[v].cur)
      BY <1>1, <1>8 DEF Paid, At
    <2> QED
      BY <1>6, <1>8, <2>1
  <1>9. CASE At(v, "run") /\ NextIteration(v) /\ worker[v].active = None
    <2> DEFINE st == Loop([worker[v] EXCEPT !.active = None])
    <2>1. Become(v, st)
      BY <1>9 DEF NextIteration
    <2>2. /\ worker'[v] = st /\ st.chains = worker[v].chains /\ st.close = worker[v].close
          /\ st.at = (IF worker[v].more THEN "pick" ELSE "stopped") /\ st.more = worker[v].more
      BY <1>1, <2>1 DEF Become, Shape, Managers, Loop
    <2> HIDE DEF st
    <2>3. Late(v) = 0 /\ Ended(v)
      BY <1>5, <1>9
    <2>4. Late(v)' = 1 /\ Spent(v)' \in {0, 1}
      BY <2>2, <2>3 DEF Late, Loose, Working, Spent, Ended, At
    <2>5. worker'[v].chains <= Tally' + Late(v)' + Spent(v)'
      BY <1>3, <1>4, <1>5, <2>2, <2>3, <2>4
    <2>6. Paid(v)'
      BY <1>4, <2>2, <2>5 DEF Paid, Loose, Working, At
    <2> QED
      BY <1>1, <1>2, <2>1, <2>6, PaidBy DEF EventsOK
  <1> QED
    BY <1>7, <1>8, <1>9 DEF RunThrows, Returned

(* The row an iteration settles pays for it.                               *)
LEMMA PaidSettles ==
    ASSUME IInv, EventsOK, UNCHANGED events, \A w \in Workers : Paid(w), NEW v \in Workers,
           MarkInvalid(v) \/ MarkFinished(v) \/ MarkFailed(v)
    PROVE  \A w \in Workers : Paid(w)'
PROOF
  <1>0. PICK m : m = worker[v].cur
    OBVIOUS
  <1>1. /\ worker[v] \in Managers /\ Shape /\ Paid(v) /\ EventsOK' /\ Held(v)
        /\ row \in [Migrations -> RowStates]
    BY DEF IInv, Shape, EventsOK
  <1>2. worker[v].at \in {"invalid", "finish", "fail"}
    BY DEF MarkInvalid, MarkFinished, MarkFailed, At
  <1>3. /\ m \in Migrations /\ worker[v].chains \in Nat
        /\ worker[v].chains <= Tally + Late(v) + Spent(v)
        /\ worker[v].close # "open" => events'.close > 0
        /\ worker[v].more => Fenced(v, m) \/ Earned(v)
        /\ (Loose(v) => Ended(v))
    BY <1>0, <1>1, <1>2 DEF Managers, Paid, Held, At
  <1>4. Late(v) = (IF Ended(v) /\ ~Loose(v) THEN 1 ELSE 0) /\ Spent(v) = 1
    BY <1>2 DEF Late, Spent, At, Working
  <1>5. CASE Owns(v, m)
    <2>1. Fail(m) \/ Finish(m)
      BY <1>0, <1>5 DEF MarkInvalid, MarkFinished, MarkFailed
    <2>2. RowStep(v)
      BY <1>1, <1>3, <1>5, <2>1, SettledRows
    <2>4. ~Pending(m)'
      BY <1>1, <1>3, <2>1, SettledRow
    <2>5. \A n \in Migrations : Pending(n)' => Pending(n)
      BY <1>1, <1>3, <2>1, SettledRow
    <2>6. Tally \in Nat /\ Tally' \in Nat /\ Tally <= Tally' /\ (Pending(m) => Tally + 1 <= Tally')
      BY <1>1, <1>3, <2>4, <2>5, TallyGrows DEF EventsOK
    <2>7. \E st \in {Loop(worker[v]), Loop([worker[v] EXCEPT !.active = None])} : Become(v, st)
      BY <1>0, <1>5 DEF MarkInvalid, MarkFinished, MarkFailed, NextIteration
    <2>8. PICK st \in {Loop(worker[v]), Loop([worker[v] EXCEPT !.active = None])} : Become(v, st)
      BY <2>7
    <2>9. /\ worker'[v] = st /\ st.chains = worker[v].chains /\ st.close = worker[v].close
          /\ st.at = (IF worker[v].more THEN "pick" ELSE "stopped") /\ st.more = worker[v].more
      BY <1>1, <2>8 DEF Become, Shape, Managers, Loop
    <2>10. /\ Late(v)' = (IF Ended(v) THEN 1 ELSE 0)
           /\ Spent(v)' = (IF worker[v].more THEN 0 ELSE 1)
      BY <2>9 DEF Late, Loose, Working, Spent, Ended, At
    <2>11. worker'[v].chains <= Tally' + Late(v)' + Spent(v)'
      <3>1. CASE worker[v].more
        <4>1. Tally + 1 <= Tally' \/ Earned(v)
          BY <1>3, <1>5, <2>6, <3>1 DEF Fenced
        <4> QED
          BY <1>3, <1>4, <2>6, <2>9, <2>10, <3>1, <4>1 DEF Earned
      <3>2. CASE ~worker[v].more
        BY <1>3, <1>4, <2>6, <2>9, <2>10, <3>2
      <3> QED
        BY <3>1, <3>2
    <2>12. Paid(v)'
      BY <1>3, <2>9, <2>11 DEF Paid, Loose, Working, At
    <2> QED
      BY <1>1, <2>2, <2>5, <2>8, <2>12, PaidBy DEF EventsOK
  <1>6. CASE ~Owns(v, m)
    <2>1. /\ UNCHANGED row
          /\ Go(v, "rejected") \/ Go(v, "fail")
      BY <1>0, <1>6 DEF MarkInvalid, MarkFinished, MarkFailed
    <2>2. PICK place \in {"rejected", "fail"} : Go(v, place)
      BY <2>1
    <2> DEFINE st == [worker[v] EXCEPT !.at = place]
    <2>3. Become(v, st)
      BY <2>2 DEF Go
    <2>4. /\ worker'[v] = st /\ st.chains = worker[v].chains /\ st.close = worker[v].close
          /\ st.at = place /\ st.active = worker[v].active /\ st.cur = worker[v].cur
      BY <1>1, <2>3 DEF Become, Shape, Managers
    <2> HIDE DEF st
    <2>5. RowStep(v) /\ \A n \in Migrations : Pending(n)' = Pending(n)
      BY <1>1, <2>1, NoRowChange
    <2>6. Tally \in Nat /\ Tally' \in Nat /\ Tally <= Tally'
      BY <1>1, <2>5, TallyGrows DEF EventsOK
    <2>7. /\ Ended(v)' = Ended(v)
          /\ Loose(v)' => Loose(v)
      BY <1>2, <2>4 DEF Loose, Working, Ended, At
    <2>8. /\ Spent(v)' = 1
           /\ Late(v)' \in {0, 1}
           /\ Late(v) <= Late(v)'
      BY <2>4, <2>7 DEF Late, Spent, At, Working
    <2>9. worker'[v].chains <= Tally' + Late(v)' + Spent(v)'
      BY <1>3, <1>4, <2>4, <2>6, <2>8
    <2>10. Fenced(v, worker[v].cur)'
      BY <1>0, <1>6, <2>1, <2>4 DEF Fenced, Owns
    <2>11. Ended(v)' = Ended(v)
      BY <2>4 DEF Ended
    <2>12. Paid(v)'
      BY <1>3, <2>4, <2>7, <2>9, <2>10, <2>11 DEF Paid, At
    <2> QED
      BY <1>1, <2>3, <2>5, <2>12, PaidBy DEF EventsOK
  <1> QED
    BY <1>5, <1>6

(* close() puts the one iteration it may leave without a verdict on its    *)
(* own account when it ends.                                               *)
LEMMA PaidCloses ==
    ASSUME IInv, EventsOK, EventsOK', \A w \in Workers : Paid(w), NEW v \in Workers,
           CloseAbort(v) \/ CloseUnlock(v) \/ CloseClear(v),
           events'.close >= events.close, events'.retry >= events.retry
    PROVE  \A w \in Workers : Paid(w)'
PROOF
  <1>1. /\ worker[v] \in Managers /\ Shape /\ Paid(v) /\ Held(v)
        /\ row \in [Migrations -> RowStates]
    BY DEF IInv, Shape
  <1>2. /\ worker[v].active \in Migrations \cup {None} /\ worker[v].cur \in Migrations \cup {None}
        /\ worker[v].chains \in Nat /\ worker[v].chains <= Tally + Late(v) + Spent(v)
    BY <1>1 DEF Managers, Paid
  <1>3. /\ ~Ended(v)
        /\ ~Loose(v)
        /\ Late(v) = 0
    BY <1>1 DEF Paid, Late, Ended, CloseAbort, CloseUnlock, CloseClear
  <1>4. events'.close > 0
    <2>1. CASE CloseAbort(v)
      <3>1. events'.close = events.close + 1
        BY <2>1, CountStep DEF Kinds, CloseAbort
      <3> QED
        BY <3>1 DEF EventsOK
    <2>2. CASE CloseUnlock(v) \/ CloseClear(v)
      BY <1>1, <2>2 DEF Paid, EventsOK, CloseUnlock, CloseClear
    <2> QED
      BY <2>1, <2>2
  <1>5. /\ RowStep(v)
        /\ \A m \in Migrations : row'[m].holder = row[m].holder /\ Pending(m)' = Pending(m)
    <2>1. \/ UNCHANGED row
          \/ worker[v].active # None /\ row' = [row EXCEPT ![worker[v].active].lease = "none"]
      BY DEF CloseAbort, CloseUnlock, CloseClear
    <2> QED
      BY <1>1, <1>2, <2>1 DEF RowStep, RowStates, Pending
  <1>6. ASSUME NEW st, Become(v, st), worker'[v] = st,
               st.at = worker[v].at, st.more = worker[v].more, st.cur = worker[v].cur,
               st.chains = worker[v].chains, st.active \in {None, worker[v].active},
               st.close \in {"closed", "threw"} \/ st.active = worker[v].active
        PROVE  \A w \in Workers : Paid(w)'
    <2>1. Tally \in Nat /\ Tally' \in Nat /\ Tally <= Tally'
      BY <1>5, TallyGrows
    <2>2. Spent(v)' = Spent(v) /\ Spent(v) \in {0, 1} /\ Late(v)' \in {0, 1}
      BY <1>6 DEF Spent, Late, At
    <2>3. worker'[v].chains <= Tally' + Late(v)' + Spent(v)'
      BY <1>2, <1>3, <1>6, <2>1, <2>2
    <2>4. Loose(v)' => Ended(v)'
      BY <1>3, <1>6 DEF Loose, Ended
    <2>5. \A m \in Migrations : Fenced(v, m) => Fenced(v, m)'
      BY <1>5 DEF Fenced, Owns
    <2>6. /\ worker[v].at \in {"run", "finish"} => Fenced(v, worker[v].cur)'
          /\ At(v, "fail") => Fenced(v, worker[v].cur)' \/ Earned(v)'
          /\ worker[v].at \in {"validate", "invalid"} /\ worker[v].more => Fenced(v, worker[v].cur)'
          /\ At(v, "beat") /\ worker[v].more /\ worker'[v].active # None => Fenced(v, worker[v].active)'
      <3>1. worker[v].at \in {"run", "finish", "fail", "validate", "invalid"} => worker[v].cur \in Migrations
        BY <1>1, <1>2 DEF Held
      <3>2. \A m : /\ m = worker[v].cur /\ Fenced(v, m)' => Fenced(v, worker[v].cur)'
                   /\ m = worker[v].active /\ worker'[v].active # None /\ Fenced(v, m)'
                        => Fenced(v, worker[v].active)'
        BY <1>6 DEF Fenced, Owns, Pending
      <3>3. Earned(v) => Earned(v)'
        BY <1>2, <1>3, <1>6, <2>1, <2>2 DEF Earned
      <3> QED
        BY <1>1, <1>2, <1>6, <2>5, <3>1, <3>2, <3>3 DEF Paid, At
    <2>7. Paid(v)'
      BY <1>1, <1>4, <1>6, <2>3, <2>4, <2>6 DEF Paid, At
    <2> QED
      BY <1>5, <1>6, <2>7, PaidBy
  <1>7. CASE CloseAbort(v)
    <2> DEFINE st == IF worker[v].active = None
                     THEN [worker[v] EXCEPT !.close = "closed"]
                     ELSE [worker[v] EXCEPT !.close = "unlock", !.aborted = TRUE]
    <2>1. Become(v, st)
      BY <1>7 DEF CloseAbort
    <2>2. /\ worker'[v] = st /\ st.at = worker[v].at /\ st.more = worker[v].more
          /\ st.cur = worker[v].cur /\ st.chains = worker[v].chains /\ st.active = worker[v].active
      BY <1>1, <2>1 DEF Become, Shape, Managers
    <2> HIDE DEF st
    <2> QED
      BY <1>6, <2>1, <2>2
  <1>8. CASE CloseUnlock(v)
    <2>1. \E c \in CloseSteps : Become(v, [worker[v] EXCEPT !.close = c])
      BY <1>8 DEF CloseUnlock, CloseSteps
    <2>2. PICK c \in CloseSteps : Become(v, [worker[v] EXCEPT !.close = c])
      BY <2>1
    <2> DEFINE st == [worker[v] EXCEPT !.close = c]
    <2>3. /\ worker'[v] = st /\ st.at = worker[v].at /\ st.more = worker[v].more
          /\ st.cur = worker[v].cur /\ st.chains = worker[v].chains /\ st.active = worker[v].active
      BY <1>1, <2>2 DEF Become, Shape, Managers
    <2>4. Become(v, st)
      BY <2>2
    <2> HIDE DEF st
    <2> QED
      BY <1>6, <2>3, <2>4
  <1>9. CASE CloseClear(v)
    <2> DEFINE st == [worker[v] EXCEPT !.active = None,
                          !.close = IF worker[v].active = None THEN "threw" ELSE "closed"]
    <2>1. Become(v, st)
      BY <1>9 DEF CloseClear
    <2>2. /\ worker'[v] = st /\ st.at = worker[v].at /\ st.more = worker[v].more
          /\ st.cur = worker[v].cur /\ st.chains = worker[v].chains /\ st.active = None
          /\ st.close \in {"closed", "threw"}
      BY <1>1, <2>1 DEF Become, Shape, Managers
    <2> HIDE DEF st
    <2> QED
      BY <1>6, <2>1, <2>2
  <1> QED
    BY <1>7, <1>8, <1>9

(* A retry counts for the row it makes pending again.                      *)
LEMMA PaidOutside ==
    ASSUME IInv, EventsOK, EventsOK', \A w \in Workers : Paid(w), NEW m \in Migrations,
           Retry(m) \/ Expire(m), events'.close >= events.close, events'.retry >= events.retry
    PROVE  \A w \in Workers : Paid(w)'
PROOF
  <1>1. Shape /\ row \in [Migrations -> RowStates] /\ UNCHANGED worker
    BY DEF IInv, Shape, Retry, Expire
  <1>2. /\ \A n \in Migrations : row'[n].holder = row[n].holder /\ (Pending(n) => Pending(n)')
        /\ \A n \in Migrations \ {m} : Pending(n)' = Pending(n)
    <2>1. CASE row' = [row EXCEPT ![m].failed = FALSE, ![m].finished = FALSE]
      BY <1>1, <2>1 DEF RowStates, Pending
    <2>2. CASE row' = [row EXCEPT ![m].lease = "stale"]
      BY <1>1, <2>2 DEF RowStates, Pending
    <2> QED
      BY <2>1, <2>2 DEF Retry, Expire
  <1>3. Tally \in Nat /\ Tally' \in Nat /\ Tally <= Tally'
    <2>1. CASE Expire(m)
      <3>1. \A n \in Migrations : Pending(n)' => Pending(n)
        BY <1>1, <2>1 DEF Expire, RowStates, Pending
      <3> QED
        BY <3>1, TallyGrows
    <2>2. CASE Retry(m)
      <3> DEFINE S == Settled
                 T == Settled'
      <3>1. IsFiniteSet(S) /\ Cardinality(S) \in Nat /\ Tally = Cardinality(S) + events.retry
        BY TallyType DEF Tally
      <3>2. Tally' = Cardinality(T) + events'.retry
        BY DEF Tally
      <3>3. events'.retry = events.retry + 1 /\ events.retry \in Nat
        BY <2>2, CountStep DEF Kinds, Retry, EventsOK
      <3>4. S \ {m} = T \ {m}
        BY <1>2 DEF Settled
      <3> HIDE DEF S, T
      <3>5. IsFiniteSet(T) /\ IsFiniteSet(S \ {m}) /\ Cardinality(T) \in Nat
            /\ Cardinality(S) <= Cardinality(S \ {m}) + 1 /\ Cardinality(S \ {m}) <= Cardinality(T)
        <4>1. IsFiniteSet(S \ {m}) /\ Cardinality(S \ {m}) \in Nat
          BY <3>1, FS_Difference, FS_CardinalityType, FS_RemoveElement
        <4>2. Cardinality(S) <= Cardinality(S \ {m}) + 1
          BY <3>1, <4>1, FS_RemoveElement
        <4>3. T \subseteq (S \ {m}) \cup {m} /\ S \ {m} \subseteq T
          BY <3>4
        <4>4. IsFiniteSet((S \ {m}) \cup {m})
          BY <4>1, FS_AddElement
        <4>5. IsFiniteSet(T)
          BY <4>3, <4>4, FS_Subset
        <4> QED
          BY <4>1, <4>2, <4>3, <4>5, FS_Subset, FS_CardinalityType
      <3>6. Cardinality(S \ {m}) \in Nat
        BY <3>5, FS_CardinalityType
      <3> QED
        BY <3>1, <3>2, <3>3, <3>5, <3>6
    <2> QED
      BY <2>1, <2>2
  <1>4. ASSUME NEW w \in Workers PROVE Paid(w)'
    <2>1. Paid(w) /\ Held(w) /\ worker[w] \in Managers
      BY <1>1 DEF IInv, Shape
    <2>2. /\ worker[w].active \in Migrations \cup {None} /\ worker[w].cur \in Migrations \cup {None}
          /\ worker[w].chains \in Nat /\ worker[w].chains <= Tally + Late(w) + Spent(w)
      BY <2>1 DEF Managers, Paid
    <2>3. /\ Late(w)' = Late(w) /\ Spent(w)' = Spent(w) /\ Late(w) \in {0, 1} /\ Spent(w) \in {0, 1}
          /\ Loose(w)' = Loose(w) /\ Ended(w)' = Ended(w)
      BY <1>1 DEF Late, Spent, Loose, Ended, At
    <2>4. worker'[w].chains <= Tally' + Late(w)' + Spent(w)'
      BY <1>1, <1>3, <2>2, <2>3
    <2>5. \A n \in Migrations : Fenced(w, n) => Fenced(w, n)'
      BY <1>2 DEF Fenced, Owns
    <2>6. worker[w].at \in {"run", "finish", "fail", "validate", "invalid"} => worker[w].cur \in Migrations
      BY <2>1, <2>2 DEF Held
    <2>7. worker'[w].close # "open" => events'.close > 0
      BY <1>1, <2>1 DEF Paid, EventsOK
    <2>8. Earned(w) => Earned(w)'
      BY <1>1, <1>3, <2>2, <2>3 DEF Earned
    <2> QED
      BY <1>1, <2>1, <2>2, <2>3, <2>4, <2>5, <2>6, <2>7, <2>8 DEF Paid, At
  <1> QED
    BY <1>4

(* A throw ends the loop, or has its row on the tally, or nothing was done. *)
LEMMA PaidThrows ==
    ASSUME IInv, EventsOK, EventsOK', \A w \in Workers : Paid(w), NEW v \in Workers, Throws(v),
           events'.close >= events.close, events'.retry >= events.retry
    PROVE  \A w \in Workers : Paid(w)'
PROOF
  <1>1. Shape /\ worker[v] \in Managers /\ Paid(v) /\ Held(v)
    BY DEF IInv, Shape
  <1>2. PICK st : Thrown(v, st)
    BY <1>1, ThrownTo
  <1>3. RowStep(v) /\ \A m \in Migrations : Pending(m)' => Pending(m)
    BY ThrownRowStep
  <1>4. /\ Tally \in Nat /\ Tally' \in Nat /\ Tally <= Tally'
        /\ \A m \in Migrations : Pending(m) /\ ~Pending(m)' => Tally + 1 <= Tally'
    BY <1>3, TallyGrows
  <1>5. /\ worker[v].chains \in Nat /\ worker[v].chains <= Tally + Late(v) + Spent(v)
        /\ Late(v) \in {0, 1} /\ Spent(v) \in {0, 1}
        /\ worker'[v] = st /\ st.chains = worker[v].chains /\ st.close = worker[v].close
        /\ st.cur = worker[v].cur
    BY <1>1, <1>2 DEF Managers, Paid, Late, Spent, Thrown
  <1>6. worker'[v].close # "open" => events'.close > 0
    BY <1>1, <1>5 DEF Paid, EventsOK
  <1>7. CASE st.at = "rejected"
    <2>1. ~Loose(v)' /\ Ended(v)' = Ended(v) /\ Spent(v)' = 1
      BY <1>5, <1>7 DEF Loose, Ended, Spent, Working, At
    <2>2. Late(v)' \in {0, 1} /\ Late(v) <= Late(v)'
      BY <1>5, <2>1 DEF Late
    <2>3. worker'[v].chains <= Tally' + Late(v)' + Spent(v)'
      BY <1>4, <1>5, <2>1, <2>2
    <2> QED
      BY <1>2, <1>3, <1>5, <1>6, <1>7, <2>1, <2>3, PaidBy DEF Paid, At, Thrown
  <1>8. CASE st.at = "fail"
    <2>1. At(v, "finish") /\ st.active = worker[v].active
      BY <1>2, <1>8 DEF Thrown
    <2>2. /\ Loose(v)' = Loose(v) /\ Ended(v)' = Ended(v) /\ Late(v)' = Late(v)
          /\ Spent(v)' = 1 /\ Spent(v) = 1 /\ (Loose(v) => Ended(v))
      BY <1>1, <1>5, <1>8, <2>1 DEF Loose, Ended, Late, Spent, Working, At, Paid
    <2>3. worker'[v].chains <= Tally' + Late(v)' + Spent(v)'
      BY <1>4, <1>5, <2>2
    <2>4. /\ worker[v].cur \in Migrations /\ Fenced(v, worker[v].cur)
          /\ UNCHANGED row \/ (Owns(v, worker[v].cur) /\ Finish(worker[v].cur))
      BY <1>1, <2>1, ThrownRows DEF Held, Managers, Paid, At
    <2>5. Fenced(v, worker[v].cur)' \/ Earned(v)'
      <3>1. CASE UNCHANGED row
        BY <1>5, <2>4, <3>1 DEF Fenced, Owns, Pending
      <3>2. CASE Owns(v, worker[v].cur) /\ Finish(worker[v].cur)
        <4>1. Tally + 1 <= Tally'
          BY <1>1, <1>4, <2>4, <3>2, SettledRow DEF Fenced
        <4> QED
          BY <1>4, <1>5, <2>2, <4>1 DEF Earned
      <3> QED
        BY <2>4, <3>1, <3>2
    <2> QED
      BY <1>2, <1>3, <1>5, <1>6, <1>8, <2>2, <2>3, <2>5, PaidBy DEF Paid, At, Thrown
  <1> QED
    BY <1>2, <1>7, <1>8 DEF Thrown

LEMMA PaidNext ==
    IInv /\ EventsOK /\ (\A w \in Workers : Paid(w)) /\ [Next]_vars => (\A w \in Workers : Paid(w))'
PROOF
  <1> SUFFICES ASSUME IInv, EventsOK, \A w \in Workers : Paid(w), [Next]_vars
               PROVE  \A w \in Workers : Paid(w)'
    OBVIOUS
  <1>1. EventsOK' /\ events'.close >= events.close /\ events'.retry >= events.retry
    BY EventsStep
  <1>2. Shape
    BY DEF IInv
  <1>3. ASSUME NEW v \in Workers, RunStep(v) \/ HeartBeat(v)
        PROVE  \A w \in Workers : Paid(w)'
    <2>1. CASE Pick(v)
      BY <2>1, PaidPick DEF Pick
    <2>2. CASE FirstBeat(v) \/ HeartBeat(v)
      BY <2>2, PaidBeats DEF FirstBeat, HeartBeat
    <2>3. CASE Validate(v) \/ RunCompletes(v) \/ RunAborts(v) \/ RunThrows(v)
      BY <2>3, PaidMoves DEF Validate, RunCompletes, RunAborts, RunThrows
    <2>4. CASE MarkInvalid(v) \/ MarkFinished(v) \/ MarkFailed(v)
      BY <2>4, PaidSettles DEF MarkInvalid, MarkFinished, MarkFailed
    <2> QED
      BY <1>3, <2>1, <2>2, <2>3, <2>4 DEF RunStep
  <1>4. ASSUME NEW v \in Workers, Kill(v) \/ Restart(v)
        PROVE  \A w \in Workers : Paid(w)'
    <2>1. UNCHANGED row /\ \E st \in {Fresh, [Fresh EXCEPT !.at = "dead"]} : Become(v, st)
      BY <1>4 DEF Kill, Restart
    <2>2. PICK st \in {Fresh, [Fresh EXCEPT !.at = "dead"]} : Become(v, st)
      BY <2>1
    <2>3. /\ worker'[v] = st /\ st.at \in {"pick", "dead"} /\ st.more /\ st.chains = 0
          /\ st.close = "open"
      BY <1>2, <2>2 DEF Become, Shape, Fresh
    <2>4. RowStep(v) /\ \A m \in Migrations : Pending(m)' = Pending(m)
      BY <1>2, <2>1, NoRowChange
    <2>5. Tally' \in Nat
      BY <1>1, <2>4, TallyGrows
    <2>6. worker'[v].chains <= Tally' + Late(v)' + Spent(v)'
      BY <2>3, <2>5 DEF Late, Spent
    <2>7. Paid(v)'
      BY <2>3, <2>6 DEF Paid, Loose, Working, At
    <2> QED
      BY <1>1, <2>2, <2>4, <2>7, PaidBy
  <1>5. ASSUME NEW v \in Workers, CloseAbort(v) \/ CloseStep(v)
        PROVE  \A w \in Workers : Paid(w)'
    BY <1>1, <1>5, PaidCloses DEF CloseStep
  <1>8. ASSUME NEW v \in Workers, Throws(v) PROVE \A w \in Workers : Paid(w)'
    BY <1>1, <1>8, PaidThrows
  <1>6. ASSUME NEW m \in Migrations, Retry(m) \/ Expire(m)
        PROVE  \A w \in Workers : Paid(w)'
    BY <1>1, <1>6, PaidOutside
  <1>7. CASE UNCHANGED vars
    BY <1>7 DEF vars, Paid, Earned, Loose, Ended, Late, Spent, Fenced, Owns, Pending, Tally,
                Settled, At
  <1> QED
    BY <1>3, <1>4, <1>5, <1>6, <1>7, <1>8 DEF Next

-----------------------------------------------------------------------------
(* The rest of TypeOK.                                                     *)

Rest ==
    /\ \A m \in Migrations : row[m].lease # "none" => row[m].holder \in Workers
    /\ done \subseteq Migrations
    /\ Happened <= MaxEvents

LEMMA RestNext == IInv /\ EventsOK /\ Rest /\ [Next]_vars => Rest'
PROOF
  <1> SUFFICES ASSUME IInv, EventsOK, Rest, [Next]_vars PROVE Rest'
    OBVIOUS
  <1>1. Shape /\ row \in [Migrations -> RowStates]
    BY DEF IInv, Shape
  <1>2. Happened' <= MaxEvents
    <2>1. CASE UNCHANGED events
      BY <2>1 DEF Rest, Happened
    <2>2. ASSUME NEW kind \in Kinds, Count(kind) PROVE Happened' <= MaxEvents
      BY <2>2, BoundAssumption DEF Count, EventsOK, Happened, Kinds
    <2>3. UNCHANGED events \/ \E kind \in Kinds : Count(kind)
      BY DEF Next, vars, RunStep, HeartBeat, CloseStep, Restart, Pick, FirstBeat, Validate, MarkInvalid,
             RunCompletes, RunAborts, RunThrows, MarkFinished, MarkFailed, CloseUnlock, CloseClear,
             CloseAbort, Kill, Retry, Expire, Throws, Kinds
    <2> QED
      BY <2>1, <2>2, <2>3
  <1>3. done' \subseteq Migrations
    <2>1. ASSUME NEW v \in Workers, RunCompletes(v) PROVE done' \subseteq Migrations
      <3>1. worker[v].cur \in Migrations
        BY <2>1 DEF RunCompletes, At, IInv, Shape, Held, Managers
      <3> QED
        BY <2>1, <3>1 DEF Rest, RunCompletes
    <2>2. UNCHANGED done \/ \E v \in Workers : RunCompletes(v)
      BY DEF Next, vars, RunStep, HeartBeat, CloseStep, Restart, Pick, FirstBeat, Validate, MarkInvalid,
             RunAborts, RunThrows, MarkFinished, MarkFailed, CloseUnlock, CloseClear,
             CloseAbort, Kill, Retry, Expire, Throws
    <2> QED
      BY <2>1, <2>2 DEF Rest
  <1>4. ASSUME NEW m \in Migrations, row'[m].lease # "none" PROVE row'[m].holder \in Workers
    <2>1. ASSUME NEW v \in Workers, NEW n \in Migrations, Acquire(v, n)
          PROVE  row'[m].holder \in {v, row[m].holder} /\ (m # n => row'[m] = row[m])
                 /\ (m = n => row'[m].holder = v)
      BY <1>1, <2>1 DEF Acquire, RowStates
    <2>2. ASSUME NEW v \in Workers, row' = Renewed(v)
          PROVE  row'[m].holder = row[m].holder /\ (row'[m].lease # row[m].lease => Owns(v, m))
      <3>1. \/ row' = row
            \/ \E n \in Migrations : Owns(v, n) /\ row' = [row EXCEPT ![n].lease = "fresh"]
        BY <2>2 DEF Renewed, IInv, Shape, Managers
      <3> QED
        BY <1>1, <3>1 DEF RowStates
    <2>3. ASSUME NEW n \in Migrations,
                 \/ Fail(n) \/ Finish(n)
                 \/ row' = [row EXCEPT ![n].lease = "none"]
                 \/ row' = [row EXCEPT ![n].failed = FALSE, ![n].finished = FALSE]
                 \/ row[n].lease = "fresh" /\ row' = [row EXCEPT ![n].lease = "stale"]
          PROVE  row'[m].holder = row[m].holder /\ row[m].lease # "none"
      BY <1>1, <1>4, <2>3 DEF Fail, Finish, RowStates
    <2>4. CASE UNCHANGED row
      BY <1>4, <2>4 DEF Rest
    <2>5. ASSUME NEW v \in Workers, RunStep(v) PROVE row'[m].holder \in Workers
      <3>1. CASE Pick(v)
        <4>1. UNCHANGED row \/ \E n \in Candidates(v) : Acquire(v, n)
          BY <3>1 DEF Pick, NothingToRun
        <4>2. Candidates(v) \subseteq Migrations
          BY EnabledAssumption DEF Candidates
        <4> QED
          BY <1>4, <2>1, <2>4, <4>1, <4>2 DEF Rest
      <3>2. CASE FirstBeat(v)
        BY <1>4, <2>2, <3>2 DEF FirstBeat, Owns, Rest
      <3>3. CASE MarkInvalid(v) \/ MarkFinished(v) \/ MarkFailed(v)
        <4>1. worker[v].cur \in Migrations
          BY <3>3 DEF MarkInvalid, MarkFinished, MarkFailed, At, IInv, Shape, Held, Managers
        <4>2. \/ UNCHANGED row
              \/ Fail(worker[v].cur) \/ Finish(worker[v].cur)
          BY <3>3 DEF MarkInvalid, MarkFinished, MarkFailed
        <4> QED
          BY <1>4, <2>3, <2>4, <4>1, <4>2 DEF Rest
      <3>4. CASE Validate(v) \/ RunCompletes(v) \/ RunAborts(v) \/ RunThrows(v)
        BY <2>4, <3>4 DEF Validate, RunCompletes, RunAborts, RunThrows
      <3> QED
        BY <2>5, <3>1, <3>2, <3>3, <3>4 DEF RunStep
    <2>6. ASSUME NEW v \in Workers, CloseUnlock(v) PROVE row'[m].holder \in Workers
      <3>1. worker[v].active \in Migrations \cup {None}
        BY <1>1 DEF Shape, Managers
      <3>2. \/ UNCHANGED row
            \/ worker[v].active # None /\ row' = [row EXCEPT ![worker[v].active].lease = "none"]
        BY <2>6 DEF CloseUnlock
      <3> QED
        BY <1>4, <2>3, <2>4, <3>1, <3>2 DEF Rest
    <2>7. ASSUME NEW n \in Migrations, Retry(n) \/ Expire(n) PROVE row'[m].holder \in Workers
      BY <1>4, <2>3, <2>7 DEF Retry, Expire, Rest
    <2>8. ASSUME NEW v \in Workers, HeartBeat(v) PROVE row'[m].holder \in Workers
      BY <1>4, <2>2, <2>8 DEF HeartBeat, Owns, Rest
    <2>9. ASSUME NEW v \in Workers, CloseAbort(v) \/ CloseClear(v) \/ Kill(v) \/ Restart(v)
          PROVE  row'[m].holder \in Workers
      BY <2>4, <2>9 DEF CloseAbort, CloseClear, Kill, Restart
    <2>10. ASSUME NEW v \in Workers, Throws(v) PROVE row'[m].holder \in Workers
      <3>1. ASSUME NEW n \in Candidates(v), Taken(v, n) PROVE row'[m].holder \in Workers
        <4>1. n \in Migrations
          BY EnabledAssumption DEF Candidates
        <4> QED
          BY <1>1, <1>4, <3>1, <4>1, TakenRows DEF Rest
      <3>2. CASE row' = Renewed(v)
        BY <1>4, <2>2, <3>2 DEF Owns, Rest
      <3>3. CASE /\ worker[v].cur \in Migrations
                 /\ Fail(worker[v].cur) \/ Finish(worker[v].cur)
        BY <1>4, <2>3, <3>3 DEF Rest
      <3> QED
        BY <2>4, <2>10, <3>1, <3>2, <3>3, ThrownRows
    <2> QED
      BY <2>4, <2>5, <2>6, <2>7, <2>8, <2>9, <2>10 DEF Next, CloseStep, vars
  <1> QED
    BY <1>2, <1>3, <1>4 DEF Rest

(* Rows and managers keep their shape, and every manager's heartbeat       *)
(* chains stay below the number of rows and of outside events, for any     *)
(* number of workers, migrations and events.                               *)
THEOREM Typing == Spec => []TypeOK
PROOF
  <1> DEFINE AllPaid == \A w \in Workers : Paid(w)
  <1>1. Init => AllPaid /\ Rest
    <2> SUFFICES ASSUME Init PROVE AllPaid /\ Rest
      OBVIOUS
    <2>1. Tally \in Nat
      BY TallyType DEF Init, EventsOK
    <2>2. AllPaid
      BY <2>1 DEF Init, Paid, Fresh, At, Loose, Working, Late, Spent, Ended
    <2>3. Rest
      BY BoundAssumption DEF Init, Rest, Happened
    <2> QED
      BY <2>2, <2>3
  <1>2. IInv /\ EventsOK /\ AllPaid /\ [Next]_vars => AllPaid'
    BY PaidNext
  <1>3. IInv /\ EventsOK /\ AllPaid /\ Rest => TypeOK
    <2> SUFFICES ASSUME IInv, EventsOK, AllPaid, Rest PROVE TypeOK
      OBVIOUS
    <2>1. ASSUME NEW w \in Workers PROVE worker[w] \in WorkerStates
      <3>1. worker[w] \in Managers /\ Paid(w)
        BY DEF IInv, Shape
      <3>2. /\ worker[w].chains \in Nat /\ worker[w].chains <= Tally + Late(w) + Spent(w)
            /\ Late(w) \in {0, 1} /\ Spent(w) \in {0, 1}
            /\ Late(w) = 1 => events.close > 0
        BY <3>1 DEF Managers, Paid, Late, Spent, Ended
      <3>3. /\ Tally = Cardinality(Settled) + events.retry /\ Cardinality(Settled) \in Nat
            /\ Cardinality(Migrations) \in Nat /\ Cardinality(Settled) <= Cardinality(Migrations)
            /\ events.retry \in Nat /\ events.close \in Nat
            /\ events.kill \in Nat /\ events.stall \in Nat /\ events.throw \in Nat
        BY TallyType DEF Tally, EventsOK
      <3>4. /\ events.kill + events.close + events.retry + events.stall + events.throw <= MaxEvents
            /\ MaxEvents \in Nat
        BY BoundAssumption DEF Rest, Happened
      <3>5. worker[w].chains \in 0..Cardinality(Migrations) + MaxEvents + 1
        BY <3>2, <3>3, <3>4
      <3> QED
        BY <3>1, <3>5 DEF Managers, WorkerStates
    <2>2. worker \in [Workers -> WorkerStates]
      BY <2>1 DEF IInv, Shape
    <2> QED
      BY <2>2 DEF TypeOK, IInv, Shape, Held, Rest, Working
  <1> HIDE DEF AllPaid
  <1>4. IInv /\ EventsOK /\ Rest /\ [Next]_vars => Rest'
    BY RestNext
  <1> QED
    BY <1>1, <1>2, <1>3, <1>4, EventsAlways, IInvAlways, PTL DEF Spec
=============================================================================
