------------------------ MODULE TraceBatchingProofs ------------------------
(***************************************************************************)
(* Proofs about TraceBatching, for any traces, dispatchers, sizes and      *)
(* bounds: an update that came after a dispatcher read its trace is not    *)
(* acknowledged with it, an update is in one job more than there were      *)
(* faults at most, and what is known of a pending trace is of all its      *)
(* updates.                                                                *)
(*                                                                         *)
(* The revision in Redis is that of the last update, and a dispatcher has  *)
(* settled the revisions that it is about to acknowledge. So one that      *)
(* still matches is the last, and settled. That the entries of a job are   *)
(* settled together needs that a run carries a trace only once.            *)
(*                                                                         *)
(* For the repetitions, PaidInv keeps an account: an update that may yet   *)
(* be added to a job again, and was added before, has a fault to show for  *)
(* it.                                                                     *)
(***************************************************************************)
EXTENDS TraceBatching, FiniteSetTheorems, TLAPS

Places == {"absent", "waiting", "ready", "late"}
Stages == {"off", "snapshot", "hydrate", "enqueue", "add", "flush"}

PendingStates == [at : Places, rev : Nat, known : SUBSET Nat, count : Nat]
HistoryStates == [known : SUBSET Nat, count : Nat]
EntryStates == [trace : Traces, rev : Nat, count : Nat]

RunStates ==
    [at : Stages, members : SUBSET Traces, held : SUBSET EntryStates, batch : SUBSET EntryStates,
     out : SUBSET EntryStates, final : BOOLEAN, stopping : BOOLEAN]

Shape ==
    /\ pending \in [Traces -> PendingStates] /\ history \in [Traces -> HistoryStates]
    /\ last \in [Traces -> Nat] /\ settled \in [Traces -> Nat]
    /\ dispatcher \in [Dispatchers -> RunStates]

(* What is pending is the last update; what is not is settled.             *)
Current ==
    \A x \in Traces :
        /\ settled[x] <= last[x]
        /\ IF Is(x, "absent") THEN last[x] <= settled[x] ELSE pending[x].rev = last[x]

(* A run carries a trace once, nothing newer than the last update, and has *)
(* settled what it goes on to acknowledge.                                 *)
Distinct(entries) == \A e, f \in entries : e.trace = f.trace => e = f
UpTo(entries, bound) == \A e \in entries : e.rev <= bound[e.trace]

RunOK(state, newest, done) ==
    /\ state.at = "snapshot" => state.held = {}
    /\ Distinct(state.held) /\ Distinct(state.batch)
    /\ \A e \in state.held : e.trace \notin state.members
    /\ UpTo(state.held, newest) /\ UpTo(state.batch, newest)
    /\ UpTo(state.out, done)

RunsOK == \A d \in Dispatchers : RunOK(dispatcher[d], last, settled)

IInv == Shape /\ Current /\ RunsOK

-----------------------------------------------------------------------------
(* What a run may rely on still holds when time has passed.                *)
LEMMA LaterOK ==
    ASSUME NEW state \in RunStates,
           NEW newest \in [Traces -> Nat], NEW later \in [Traces -> Nat],
           NEW done \in [Traces -> Nat], NEW more \in [Traces -> Nat],
           \A x \in Traces : newest[x] <= later[x] /\ done[x] <= more[x],
           RunOK(state, newest, done)
    PROVE  RunOK(state, later, more)
PROOF
  <1>1. ASSUME NEW entries \in SUBSET EntryStates, NEW low \in [Traces -> Nat],
               NEW high \in [Traces -> Nat], \A x \in Traces : low[x] <= high[x],
               UpTo(entries, low)
        PROVE  UpTo(entries, high)
    <2> SUFFICES ASSUME NEW e \in entries PROVE e.rev <= high[e.trace]
      BY DEF UpTo
    <2>1. e.rev \in Nat /\ e.trace \in Traces /\ e.rev <= low[e.trace]
      BY <1>1 DEF UpTo, EntryStates
    <2> QED
      BY <1>1, <2>1
  <1>2. /\ state.held \in SUBSET EntryStates /\ state.batch \in SUBSET EntryStates
        /\ state.out \in SUBSET EntryStates
    BY DEF RunStates
  <1> QED
    BY <1>1, <1>2 DEF RunOK

(* A step of one dispatcher that leaves Redis alone.                       *)
LEMMA DispatcherMoves ==
    ASSUME IInv, NEW d \in Dispatchers, NEW state \in RunStates, Become(d, state),
           UNCHANGED <<store, last, settled>>, RunOK(state, last, settled)
    PROVE  IInv'
PROOF
  <1>1. /\ UNCHANGED <<pending, history, last, settled>> /\ Shape
        /\ dispatcher' = [dispatcher EXCEPT ![d] = state]
    BY DEF IInv, Become, store
  <1>2. Shape'
    BY <1>1 DEF Shape
  <1>3. Current'
    BY <1>1 DEF IInv, Current, Is
  <1>4. ASSUME NEW s \in Dispatchers PROVE RunOK(dispatcher'[s], last, settled)
    BY <1>1 DEF IInv, RunsOK, Shape
  <1> QED
    BY <1>1, <1>2, <1>3, <1>4 DEF IInv, RunsOK

(* A step that changes what is pending or settled, and of the dispatchers  *)
(* at most one.                                                            *)
LEMMA RedisMoves ==
    ASSUME IInv, NEW d \in Dispatchers, NEW state \in RunStates, Become(d, state),
           pending' \in [Traces -> PendingStates], history' \in [Traces -> HistoryStates],
           settled' \in [Traces -> Nat], UNCHANGED last, Current',
           \A x \in Traces : settled[x] <= settled'[x],
           RunOK(state, last, settled')
    PROVE  IInv'
PROOF
  <1>1. Shape /\ dispatcher' = [dispatcher EXCEPT ![d] = state]
    BY DEF IInv, Become
  <1>2. Shape'
    BY <1>1 DEF Shape
  <1>3. ASSUME NEW s \in Dispatchers PROVE RunOK(dispatcher'[s], last, settled')
    <2>1. CASE s = d
      BY <1>1, <2>1 DEF Shape
    <2>2. CASE s # d
      <3>1. dispatcher'[s] = dispatcher[s] /\ dispatcher[s] \in RunStates
        BY <1>1, <2>2 DEF Shape
      <3>2. RunOK(dispatcher[s], last, settled) /\ last \in [Traces -> Nat] /\ settled \in [Traces -> Nat]
        BY DEF IInv, RunsOK, Shape
      <3>3. \A x \in Traces : last[x] <= last[x] /\ settled[x] <= settled'[x]
        BY <3>2
      <3> HIDE DEF RunOK
      <3> QED
        BY <3>1, <3>2, <3>3, LaterOK
    <2> QED
      BY <2>1, <2>2
  <1> QED
    BY <1>2, <1>3 DEF IInv, RunsOK

-----------------------------------------------------------------------------
(* The operators of the scripts.                                           *)

LEMMA DispatcherType ==
    ASSUME IInv, NEW d \in Dispatchers
    PROVE  dispatcher[d] \in RunStates /\ RunOK(dispatcher[d], last, settled)
PROOF BY DEF IInv, Shape, RunsOK

LEMMA EntriesRead ==
    ASSUME IInv, NEW S \in SUBSET Traces, \A x \in S : ~Is(x, "absent")
    PROVE  /\ Entries(S) \in SUBSET EntryStates /\ Distinct(Entries(S))
           /\ UpTo(Entries(S), last) /\ \A e \in Entries(S) : e.trace \in S
PROOF BY DEF IInv, Shape, PendingStates, Current, Entries, Entry, EntryStates, Distinct, UpTo

(* What is expired, excluded or dispatched at its last revision is settled. *)
LEMMA SettledEntries ==
    ASSUME IInv, NEW S \in SUBSET Traces, \A x \in S : ~Is(x, "absent"), Settle(Entries(S))
    PROVE  /\ settled' \in [Traces -> Nat]
           /\ \A x \in S : settled'[x] = last[x]
           /\ \A x \in Traces \ S : settled'[x] = settled[x]
           /\ \A x \in Traces : settled[x] <= settled'[x] /\ settled'[x] <= last[x]
PROOF
  <1>1. ASSUME NEW x \in S PROVE settled'[x] = last[x]
    <2>1. Entry(x) \in Entries(S) /\ Entry(x).trace = x /\ Entry(x).rev = last[x]
      BY DEF Entries, Entry, IInv, Current
    <2>2. \A e \in Entries(S) : e.trace = x => e = Entry(x)
      BY DEF Entries, Entry
    <2>3. (CHOOSE e \in Entries(S) : e.trace = x) = Entry(x)
      BY <2>1, <2>2
    <2> QED
      BY <2>1, <2>3 DEF Settle
  <1>2. ASSUME NEW x \in Traces \ S PROVE settled'[x] = settled[x]
    <2>1. ~ \E e \in Entries(S) : e.trace = x
      BY DEF Entries, Entry
    <2> QED
      BY <2>1 DEF Settle
  <1>3. \A x \in Traces : settled[x] \in Nat /\ last[x] \in Nat /\ settled[x] <= last[x]
    BY DEF IInv, Shape, Current
  <1>4. \A x \in Traces : settled'[x] \in Nat
    BY <1>1, <1>2, <1>3
  <1>5. settled' = [x \in Traces |-> settled'[x]]
    BY DEF Settle
  <1> QED
    BY <1>1, <1>2, <1>3, <1>4, <1>5

(* An acknowledgement takes out only what is settled.                      *)
LEMMA Acknowledging ==
    ASSUME IInv, NEW e \in EntryStates, Acknowledge(e), UNCHANGED last,
           settled' \in [Traces -> Nat],
           \A x \in Traces : settled[x] <= settled'[x] /\ settled'[x] <= last[x],
           Acknowledged(e) => last[e.trace] <= settled'[e.trace]
    PROVE  /\ pending' \in [Traces -> PendingStates] /\ history' \in [Traces -> HistoryStates]
           /\ Current'
PROOF
  <1>1. Shape /\ Current /\ e.trace \in Traces
    BY DEF IInv, EntryStates
  <1>2. CASE ~Acknowledged(e)
    <2>1. UNCHANGED <<pending, history>>
      BY <1>2 DEF Acknowledge, store
    <2>2. ASSUME NEW x \in Traces
          PROVE  /\ settled'[x] <= last'[x]
                 /\ IF Is(x, "absent")' THEN last'[x] <= settled'[x] ELSE pending'[x].rev = last'[x]
      <3>1. last[x] \in Nat /\ settled[x] \in Nat /\ settled'[x] \in Nat
        BY <1>1 DEF Shape
      <3> QED
        BY <1>1, <2>1, <3>1 DEF Current, Is
    <2> QED
      BY <1>1, <2>1, <2>2 DEF Shape, Current
  <1>3. CASE Acknowledged(e)
    <2>1. /\ pending' = [pending EXCEPT ![e.trace] = Absent]
          /\ history' = [history EXCEPT ![e.trace] = [known |-> pending[e.trace].known,
                                                      count |-> pending[e.trace].count]]
      BY <1>3 DEF Acknowledge
    <2>2. pending' \in [Traces -> PendingStates]
      BY <1>1, <2>1 DEF Shape, PendingStates, Places, Absent
    <2>3. history' \in [Traces -> HistoryStates]
      BY <1>1, <2>1 DEF Shape, PendingStates, HistoryStates
    <2>4. ASSUME NEW x \in Traces
          PROVE  /\ settled'[x] <= last'[x]
                 /\ IF Is(x, "absent")' THEN last'[x] <= settled'[x] ELSE pending'[x].rev = last'[x]
      <3>1. last[x] \in Nat /\ settled[x] \in Nat /\ settled'[x] \in Nat
        BY <1>1 DEF Shape
      <3>2. CASE x = e.trace
        BY <1>1, <1>3, <2>1, <3>1, <3>2 DEF Shape, Is, Absent
      <3>3. CASE x # e.trace
        <4>1. pending'[x] = pending[x]
          BY <1>1, <2>1, <3>3 DEF Shape
        <4> QED
          BY <1>1, <3>1, <4>1 DEF Current, Is
      <3> QED
        BY <3>2, <3>3
    <2> QED
      BY <2>2, <2>3, <2>4 DEF Current
  <1> QED
    BY <1>2, <1>3

-----------------------------------------------------------------------------
(* Time and updates.                                                       *)

LEMMA TimeStep == ASSUME IInv, NEW x \in Traces, Time(x) PROVE IInv'
PROOF
  <1>1. Shape /\ Current /\ RunsOK /\ UNCHANGED <<dispatcher, last, settled>>
    BY DEF IInv, Time, IdleTimePasses, GracePasses, HistoryExpires, ghosts
  <1>2. \/ /\ ~Is(x, "absent") /\ UNCHANGED history
           /\ \E place \in Places \ {"absent"} : pending' = [pending EXCEPT ![x].at = place]
        \/ UNCHANGED pending /\ history' = [history EXCEPT ![x] = Nothing]
    BY DEF Time, IdleTimePasses, GracePasses, HistoryExpires, Is, Places
  <1>3. Shape'
    <2>1. CASE /\ UNCHANGED history
               /\ \E place \in Places \ {"absent"} : pending' = [pending EXCEPT ![x].at = place]
      <3>1. pending[x] \in PendingStates
        BY <1>1 DEF Shape
      <3>2. pending' \in [Traces -> PendingStates]
        BY <1>1, <2>1, <3>1 DEF Shape, PendingStates
      <3> QED
        BY <1>1, <2>1, <3>2 DEF Shape
    <2>2. CASE UNCHANGED pending /\ history' = [history EXCEPT ![x] = Nothing]
      <3>1. Nothing \in HistoryStates
        BY DEF Nothing, HistoryStates
      <3> QED
        BY <1>1, <2>2, <3>1 DEF Shape
    <2> QED
      BY <1>2, <2>1, <2>2
  <1>4. Current'
    BY <1>1, <1>2 DEF Current, Shape, PendingStates, Is
  <1> QED
    BY <1>1, <1>3, <1>4 DEF IInv, RunsOK

(* An update is pending with a new revision; a run that collected its      *)
(* trace keeps what it read, and reads it no more.                         *)
LEMMA TrackStep == ASSUME IInv, NEW x \in Traces, Track(x) PROVE IInv'
PROOF
  <1> DEFINE n == last[x] + 1
             late == Late \ {x}
             now == [known |-> Before(x).known \cup {n}, count |-> Before(x).count + 1]
  <1>1. /\ pending' = ExpirePending([pending EXCEPT ![x] =
               [at |-> "waiting", rev |-> n, known |-> now.known, count |-> now.count]], late)
        /\ history' = [history EXCEPT ![x] = now] /\ last' = [last EXCEPT ![x] = n]
        /\ dispatcher' = [d \in Dispatchers |-> [dispatcher[d] EXCEPT !.members = @ \ {x}]]
        /\ Settle(Entries(late))
    BY DEF Track
  <1>2. Shape /\ Current /\ RunsOK
    BY DEF IInv
  <1>3. n \in Nat /\ now \in HistoryStates
    BY <1>2 DEF Shape, Before, PendingStates, HistoryStates
  <1>4. /\ settled' \in [Traces -> Nat] /\ \A q \in late : settled'[q] = last[q]
        /\ \A q \in Traces \ late : settled'[q] = settled[q]
        /\ \A q \in Traces : settled[q] <= settled'[q] /\ settled'[q] <= last[q]
    <2>1. late \in SUBSET Traces /\ \A q \in late : ~Is(q, "absent")
      BY DEF Late, Is
    <2> QED
      BY <1>1, <2>1, SettledEntries
  <1>5. pending' = [q \in Traces |-> IF q \in late THEN Absent
                      ELSE IF q = x THEN [at |-> "waiting", rev |-> n, known |-> now.known,
                                          count |-> now.count]
                      ELSE pending[q]]
    BY <1>1, <1>2 DEF ExpirePending, Shape
  <1>6. pending' \in [Traces -> PendingStates]
    BY <1>2, <1>3, <1>5 DEF Shape, PendingStates, HistoryStates, Places, Absent
  <1>7. \A d \in Dispatchers : dispatcher'[d] \in RunStates
    BY <1>1, <1>2 DEF Shape, RunStates
  <1>8. Shape'
    BY <1>1, <1>2, <1>3, <1>4, <1>6, <1>7 DEF Shape
  <1>9. ASSUME NEW q \in Traces
        PROVE  /\ settled'[q] <= last'[q]
               /\ IF Is(q, "absent")' THEN last'[q] <= settled'[q] ELSE pending'[q].rev = last'[q]
    <2>1. last[q] \in Nat /\ settled[q] \in Nat /\ settled'[q] \in Nat
      BY <1>2, <1>4 DEF Shape
    <2>2. CASE q = x
      <3>1. pending'[x] = [at |-> "waiting", rev |-> n, known |-> now.known, count |-> now.count]
        <4>1. x \notin late
          OBVIOUS
        <4> HIDE DEF n, late, now
        <4> QED
          BY <1>5, <4>1
      <3>2. pending'[x].at = "waiting" /\ pending'[x].rev = n
        BY <3>1
      <3>3. last'[x] = n /\ settled'[x] <= n
        BY <1>1, <1>2, <1>4, <2>1, <2>2 DEF Shape
      <3> QED
        BY <2>2, <3>2, <3>3 DEF Is
    <2>3. CASE q # x
      <3>1. last'[q] = last[q]
        BY <1>1, <1>2, <2>3 DEF Shape
      <3>2. CASE q \in late
        <4>1. pending'[q].at = "absent" /\ settled'[q] = last[q]
          BY <1>4, <1>5, <3>2 DEF Absent
        <4> QED
          BY <2>1, <3>1, <4>1 DEF Is
      <3>3. CASE q \notin late
        <4>1. pending'[q] = pending[q] /\ settled'[q] = settled[q]
          BY <1>4, <1>5, <2>3, <3>3
        <4> QED
          BY <1>2, <3>1, <4>1 DEF Is, Current
      <3> QED
        BY <3>2, <3>3
    <2> QED
      BY <2>2, <2>3
  <1>10. ASSUME NEW d \in Dispatchers PROVE RunOK(dispatcher'[d], last', settled')
    <2>1. dispatcher[d] \in RunStates /\ RunOK(dispatcher[d], last, settled)
      BY DispatcherType
    <2>2. \A q \in Traces : last[q] <= last'[q] /\ settled[q] <= settled'[q]
      BY <1>1, <1>2, <1>4 DEF Shape
    <2>3. RunOK(dispatcher[d], last', settled')
      <3> HIDE DEF RunOK
      <3> QED
        BY <1>2, <1>8, <2>1, <2>2, LaterOK DEF Shape
    <2>4. /\ dispatcher'[d].at = dispatcher[d].at /\ dispatcher'[d].held = dispatcher[d].held
          /\ dispatcher'[d].batch = dispatcher[d].batch /\ dispatcher'[d].out = dispatcher[d].out
          /\ dispatcher'[d].members \subseteq dispatcher[d].members
      BY <1>1, <2>1 DEF RunStates
    <2> QED
      BY <2>3, <2>4 DEF RunOK
  <1> QED
    BY <1>8, <1>9, <1>10 DEF IInv, Current, RunsOK

-----------------------------------------------------------------------------
(* The dispatchers.                                                        *)

(* A run that gives up some of what it carries.                            *)
LEMMA RunShrinks ==
    ASSUME IInv, NEW d \in Dispatchers, NEW state \in RunStates,
           state.at = "snapshot" => state.held = {},
           state.members \subseteq dispatcher[d].members, state.held \subseteq dispatcher[d].held,
           state.batch \subseteq dispatcher[d].batch \/ state.batch \subseteq dispatcher[d].held,
           state.out \subseteq dispatcher[d].out
    PROVE  RunOK(state, last, settled)
PROOF
  <1>1. RunOK(dispatcher[d], last, settled)
    BY DispatcherType
  <1>2. Distinct(state.held) /\ Distinct(state.batch)
    BY <1>1 DEF RunOK, Distinct
  <1>3. UpTo(state.held, last) /\ UpTo(state.batch, last) /\ UpTo(state.out, settled)
    BY <1>1 DEF RunOK, UpTo
  <1>4. \A e \in state.held : e.trace \notin state.members
    BY <1>1 DEF RunOK
  <1> QED
    BY <1>2, <1>3, <1>4 DEF RunOK

LEMMA OffType == Off \in RunStates /\ Off.members = {} /\ Off.held = {} /\ Off.batch = {} /\ Off.out = {}
PROOF BY DEF Off, RunStates, Stages

(* Begin, a run that is over, and a process that died.                     *)
LEMMA AnewStep ==
    ASSUME IInv, NEW d \in Dispatchers, Begin(d) \/ Finish(d) \/ Crash(d)
    PROVE  IInv'
PROOF
  <1>1. UNCHANGED <<store, last, settled>>
    BY DEF Begin, Finish, Crash, ghosts
  <1>2. Become(d, Off) \/ Become(d, [Off EXCEPT !.at = "snapshot"])
    BY DEF Begin, Finish, Crash
  <1>3. PICK state \in RunStates :
            /\ Become(d, state) /\ state.members = {} /\ state.held = {} /\ state.batch = {}
            /\ state.out = {}
    <2>1. LET s == [Off EXCEPT !.at = "snapshot"]
          IN  /\ s \in RunStates /\ s.members = {} /\ s.held = {} /\ s.batch = {} /\ s.out = {}
      BY DEF Off, RunStates, Stages
    <2> QED
      BY <1>2, <2>1, OffType
  <1>4. RunOK(state, last, settled)
    BY <1>3, RunShrinks
  <1> QED
    BY <1>1, <1>3, <1>4, DispatcherMoves

(* A run that fails, stops, goes on to its next window, or leaves a batch. *)
LEMMA QuietStep ==
    ASSUME IInv, NEW d \in Dispatchers,
           \/ LeaseLost(d) \/ ScriptFails(d) \/ Stopping(d) \/ Enqueue(d) \/ Carry(d)
           \/ NextWindow(d) \/ Stop(d)
    PROVE  IInv'
PROOF
  <1> DEFINE old == dispatcher[d]
  <1>1. UNCHANGED <<store, last, settled>>
    BY DEF LeaseLost, ScriptFails, Stopping, Enqueue, Carry, NextWindow, Stop, ghosts
  <1>2. old \in RunStates /\ (old.at = "snapshot" => old.held = {})
    BY DispatcherType DEF RunOK
  <1>3. \/ \E state \in RunStates :
               /\ Become(d, state) /\ state.at # "snapshot" /\ state.out = old.out
               /\ state.members \subseteq old.members /\ state.held \subseteq old.held
               /\ state.batch \subseteq old.batch \/ state.batch \subseteq old.held
        \/ \E state \in RunStates :
               /\ Become(d, state) /\ state.at = old.at /\ state.members = old.members
               /\ state.held = old.held /\ state.batch = old.batch /\ state.out = old.out
    <2>1. CASE LeaseLost(d) \/ ScriptFails(d) \/ Stopping(d)
      <3> DEFINE state == [old EXCEPT !.at = "flush", !.members = {}, !.held = {}, !.batch = {}]
      <3>1. Become(d, state)
        BY <2>1 DEF LeaseLost, ScriptFails, Stopping, Failing
      <3>2. /\ state \in RunStates /\ state.at = "flush" /\ state.out = old.out /\ state.members = {}
            /\ state.held = {} /\ state.batch = {}
        BY <1>2 DEF RunStates, Stages
      <3> QED
        BY <3>1, <3>2
    <2>2. CASE Enqueue(d)
      <3>1. PICK batch \in SUBSET old.held :
                Become(d, [old EXCEPT !.at = "add", !.batch = batch, !.held = @ \ batch])
        BY <2>2 DEF Enqueue
      <3> DEFINE state == [old EXCEPT !.at = "add", !.batch = batch, !.held = @ \ batch]
      <3>2. /\ state \in RunStates /\ state.at = "add" /\ state.out = old.out
            /\ state.members = old.members /\ state.held = old.held \ batch /\ state.batch = batch
        BY <1>2 DEF RunStates, Stages
      <3> QED
        BY <3>1, <3>2
    <2>3. CASE Carry(d) \/ NextWindow(d)
      <3>1. \E place \in {"flush", "hydrate", "enqueue"}, final \in BOOLEAN :
                Become(d, [old EXCEPT !.at = place, !.final = final])
        <4>1. ASSUME NEW place \in Stages
              PROVE  [old EXCEPT !.at = place] = [old EXCEPT !.at = place, !.final = old.final]
          BY <1>2 DEF RunStates
        <4>2. old.final \in BOOLEAN
          BY <1>2 DEF RunStates
        <4> QED
          BY <2>3, <4>1, <4>2 DEF Carry, NextWindow, Stages
      <3>2. PICK place \in {"flush", "hydrate", "enqueue"}, final \in BOOLEAN :
                Become(d, [old EXCEPT !.at = place, !.final = final])
        BY <3>1
      <3> DEFINE state == [old EXCEPT !.at = place, !.final = final]
      <3>3. /\ state \in RunStates /\ state.at = place /\ state.out = old.out
            /\ state.members = old.members /\ state.held = old.held /\ state.batch = old.batch
        BY <1>2 DEF RunStates, Stages
      <3> QED
        BY <3>2, <3>3
    <2>4. CASE Stop(d)
      <3> DEFINE state == [old EXCEPT !.stopping = TRUE]
      <3>1. Become(d, state)
        BY <2>4 DEF Stop
      <3>2. /\ state \in RunStates /\ state.at = old.at /\ state.out = old.out
            /\ state.members = old.members /\ state.held = old.held /\ state.batch = old.batch
        BY <1>2 DEF RunStates
      <3> QED
        BY <3>1, <3>2
    <2> QED
      BY <2>1, <2>2, <2>3, <2>4
  <1>4. PICK state \in RunStates :
            /\ Become(d, state) /\ (state.at = "snapshot" => state.held = {})
            /\ state.members \subseteq old.members /\ state.held \subseteq old.held
            /\ state.batch \subseteq old.batch \/ state.batch \subseteq old.held
            /\ state.out \subseteq old.out
    BY <1>2, <1>3
  <1>5. RunOK(state, last, settled)
    BY <1>4, RunShrinks
  <1> QED
    BY <1>1, <1>4, <1>5, DispatcherMoves

(* What is late is settled as it goes.                                     *)
LEMMA SnapshotStep == ASSUME IInv, NEW d \in Dispatchers, Snapshot(d) PROVE IInv'
PROOF
  <1> DEFINE due == {x \in Traces : Is(x, "ready")}
             state == [dispatcher[d] EXCEPT !.at = "hydrate", !.members = due]
  <1>1. /\ dispatcher[d].at = "snapshot" /\ Become(d, state) /\ UNCHANGED <<history, last>>
        /\ pending' = ExpirePending(pending, Late) /\ Settle(Entries(Late))
    BY DEF Snapshot, Going, At
  <1>2. Shape /\ Current
    BY DEF IInv
  <1>3. /\ settled' \in [Traces -> Nat] /\ \A x \in Late : settled'[x] = last[x]
        /\ \A x \in Traces \ Late : settled'[x] = settled[x]
        /\ \A x \in Traces : settled[x] <= settled'[x] /\ settled'[x] <= last[x]
    <2>1. Late \in SUBSET Traces /\ \A x \in Late : ~Is(x, "absent")
      BY DEF Late, Is
    <2> QED
      BY <1>1, <2>1, SettledEntries
  <1>4. pending' = [x \in Traces |-> IF x \in Late THEN Absent ELSE pending[x]]
    BY <1>1 DEF ExpirePending
  <1>5. pending' \in [Traces -> PendingStates]
    BY <1>2, <1>4 DEF Shape, PendingStates, Places, Absent
  <1>6. Current'
    <2> SUFFICES ASSUME NEW x \in Traces
                 PROVE  /\ settled'[x] <= last'[x]
                        /\ IF Is(x, "absent")' THEN last'[x] <= settled'[x]
                           ELSE pending'[x].rev = last'[x]
      BY DEF Current
    <2>1. last[x] \in Nat /\ last' = last
      BY <1>1, <1>2 DEF Shape
    <2>2. CASE x \in Late
      <3>1. pending'[x].at = "absent" /\ settled'[x] = last[x]
        BY <1>3, <1>4, <2>2 DEF Absent
      <3> QED
        BY <2>1, <3>1 DEF Is
    <2>3. CASE x \notin Late
      BY <1>2, <1>3, <1>4, <2>1, <2>3 DEF Current, Is
    <2> QED
      BY <2>2, <2>3
  <1>7. /\ dispatcher[d] \in RunStates /\ RunOK(dispatcher[d], last, settled)
        /\ dispatcher[d].held = {}
    BY <1>1, DispatcherType DEF RunOK
  <1>8. /\ state \in RunStates /\ state.at = "hydrate" /\ state.held = {}
        /\ state.batch = dispatcher[d].batch /\ state.out = dispatcher[d].out
    BY <1>7 DEF RunStates, Stages
  <1>9. RunOK(dispatcher[d], last, settled')
    <2>1. last \in [Traces -> Nat] /\ settled \in [Traces -> Nat]
      BY <1>2 DEF Shape
    <2>2. \A x \in Traces : last[x] <= last[x] /\ settled[x] <= settled'[x]
      BY <1>3, <2>1
    <2> QED
      BY <1>3, <1>7, <2>1, <2>2, LaterOK
  <1>10. RunOK(state, last, settled')
    BY <1>8, <1>9 DEF RunOK, Distinct, UpTo
  <1> QED
    <2> HIDE DEF state
    <2> QED
      BY <1>1, <1>2, <1>3, <1>5, <1>6, <1>8, <1>10, RedisMoves DEF Shape

(* A window moves from what was collected to what is carried.              *)
LEMMA HydrateStep == ASSUME IInv, NEW d \in Dispatchers, Hydrate(d) PROVE IInv'
PROOF
  <1> DEFINE old == dispatcher[d]
  <1>1. PICK window \in SUBSET old.members :
            Become(d, [old EXCEPT !.at = "enqueue", !.members = @ \ window,
                                  !.held = @ \cup Entries({x \in window : Is(x, "ready")})])
    BY DEF Hydrate
  <1> DEFINE read == Entries({x \in window : Is(x, "ready")})
             state == [old EXCEPT !.at = "enqueue", !.members = @ \ window, !.held = @ \cup read]
  <1>2. UNCHANGED <<store, last, settled>>
    BY DEF Hydrate, ghosts
  <1>3. old \in RunStates /\ RunOK(old, last, settled)
    BY DispatcherType
  <1>4. /\ read \in SUBSET EntryStates /\ Distinct(read) /\ UpTo(read, last)
        /\ \A e \in read : e.trace \in window
    <2>1. {x \in window : Is(x, "ready")} \in SUBSET Traces
      BY <1>3 DEF RunStates
    <2>2. \A x \in {y \in window : Is(y, "ready")} : ~Is(x, "absent")
      BY DEF Is
    <2> QED
      BY <2>1, <2>2, EntriesRead
  <1> HIDE DEF read
  <1>5. /\ state \in RunStates /\ state.at = "enqueue" /\ state.members = old.members \ window
        /\ state.held = old.held \cup read /\ state.batch = old.batch /\ state.out = old.out
    BY <1>3, <1>4 DEF RunStates, Stages
  <1>6. Distinct(state.held) /\ \A e \in state.held : e.trace \notin state.members
    BY <1>3, <1>4, <1>5 DEF RunOK, Distinct
  <1>7. UpTo(state.held, last)
    BY <1>3, <1>4, <1>5 DEF RunOK, UpTo
  <1>8. RunOK(state, last, settled)
    BY <1>3, <1>5, <1>6, <1>7 DEF RunOK
  <1>9. Become(d, state)
    BY <1>1 DEF read
  <1> QED
    <2> HIDE DEF state
    <2> QED
      BY <1>2, <1>5, <1>8, <1>9, DispatcherMoves

(* An excluded trace is acknowledged only at its last update.              *)
LEMMA ExcludeStep == ASSUME IInv, NEW d \in Dispatchers, Exclude(d) PROVE IInv'
PROOF
  <1>1. PICK e \in Oversized(d) :
            /\ Acknowledge(e) /\ UNCHANGED last
            /\ IF Acknowledged(e) THEN Settle({e}) ELSE UNCHANGED settled
            /\ Become(d, [dispatcher[d] EXCEPT !.held = @ \ {e}])
    BY DEF Exclude
  <1> DEFINE state == [dispatcher[d] EXCEPT !.held = @ \ {e}]
  <1>2. Shape /\ Current /\ dispatcher[d] \in RunStates /\ RunOK(dispatcher[d], last, settled)
    BY DispatcherType DEF IInv
  <1>3. e \in EntryStates /\ e \in dispatcher[d].held
    BY <1>2 DEF Oversized, RunStates
  <1>4. /\ settled' \in [Traces -> Nat]
        /\ \A x \in Traces : settled[x] <= settled'[x] /\ settled'[x] <= last[x]
        /\ Acknowledged(e) => last[e.trace] <= settled'[e.trace]
    <2>1. \A x \in Traces : settled[x] \in Nat /\ last[x] \in Nat /\ settled[x] <= last[x]
      BY <1>2 DEF Shape, Current
    <2>2. CASE ~Acknowledged(e)
      BY <1>1, <1>2, <2>1, <2>2 DEF Shape
    <2>3. CASE Acknowledged(e)
      <3>1. e.rev = last[e.trace] /\ e.trace \in Traces
        BY <1>2, <1>3, <2>3 DEF Acknowledged, Current, EntryStates
      <3>2. settled' = [x \in Traces |-> IF e.trace = x THEN e.rev ELSE settled[x]]
        <4>1. \A x \in Traces : (\E f \in {e} : f.trace = x) <=> e.trace = x
          OBVIOUS
        <4>2. \A x \in Traces : e.trace = x => (CHOOSE f \in {e} : f.trace = x) = e
          OBVIOUS
        <4> QED
          BY <1>1, <2>3, <4>1, <4>2 DEF Settle
      <3> QED
        BY <2>1, <3>1, <3>2
    <2> QED
      BY <2>2, <2>3
  <1>5. /\ pending' \in [Traces -> PendingStates] /\ history' \in [Traces -> HistoryStates]
        /\ Current'
    BY <1>1, <1>3, <1>4, Acknowledging
  <1>6. /\ state \in RunStates /\ state.held \subseteq dispatcher[d].held
        /\ state.at = dispatcher[d].at /\ state.members = dispatcher[d].members
        /\ state.batch = dispatcher[d].batch /\ state.out = dispatcher[d].out
    BY <1>2 DEF RunStates
  <1>7. RunOK(state, last, settled)
    <2>1. state.at = "snapshot" => state.held = {}
      BY <1>2, <1>6 DEF RunOK
    <2> HIDE DEF state
    <2> QED
      BY <1>6, <2>1, RunShrinks
  <1>8. RunOK(state, last, settled')
    <2>1. last \in [Traces -> Nat] /\ settled \in [Traces -> Nat]
      BY <1>2 DEF Shape
    <2>2. \A x \in Traces : last[x] <= last[x] /\ settled[x] <= settled'[x]
      BY <1>4, <2>1
    <2> HIDE DEF state
    <2> QED
      BY <1>4, <1>6, <1>7, <2>1, <2>2, LaterOK
  <1> QED
    <2> HIDE DEF state
    <2>1. Become(d, state)
      BY <1>1 DEF state
    <2> QED
      BY <1>1, <1>4, <1>5, <1>6, <1>8, <2>1, RedisMoves

LEMMA AddedSettles ==
    ASSUME IInv, NEW d \in Dispatchers, Added(dispatcher[d].batch)
    PROVE  /\ settled' \in [Traces -> Nat] /\ UNCHANGED last
           /\ \A x \in Traces : settled[x] <= settled'[x] /\ settled'[x] <= last[x]
           /\ UpTo(dispatcher[d].batch, settled')
PROOF
  <1> DEFINE batch == dispatcher[d].batch
  <1>1. /\ batch \in SUBSET EntryStates /\ Distinct(batch) /\ UpTo(batch, last)
    BY DispatcherType DEF RunOK, RunStates
  <1>2. \A x \in Traces : settled[x] \in Nat /\ last[x] \in Nat /\ settled[x] <= last[x]
    BY DEF IInv, Shape, Current
  <1>3. settled' = [x \in Traces |->
           IF \E e \in batch : e.trace = x /\ e.rev > settled[x]
           THEN (CHOOSE e \in batch : e.trace = x).rev ELSE settled[x]]
    BY DEF Added
  <1> HIDE DEF batch
  <1>4. ASSUME NEW e \in batch
        PROVE  (CHOOSE f \in batch : f.trace = e.trace) = e
    <2>1. \A f \in batch : f.trace = e.trace => f = e
      BY <1>1 DEF Distinct
    <2> QED
      BY <2>1
  <1>5. ASSUME NEW x \in Traces
        PROVE  settled'[x] \in Nat /\ settled[x] <= settled'[x] /\ settled'[x] <= last[x]
    <2>1. CASE \E e \in batch : e.trace = x /\ e.rev > settled[x]
      <3>1. PICK e \in batch : e.trace = x /\ e.rev > settled[x]
        BY <2>1
      <3>2. settled'[x] = e.rev
        BY <1>3, <1>4, <3>1
      <3>3. e.rev \in Nat /\ e.rev <= last[x]
        BY <1>1, <3>1 DEF EntryStates, UpTo
      <3> QED
        BY <1>2, <3>1, <3>2, <3>3
    <2>2. CASE ~ \E e \in batch : e.trace = x /\ e.rev > settled[x]
      BY <1>2, <1>3, <2>2
    <2> QED
      BY <2>1, <2>2
  <1>6. ASSUME NEW e \in batch PROVE e.rev <= settled'[e.trace]
    <2>1. e.trace \in Traces /\ e.rev \in Nat
      BY <1>1 DEF EntryStates
    <2>2. CASE e.rev > settled[e.trace]
      BY <1>3, <1>4, <2>1, <2>2
    <2>3. CASE ~(e.rev > settled[e.trace])
      BY <1>2, <1>5, <2>1, <2>3
    <2> QED
      BY <2>2, <2>3
  <1>7. settled' \in [Traces -> Nat]
    BY <1>3, <1>5
  <1> QED
    BY <1>5, <1>6, <1>7 DEF Added, UpTo, batch

(* Redis is left alone, and what is settled grows.                         *)
LEMMA SettledMore ==
    ASSUME IInv, settled' \in [Traces -> Nat], UNCHANGED <<pending, last>>,
           \A x \in Traces : settled[x] <= settled'[x] /\ settled'[x] <= last[x]
    PROVE  Current'
PROOF
  <1> SUFFICES ASSUME NEW x \in Traces
               PROVE  /\ settled'[x] <= last'[x]
                      /\ IF Is(x, "absent")' THEN last'[x] <= settled'[x]
                         ELSE pending'[x].rev = last'[x]
    BY DEF Current
  <1>1. settled[x] \in Nat /\ last[x] \in Nat /\ settled'[x] \in Nat
    BY DEF IInv, Shape
  <1> QED
    BY <1>1 DEF IInv, Current, Is

(* The entries of a job are settled as it is added.                        *)
LEMMA AddStep == ASSUME IInv, NEW d \in Dispatchers, Add(d) PROVE IInv'
PROOF
  <1> DEFINE old == dispatcher[d]
             state == [old EXCEPT !.at = "enqueue", !.batch = {}, !.out = @ \cup old.batch]
  <1>1. /\ Added(old.batch) /\ Become(d, state) /\ UNCHANGED <<pending, history>>
    BY DEF Add, store
  <1>2. Shape /\ old \in RunStates /\ RunOK(old, last, settled)
    BY DispatcherType DEF IInv
  <1>3. /\ settled' \in [Traces -> Nat] /\ UNCHANGED last
        /\ \A x \in Traces : settled[x] <= settled'[x] /\ settled'[x] <= last[x]
        /\ UpTo(old.batch, settled')
    BY <1>1, AddedSettles
  <1>4. Current'
    BY <1>1, <1>3, SettledMore
  <1>5. /\ state \in RunStates /\ state.at = "enqueue" /\ state.members = old.members
        /\ state.held = old.held /\ state.batch = {} /\ state.out = old.out \cup old.batch
    BY <1>2 DEF RunStates, Stages
  <1>6. RunOK(old, last, settled')
    <2>1. last \in [Traces -> Nat] /\ settled \in [Traces -> Nat]
      BY <1>2 DEF Shape
    <2>2. \A x \in Traces : last[x] <= last[x] /\ settled[x] <= settled'[x]
      BY <1>3, <2>1
    <2> QED
      BY <1>2, <1>3, <2>1, <2>2, LaterOK
  <1>7. RunOK(state, last, settled')
    BY <1>3, <1>5, <1>6 DEF RunOK, Distinct, UpTo
  <1> QED
    <2> HIDE DEF state
    <2> QED
      BY <1>1, <1>2, <1>3, <1>4, <1>5, <1>7, RedisMoves DEF Shape

LEMMA AddFailsStep == ASSUME IInv, NEW d \in Dispatchers, AddFails(d) PROVE IInv'
PROOF
  <1> DEFINE old == dispatcher[d]
             state == [old EXCEPT !.at = "flush", !.members = {}, !.held = {}, !.batch = {}]
  <1>1. Become(d, state) /\ UNCHANGED <<pending, history>>
    BY DEF AddFails, Failing, store
  <1>2. Shape /\ old \in RunStates /\ RunOK(old, last, settled)
    BY DispatcherType DEF IInv
  <1>3. /\ settled' \in [Traces -> Nat] /\ UNCHANGED last
        /\ \A x \in Traces : settled[x] <= settled'[x] /\ settled'[x] <= last[x]
    <2>1. CASE Added(old.batch)
      BY <2>1, AddedSettles
    <2>2. CASE UNCHANGED ghosts
      <3>1. settled' = settled /\ last' = last
        BY <2>2 DEF ghosts
      <3>2. \A x \in Traces : settled[x] \in Nat /\ last[x] \in Nat /\ settled[x] <= last[x]
        BY DEF IInv, Shape, Current
      <3> QED
        BY <1>2, <3>1, <3>2 DEF Shape
    <2> QED
      BY <2>1, <2>2 DEF AddFails
  <1>4. Current'
    BY <1>1, <1>3, SettledMore
  <1>5. /\ state \in RunStates /\ state.at = "flush" /\ state.members = {}
        /\ state.held = {} /\ state.batch = {} /\ state.out = old.out
    BY <1>2 DEF RunStates, Stages
  <1>6. RunOK(old, last, settled')
    <2>1. last \in [Traces -> Nat] /\ settled \in [Traces -> Nat]
      BY <1>2 DEF Shape
    <2>2. \A x \in Traces : last[x] <= last[x] /\ settled[x] <= settled'[x]
      BY <1>3, <2>1
    <2> QED
      BY <1>2, <1>3, <2>1, <2>2, LaterOK
  <1>7. RunOK(state, last, settled')
    BY <1>5, <1>6 DEF RunOK, Distinct, UpTo
  <1> QED
    <2> HIDE DEF state
    <2> QED
      BY <1>1, <1>2, <1>3, <1>4, <1>5, <1>7, RedisMoves DEF Shape

(* What still matches is the last update, and was settled with its job.    *)
LEMMA FlushStep == ASSUME IInv, NEW d \in Dispatchers, Flush(d) \/ FlushFails(d) PROVE IInv'
PROOF
  <1> DEFINE old == dispatcher[d]
  <1>1. Shape /\ Current /\ old \in RunStates /\ RunOK(old, last, settled)
    BY DispatcherType DEF IInv
  <1>2. PICK e \in old.out : Acknowledge(e) \/ UNCHANGED store
    BY DEF Flush, FlushFails
  <1>3. UNCHANGED <<last, settled>>
    BY DEF Flush, FlushFails, ghosts
  <1>4. /\ settled' \in [Traces -> Nat]
        /\ \A x \in Traces : settled[x] <= settled'[x] /\ settled'[x] <= last[x]
    BY <1>1, <1>3 DEF Shape, Current
  <1>5. /\ pending' \in [Traces -> PendingStates] /\ history' \in [Traces -> HistoryStates]
        /\ Current'
    <2>1. CASE Acknowledge(e)
      <3>1. e \in EntryStates /\ e.rev <= settled[e.trace]
        BY <1>1, <1>2 DEF RunOK, RunStates, UpTo
      <3>2. Acknowledged(e) => last[e.trace] <= settled'[e.trace]
        BY <1>1, <1>3, <3>1 DEF Acknowledged, Current, EntryStates
      <3> QED
        BY <1>3, <1>4, <2>1, <3>1, <3>2, Acknowledging
    <2>2. CASE UNCHANGED store
      BY <1>1, <1>3, <1>4, <2>2, SettledMore DEF store, Shape
    <2> QED
      BY <1>2, <2>1, <2>2
  <1>6. PICK state \in RunStates :
            /\ Become(d, state) /\ state.at = old.at /\ state.out \subseteq old.out
            /\ state.members \subseteq old.members /\ state.held \subseteq old.held
            /\ state.batch = old.batch
    <2>1. CASE Flush(d)
      <3>1. PICK f \in old.out : Become(d, [old EXCEPT !.out = @ \ {f}])
        BY <2>1 DEF Flush
      <3> DEFINE state == [old EXCEPT !.out = @ \ {f}]
      <3>2. /\ state \in RunStates /\ state.at = old.at /\ state.out = old.out \ {f}
            /\ state.members = old.members /\ state.held = old.held /\ state.batch = old.batch
        BY <1>1 DEF RunStates
      <3> QED
        BY <3>1, <3>2
    <2>2. CASE FlushFails(d)
      <3> DEFINE state == [old EXCEPT !.out = {}, !.members = {}, !.held = {}]
      <3>1. Become(d, state)
        BY <2>2 DEF FlushFails
      <3>2. /\ state \in RunStates /\ state.at = old.at /\ state.out = {}
            /\ state.members = {} /\ state.held = {} /\ state.batch = old.batch
        BY <1>1 DEF RunStates
      <3> QED
        BY <3>1, <3>2
    <2> QED
      BY <2>1, <2>2
  <1>7. RunOK(state, last, settled)
    <2>1. state.at = "snapshot" => state.held = {}
      BY <1>1, <1>6 DEF RunOK
    <2> QED
      BY <1>6, <2>1, RunShrinks
  <1> QED
    BY <1>3, <1>4, <1>5, <1>6, <1>7, RedisMoves

-----------------------------------------------------------------------------
LEMMA InitOK == Init => IInv
PROOF
  <1> SUFFICES ASSUME Init PROVE IInv
    OBVIOUS
  <1>1. Absent \in PendingStates /\ Nothing \in HistoryStates
    BY DEF Absent, Nothing, PendingStates, HistoryStates, Places
  <1>2. Shape
    BY <1>1, OffType DEF Init, Shape
  <1>3. Current
    BY DEF Init, Current, Is, Absent
  <1>4. RunOK(Off, last, settled)
    BY OffType DEF RunOK, Distinct, UpTo
  <1> QED
    BY <1>2, <1>3, <1>4 DEF Init, IInv, RunsOK

LEMMA NextOK == IInv /\ [Next]_vars => IInv'
PROOF
  <1> SUFFICES ASSUME IInv, [Next]_vars PROVE IInv'
    OBVIOUS
  <1>1. CASE \E x \in Traces : Time(x) \/ Track(x)
    BY <1>1, TimeStep, TrackStep
  <1>2. ASSUME NEW d \in Dispatchers, Dispatch(d) \/ Stop(d) \/ Crash(d) PROVE IInv'
    BY <1>2, AnewStep, QuietStep, SnapshotStep, HydrateStep, ExcludeStep, AddStep, AddFailsStep, FlushStep
       DEF Dispatch
  <1>3. CASE LockExpires \/ UNCHANGED vars
    <2>1. UNCHANGED <<pending, history, last, settled, dispatcher>>
      BY <1>3 DEF LockExpires, vars, store, ghosts
    <2> QED
      BY <2>1 DEF IInv, Shape, Current, RunsOK, Is
  <1> QED
    BY <1>1, <1>2, <1>3 DEF Next

(* For any number of traces, dispatchers and troubles, an update that was  *)
(* not dispatched, excluded or expired is pending: no acknowledgement of   *)
(* an older revision takes it out.                                         *)
THEOREM NoUpdateLostHolds == Spec => []NoUpdateLost
PROOF
  <1>1. IInv => NoUpdateLost
    BY DEF IInv, Shape, Current, NoUpdateLost
  <1> QED
    BY <1>1, InitOK, NextOK, PTL DEF Spec
-----------------------------------------------------------------------------
(* What a run carries: a trace in one place only, and none that it is      *)
(* still to read.                                                          *)

Load(run) == run.held \cup run.batch \cup run.out

RunKept(run) ==
    /\ run.batch # {} => run.at = "add"
    /\ run.at = "snapshot" => Load(run) = {}
    /\ Distinct(Load(run))
    /\ run.held \cap (run.batch \cup run.out) = {} /\ run.batch \cap run.out = {}
    /\ \A e \in Load(run) : e.trace \notin run.members

RunsKept == \A d \in Dispatchers : RunKept(dispatcher[d])

ReadyEntries == Entries({x \in Traces : Is(x, "ready")})

(* A dispatcher goes on to run, with nothing it did not carry or read now. *)
Runs(d, run) ==
    /\ run \in RunStates /\ RunKept(run) /\ Become(d, run)
    /\ Load(run) \subseteq Carried(d) \cup ReadyEntries

LEMMA KeptLess ==
    ASSUME NEW old, NEW run, RunKept(old),
           run.held \subseteq old.held, run.batch \subseteq old.batch, run.out \subseteq old.out,
           run.members \subseteq old.members,
           run.batch # {} => run.at = "add",
           run.at = "snapshot" => Load(run) = {}
    PROVE  RunKept(run) /\ Load(run) \subseteq Load(old)
PROOF BY DEF RunKept, Load, Distinct

(* Begin, a run that is over, and a process that died.                     *)
LEMMA RunsAnew ==
    ASSUME NEW d \in Dispatchers, Begin(d) \/ Finish(d) \/ Crash(d)
    PROVE  \E run : Runs(d, run) /\ Load(run) = {}
PROOF
  <1>1. PICK run \in RunStates : /\ Become(d, run) /\ run.members = {} /\ run.held = {} /\ run.batch = {}
                                 /\ run.out = {}
    <2>1. LET s == [Off EXCEPT !.at = "snapshot"]
          IN  /\ s \in RunStates /\ s.members = {} /\ s.held = {} /\ s.batch = {} /\ s.out = {}
      BY DEF Off, RunStates, Stages
    <2>2. Become(d, Off) \/ Become(d, [Off EXCEPT !.at = "snapshot"])
      BY DEF Begin, Finish, Crash
    <2> QED
      BY <2>1, <2>2, OffType
  <1>2. Load(run) = {} /\ RunKept(run)
    BY <1>1 DEF Load, RunKept, Distinct
  <1> QED
    BY <1>1, <1>2 DEF Runs

(* What fails or is stopped gives up all but what it has added to jobs.    *)
LEMMA RunsFailing ==
    ASSUME IInv, RunsKept, NEW d \in Dispatchers, Failing(d)
    PROVE  \E run : /\ Runs(d, run) /\ run.held = {} /\ run.batch = {} /\ run.out = dispatcher[d].out
PROOF
  <1> DEFINE old == dispatcher[d]
             run == [old EXCEPT !.at = "flush", !.members = {}, !.held = {}, !.batch = {}]
  <1>1. old \in RunStates /\ RunKept(old) /\ Become(d, run)
    BY DispatcherType DEF RunsKept, Failing
  <1>2. /\ run \in RunStates /\ run.at = "flush" /\ run.members = {} /\ run.held = {} /\ run.batch = {}
        /\ run.out = old.out
    BY <1>1 DEF RunStates, Stages
  <1> HIDE DEF run
  <1>3. RunKept(run) /\ Load(run) \subseteq Load(old)
    BY <1>1, <1>2, KeptLess
  <1> QED
    BY <1>1, <1>2, <1>3 DEF Runs, Carried, Load

(* Steps that change neither what is in a job nor what was added to one.   *)
LEMMA RunsOn ==
    ASSUME IInv, RunsKept, NEW d \in Dispatchers,
           Snapshot(d) \/ Hydrate(d) \/ Exclude(d) \/ Carry(d) \/ NextWindow(d) \/ Stop(d)
    PROVE  \E run : /\ Runs(d, run) /\ run.held \subseteq dispatcher[d].held \cup ReadyEntries
                    /\ run.batch = dispatcher[d].batch /\ run.out = dispatcher[d].out
PROOF
  <1> DEFINE old == dispatcher[d]
  <1>1. old \in RunStates /\ RunKept(old) /\ Carried(d) = Load(old)
    BY DispatcherType DEF RunsKept, Carried, Load
  <1>2. CASE Snapshot(d)
    <2> DEFINE due == {x \in Traces : Is(x, "ready")}
               run == [old EXCEPT !.at = "hydrate", !.members = due]
    <2>1. Become(d, run) /\ Load(old) = {}
      BY <1>1, <1>2 DEF Snapshot, Going, At, RunKept
    <2>2. /\ run \in RunStates /\ run.at = "hydrate" /\ run.held = old.held /\ run.batch = old.batch
          /\ run.out = old.out
      BY <1>1 DEF RunStates, Stages
    <2> HIDE DEF run
    <2>3. RunKept(run) /\ Load(run) = {}
      BY <2>1, <2>2 DEF RunKept, Load, Distinct
    <2> QED
      BY <2>1, <2>2, <2>3 DEF Runs
  <1>3. CASE Hydrate(d)
    <2>1. PICK window \in SUBSET old.members :
              Become(d, [old EXCEPT !.at = "enqueue", !.members = @ \ window,
                                    !.held = @ \cup Entries({x \in window : Is(x, "ready")})])
      BY <1>3 DEF Hydrate
    <2> DEFINE read == Entries({x \in window : Is(x, "ready")})
               run == [old EXCEPT !.at = "enqueue", !.members = @ \ window, !.held = @ \cup read]
    <2>2. Become(d, run)
      BY <2>1
    <2>3. read \in SUBSET EntryStates /\ Distinct(read) /\ (\A e \in read : e.trace \in window)
          /\ read \subseteq ReadyEntries
      <3>1. window \subseteq Traces
        BY <1>1 DEF RunStates
      <3>2. {x \in window : Is(x, "ready")} \in SUBSET Traces
        BY <3>1
      <3>3. \A x \in {y \in window : Is(y, "ready")} : ~Is(x, "absent")
        BY DEF Is
      <3>4. read \subseteq ReadyEntries
        BY <3>1 DEF Entries, ReadyEntries
      <3>5. \A e \in read : e.trace \in {x \in window : Is(x, "ready")}
        BY <3>2, <3>3, EntriesRead
      <3> QED
        BY <3>2, <3>3, <3>4, <3>5, EntriesRead
    <2> HIDE DEF read
    <2>4. /\ run \in RunStates /\ run.at = "enqueue" /\ run.members = old.members \ window
          /\ run.held = old.held \cup read /\ run.batch = old.batch /\ run.out = old.out
      BY <1>1, <2>3 DEF RunStates, Stages
    <2> HIDE DEF run
    <2>5. old.batch = {}
      BY <1>1, <1>3 DEF Hydrate, Going, At, RunKept
    <2>6. Load(run) = Load(old) \cup read
      BY <2>4 DEF Load
    <2>7. \A e \in read : e.trace \in old.members /\ e.trace \notin run.members
      BY <2>3, <2>4
    <2>8. \A e \in Load(old) : e.trace \notin old.members
      BY <1>1 DEF RunKept
    <2>9. Distinct(Load(run))
      BY <1>1, <2>3, <2>6, <2>7, <2>8 DEF RunKept, Distinct
    <2>10. run.held \cap run.out = {}
      BY <1>1, <2>4, <2>7, <2>8 DEF RunKept, Load
    <2>11. RunKept(run)
      BY <2>4, <2>5, <2>6, <2>7, <2>8, <2>9, <2>10 DEF RunKept
    <2> QED
      BY <1>1, <2>2, <2>3, <2>4, <2>6, <2>11 DEF Runs
  <1>4. CASE Exclude(d)
    <2>1. PICK e : Become(d, [old EXCEPT !.held = @ \ {e}])
      BY <1>4 DEF Exclude
    <2> DEFINE run == [old EXCEPT !.held = @ \ {e}]
    <2>2. /\ run \in RunStates /\ run.at = old.at /\ run.members = old.members
          /\ run.held = old.held \ {e} /\ run.batch = old.batch /\ run.out = old.out
      BY <1>1 DEF RunStates
    <2>3. old.at = "enqueue" /\ Become(d, run)
      BY <1>4, <2>1 DEF Exclude, Going, At
    <2> HIDE DEF run
    <2>4. RunKept(run) /\ Load(run) \subseteq Load(old)
      <3>1. run.batch # {} => run.at = "add"
        BY <1>1, <2>2 DEF RunKept
      <3> QED
        BY <1>1, <2>2, <2>3, <3>1, KeptLess
    <2> QED
      BY <1>1, <2>2, <2>3, <2>4 DEF Runs
  <1>5. CASE Carry(d) \/ NextWindow(d)
    <2>1. \E place \in {"flush", "hydrate", "enqueue"}, final \in BOOLEAN :
              Become(d, [old EXCEPT !.at = place, !.final = final])
      <3>1. ASSUME NEW place \in Stages
            PROVE  [old EXCEPT !.at = place] = [old EXCEPT !.at = place, !.final = old.final]
        BY <1>1 DEF RunStates
      <3>2. old.final \in BOOLEAN
        BY <1>1 DEF RunStates
      <3> QED
        BY <1>5, <3>1, <3>2 DEF Carry, NextWindow, Stages
    <2>2. PICK place \in {"flush", "hydrate", "enqueue"}, final \in BOOLEAN :
              Become(d, [old EXCEPT !.at = place, !.final = final])
      BY <2>1
    <2> DEFINE run == [old EXCEPT !.at = place, !.final = final]
    <2>3. /\ run \in RunStates /\ run.at = place /\ run.members = old.members
          /\ run.held = old.held /\ run.batch = old.batch /\ run.out = old.out
      BY <1>1 DEF RunStates, Stages
    <2>4. Become(d, run)
      BY <2>2
    <2> HIDE DEF run
    <2>5. old.batch = {}
      BY <1>1, <1>5 DEF Carry, NextWindow, Flushed, Going, At, RunKept
    <2>6. RunKept(run) /\ Load(run) \subseteq Load(old)
      BY <1>1, <2>3, <2>5, KeptLess
    <2> QED
      BY <1>1, <2>3, <2>4, <2>6 DEF Runs
  <1>6. CASE Stop(d)
    <2> DEFINE run == [old EXCEPT !.stopping = TRUE]
    <2>1. Become(d, run)
      BY <1>6 DEF Stop
    <2>2. /\ run \in RunStates /\ run.at = old.at /\ run.out = old.out
          /\ run.members = old.members /\ run.held = old.held /\ run.batch = old.batch
      BY <1>1 DEF RunStates
    <2> HIDE DEF run
    <2>3. RunKept(run) /\ Load(run) \subseteq Load(old)
      <3>1. run.at = "snapshot" => Load(run) = {}
        BY <1>1, <2>2 DEF RunKept, Load
      <3>2. run.batch # {} => run.at = "add"
        BY <1>1, <2>2 DEF RunKept
      <3> QED
        BY <1>1, <2>2, <3>1, <3>2, KeptLess
    <2> QED
      BY <1>1, <2>1, <2>2, <2>3 DEF Runs
  <1> QED
    BY <1>2, <1>3, <1>4, <1>5, <1>6

(* What goes into a job is no longer held; what was added is to be         *)
(* acknowledged.                                                           *)
LEMMA RunsJob ==
    ASSUME IInv, RunsKept, NEW d \in Dispatchers
    PROVE  /\ Enqueue(d) =>
                  \E run : /\ Runs(d, run) /\ run.held \subseteq dispatcher[d].held
                           /\ run.batch \subseteq dispatcher[d].held /\ dispatcher[d].batch = {}
                           /\ run.out = dispatcher[d].out
           /\ Add(d) =>
                  \E run : /\ Runs(d, run) /\ run.held = dispatcher[d].held /\ run.batch = {}
                           /\ run.out = dispatcher[d].out \cup dispatcher[d].batch
PROOF
  <1> DEFINE old == dispatcher[d]
  <1>1. old \in RunStates /\ RunKept(old) /\ Carried(d) = Load(old)
    BY DispatcherType DEF RunsKept, Carried, Load
  <1>2. ASSUME Enqueue(d)
        PROVE  \E run : /\ Runs(d, run) /\ run.held \subseteq old.held
                        /\ run.batch \subseteq old.held /\ old.batch = {} /\ run.out = old.out
    <2>1. PICK batch \in SUBSET old.held :
              Become(d, [old EXCEPT !.at = "add", !.batch = batch, !.held = @ \ batch])
      BY <1>2 DEF Enqueue
    <2> DEFINE run == [old EXCEPT !.at = "add", !.batch = batch, !.held = @ \ batch]
    <2>2. /\ run \in RunStates /\ run.at = "add" /\ run.out = old.out
          /\ run.members = old.members /\ run.held = old.held \ batch /\ run.batch = batch
      BY <1>1 DEF RunStates, Stages
    <2>3. Become(d, run)
      BY <2>1
    <2> HIDE DEF run
    <2>4. old.batch = {}
      BY <1>1, <1>2 DEF Enqueue, Going, At, RunKept
    <2>5. RunKept(run) /\ Load(run) \subseteq Load(old)
      BY <1>1, <2>2, <2>4 DEF RunKept, Load, Distinct
    <2> QED
      BY <1>1, <2>2, <2>3, <2>4, <2>5 DEF Runs
  <1>3. ASSUME Add(d)
        PROVE  \E run : /\ Runs(d, run) /\ run.held = old.held /\ run.batch = {}
                        /\ run.out = old.out \cup old.batch
    <2> DEFINE run == [old EXCEPT !.at = "enqueue", !.batch = {}, !.out = @ \cup old.batch]
    <2>1. Become(d, run)
      BY <1>3 DEF Add
    <2>2. /\ run \in RunStates /\ run.at = "enqueue" /\ run.members = old.members
          /\ run.held = old.held /\ run.batch = {} /\ run.out = old.out \cup old.batch
      BY <1>1 DEF RunStates, Stages
    <2> HIDE DEF run
    <2>3. RunKept(run) /\ Load(run) \subseteq Load(old)
      BY <1>1, <2>2 DEF RunKept, Load, Distinct
    <2> QED
      BY <1>1, <2>1, <2>2, <2>3 DEF Runs
  <1> QED
    BY <1>2, <1>3

LEMMA RunsFlush ==
    ASSUME IInv, RunsKept, NEW d \in Dispatchers
    PROVE  /\ \A e : Become(d, [dispatcher[d] EXCEPT !.out = @ \ {e}]) /\ At(d, "flush") =>
                  \E run : /\ Runs(d, run) /\ run.held = dispatcher[d].held
                           /\ run.batch = dispatcher[d].batch /\ run.out = dispatcher[d].out \ {e}
           /\ FlushFails(d) => \E run : Runs(d, run) /\ Load(run) = {}
PROOF
  <1> DEFINE old == dispatcher[d]
  <1>1. old \in RunStates /\ RunKept(old) /\ Carried(d) = Load(old)
    BY DispatcherType DEF RunsKept, Carried, Load
  <1>2. ASSUME NEW e, Become(d, [old EXCEPT !.out = @ \ {e}]), At(d, "flush")
        PROVE  \E run : /\ Runs(d, run) /\ run.held = old.held
                        /\ run.batch = old.batch /\ run.out = old.out \ {e}
    <2> DEFINE run == [old EXCEPT !.out = @ \ {e}]
    <2>1. /\ run \in RunStates /\ run.at = old.at /\ run.members = old.members
          /\ run.held = old.held /\ run.batch = old.batch /\ run.out = old.out \ {e}
      BY <1>1 DEF RunStates
    <2>2. Become(d, run)
      BY <1>2
    <2> HIDE DEF run
    <2>3. RunKept(run) /\ Load(run) \subseteq Load(old)
      <3>1. run.batch # {} => run.at = "add"
        BY <1>1, <2>1 DEF RunKept
      <3> QED
        BY <1>1, <1>2, <2>1, <3>1, KeptLess DEF At
    <2> QED
      BY <1>1, <2>1, <2>2, <2>3 DEF Runs
  <1>3. ASSUME FlushFails(d) PROVE \E run : Runs(d, run) /\ Load(run) = {}
    <2> DEFINE run == [old EXCEPT !.out = {}, !.members = {}, !.held = {}]
    <2>1. Become(d, run) /\ old.batch = {}
      BY <1>1, <1>3 DEF FlushFails, At, RunKept
    <2>2. /\ run \in RunStates /\ run.at = old.at /\ run.members = {}
          /\ run.held = {} /\ run.batch = old.batch /\ run.out = {}
      BY <1>1 DEF RunStates
    <2> HIDE DEF run
    <2>3. RunKept(run) /\ Load(run) = {}
      BY <2>1, <2>2 DEF RunKept, Load, Distinct
    <2> QED
      BY <2>1, <2>3, <2>2 DEF Runs
  <1> QED
    BY <1>2, <1>3

LEMMA EveryRun ==
    ASSUME IInv, RunsKept, NEW d \in Dispatchers, Dispatch(d) \/ Stop(d) \/ Crash(d)
    PROVE  \E run : Runs(d, run)
PROOF
  <1>1. CASE Begin(d) \/ Finish(d) \/ Crash(d)
    BY <1>1, RunsAnew
  <1>2. CASE LeaseLost(d) \/ ScriptFails(d) \/ Stopping(d) \/ AddFails(d)
    BY <1>2, RunsFailing DEF LeaseLost, ScriptFails, Stopping, AddFails
  <1>3. CASE Snapshot(d) \/ Hydrate(d) \/ Exclude(d) \/ Carry(d) \/ NextWindow(d) \/ Stop(d)
    BY <1>3, RunsOn
  <1>4. CASE Enqueue(d) \/ Add(d)
    BY <1>4, RunsJob
  <1>5. CASE Flush(d)
    <2>1. \E e : Become(d, [dispatcher[d] EXCEPT !.out = @ \ {e}]) /\ At(d, "flush")
      BY <1>5 DEF Flush
    <2> QED
      BY <2>1, RunsFlush
  <1>6. CASE FlushFails(d)
    BY <1>6, RunsFlush
  <1> QED
    BY <1>1, <1>2, <1>3, <1>4, <1>5, <1>6 DEF Dispatch

LEMMA RunsNext == ASSUME IInv, RunsKept, [Next]_vars PROVE RunsKept'
PROOF
  <1>1. ASSUME NEW d \in Dispatchers, Dispatch(d) \/ Stop(d) \/ Crash(d) PROVE RunsKept'
    <2>1. PICK run : Runs(d, run)
      BY <1>1, EveryRun
    <2>2. dispatcher'[d] = run /\ \A s \in Dispatchers \ {d} : dispatcher'[s] = dispatcher[s]
      BY <2>1 DEF Runs, Become, IInv, Shape
    <2> QED
      BY <2>1, <2>2 DEF Runs, RunsKept
  <1>2. ASSUME NEW x \in Traces, Track(x) PROVE RunsKept'
    <2> SUFFICES ASSUME NEW d \in Dispatchers PROVE RunKept(dispatcher'[d])
      BY DEF RunsKept
    <2>1. dispatcher'[d] = [dispatcher[d] EXCEPT !.members = @ \ {x}]
      BY <1>2 DEF Track
    <2>2. dispatcher[d] \in RunStates /\ RunKept(dispatcher[d])
      BY DispatcherType DEF RunsKept
    <2>3. /\ dispatcher'[d].at = dispatcher[d].at /\ dispatcher'[d].held = dispatcher[d].held
          /\ dispatcher'[d].batch = dispatcher[d].batch /\ dispatcher'[d].out = dispatcher[d].out
          /\ dispatcher'[d].members = dispatcher[d].members \ {x}
      BY <2>1, <2>2 DEF RunStates
    <2> QED
      BY <2>2, <2>3 DEF RunKept, Load, Distinct
  <1>3. ASSUME (\E x \in Traces : Time(x)) \/ LockExpires \/ UNCHANGED vars PROVE dispatcher' = dispatcher
    BY <1>3 DEF Time, IdleTimePasses, GracePasses, HistoryExpires, LockExpires, vars
  <1> QED
    BY <1>1, <1>2, <1>3 DEF Next, RunsKept

-----------------------------------------------------------------------------
(* What is known of a trace: the history has all the updates that are not  *)
(* forgotten, and what is pending too, unless it is late and carried by    *)
(* nobody; such an entry is expired before anyone reads it again.          *)

Whole(memory, x) == memory.known = retained[x] /\ memory.count = Cardinality(retained[x])

Unhandled(x) == \A d \in Dispatchers : x \notin Handled(d)

Known(x) ==
    /\ retained[x] \subseteq 1..last[x] /\ last[x] <= MaxUpdates[x]
    /\ Whole(history[x], x)
    /\ Is(x, "waiting") \/ Is(x, "ready") => Whole(pending[x], x)
    /\ Is(x, "late") => Whole(pending[x], x) \/ Unhandled(x)
    /\ Is(x, "absent") => pending[x] = Absent
    /\ ~Is(x, "absent") => /\ pending[x].count \in 1..last[x]
                           /\ pending[x].known \subseteq 1..last[x]
                           /\ 1 <= last[x]

(* An entry has the revision and the size that its trace had once.         *)
Read(d) == \A e \in Carried(d) : e.rev \in 1..last[e.trace] /\ e.count \in 1..last[e.trace]

Retained == retained \in [Traces -> SUBSET Nat]

KnownInv == Retained /\ (\A x \in Traces : Known(x)) /\ (\A d \in Dispatchers : Read(d))

(* A run only ever comes to carry what is due.                             *)
LEMMA CarriedNext ==
    ASSUME IInv, RunsKept, [Next]_vars, NEW d \in Dispatchers
    PROVE  Carried(d)' \subseteq Carried(d) \cup ReadyEntries
PROOF
  <1>1. ASSUME NEW s \in Dispatchers, Dispatch(s) \/ Stop(s) \/ Crash(s)
        PROVE  Carried(d)' \subseteq Carried(d) \cup ReadyEntries
    <2>1. PICK run : Runs(s, run)
      BY <1>1, EveryRun
    <2>2. dispatcher'[s] = run /\ (s # d => dispatcher'[d] = dispatcher[d])
      BY <2>1 DEF Runs, Become, IInv, Shape
    <2> QED
      BY <2>1, <2>2 DEF Runs, Load, Carried
  <1>2. ASSUME NEW x \in Traces, Track(x) PROVE Carried(d)' \subseteq Carried(d)
    <2>1. dispatcher'[d] = [dispatcher[d] EXCEPT !.members = @ \ {x}] /\ dispatcher[d] \in RunStates
      BY <1>2, DispatcherType DEF Track
    <2> QED
      BY <2>1 DEF RunStates, Carried
  <1>3. ASSUME (\E x \in Traces : Time(x)) \/ LockExpires \/ UNCHANGED vars PROVE Carried(d)' = Carried(d)
    <2>1. dispatcher' = dispatcher
      BY <1>3 DEF Time, IdleTimePasses, GracePasses, HistoryExpires, LockExpires, vars
    <2> QED
      BY <2>1 DEF Carried
  <1> QED
    BY <1>1, <1>2, <1>3 DEF Next

(* So what is late and carried by nobody stays so.                         *)
LEMMA UnhandledNext ==
    ASSUME IInv, RunsKept, [Next]_vars, NEW x \in Traces, Unhandled(x), ~Is(x, "ready")
    PROVE  Unhandled(x)'
PROOF
  <1> SUFFICES ASSUME NEW d \in Dispatchers, NEW e \in Carried(d)', e.trace = x PROVE FALSE
    BY DEF Unhandled, Handled
  <1>1. e \in Carried(d) \/ e \in ReadyEntries
    BY CarriedNext
  <1> QED
    BY <1>1 DEF Unhandled, Handled, ReadyEntries, Entries, Entry

LEMMA SizeOf ==
    ASSUME NEW S, NEW n \in Nat, S \subseteq 1..n
    PROVE  IsFiniteSet(S) /\ Cardinality(S) \in 0..n /\ (S # {} => Cardinality(S) \in 1..n)
PROOF
  <1>1. IsFiniteSet(1..n) /\ Cardinality(1..n) = n
    BY FS_Interval
  <1>2. IsFiniteSet(S) /\ Cardinality(S) <= n
    BY <1>1, FS_Subset
  <1>3. Cardinality(S) \in Nat
    BY <1>2, FS_CardinalityType
  <1>4. Cardinality(S) = 0 => S = {}
    BY <1>2, FS_EmptySet
  <1>5. Cardinality(S) \in 0..n /\ (Cardinality(S) # 0 => Cardinality(S) \in 1..n)
    BY <1>2, <1>3
  <1> QED
    BY <1>2, <1>4, <1>5

LEMMA KnownTypes ==
    ASSUME IInv, NEW x \in Traces
    PROVE  last[x] \in Nat /\ pending[x] \in PendingStates /\ history[x] \in HistoryStates
PROOF BY DEF IInv, Shape

(* A step that leaves a trace alone, or takes its late entry away.         *)
LEMMA KnownStays ==
    ASSUME IInv, RunsKept, [Next]_vars, NEW x \in Traces, Known(x),
           history'[x] = history[x], retained'[x] = retained[x], last'[x] = last[x],
           \/ pending'[x] = pending[x]
           \/ pending'[x] = Absent
           \/ Is(x, "waiting") /\ pending'[x] = [pending[x] EXCEPT !.at = "ready"]
           \/ Is(x, "ready") /\ pending'[x] = [pending[x] EXCEPT !.at = "late"]
    PROVE  Known(x)'
PROOF
  <1>1. pending[x] \in PendingStates /\ last[x] \in Nat
    BY KnownTypes
  <1>2. CASE pending'[x] = pending[x]
    <2>1. Is(x, "late") /\ Unhandled(x) => Unhandled(x)'
      BY UnhandledNext DEF Is
    <2> QED
      BY <1>2, <2>1 DEF Known, Whole, Is
  <1>3. CASE pending'[x] = Absent
    BY <1>3 DEF Known, Whole, Is, Absent
  <1>4. CASE Is(x, "waiting") /\ pending'[x] = [pending[x] EXCEPT !.at = "ready"]
    <2>1. /\ pending'[x].at = "ready" /\ pending'[x].known = pending[x].known
          /\ pending'[x].count = pending[x].count /\ pending[x].at = "waiting"
      BY <1>1, <1>4 DEF PendingStates, Is
    <2> QED
      BY <2>1 DEF Known, Whole, Is
  <1>5. CASE Is(x, "ready") /\ pending'[x] = [pending[x] EXCEPT !.at = "late"]
    <2>1. /\ pending'[x].at = "late" /\ pending'[x].known = pending[x].known
          /\ pending'[x].count = pending[x].count /\ pending[x].at = "ready"
      BY <1>1, <1>5 DEF PendingStates, Is
    <2> QED
      BY <2>1 DEF Known, Whole, Is
  <1> QED
    BY <1>2, <1>3, <1>4, <1>5

(* An update is counted once, whatever it is merged with.                  *)
LEMMA KnownTrack ==
    ASSUME IInv, Retained, NEW x \in Traces, Known(x), Track(x)
    PROVE  Known(x)'
PROOF
  <1> DEFINE n == last[x] + 1
             now == [known |-> Before(x).known \cup {n}, count |-> Before(x).count + 1]
             late == Late \ {x}
  <1>1. /\ n <= MaxUpdates[x]
        /\ pending' = ExpirePending([pending EXCEPT ![x] =
               [at |-> "waiting", rev |-> n, known |-> now.known, count |-> now.count]], late)
        /\ history' = [history EXCEPT ![x] = now]
        /\ last' = [last EXCEPT ![x] = n]
        /\ retained' = [retained EXCEPT ![x] = @ \cup {n}]
    BY DEF Track
  <1>2. Shape /\ last[x] \in Nat /\ n \in Nat
    BY KnownTypes DEF IInv
  <1>3. Whole(Before(x), x)
    BY DEF Known, Before, Whole, Is
  <1>4. IsFiniteSet(retained[x]) /\ n \notin retained[x] /\ Cardinality(retained[x]) \in 0..last[x]
    BY <1>2, SizeOf DEF Known
  <1>5. Cardinality(retained[x] \cup {n}) = Cardinality(retained[x]) + 1
    BY <1>4, FS_AddElement
  <1>6. now.known = retained[x] \cup {n} /\ now.count = Cardinality(retained[x] \cup {n})
    BY <1>3, <1>5 DEF Whole
  <1>7. now.known \subseteq 1..n /\ now.count \in 1..n
    BY <1>2, <1>3, <1>4 DEF Known, Whole
  <1> HIDE DEF n, now
  <1>8. last'[x] = n /\ history'[x] = now
    BY <1>1, <1>2 DEF Shape
  <1>9. pending'[x] = [at |-> "waiting", rev |-> n, known |-> now.known, count |-> now.count]
    <2>1. x \notin late
      OBVIOUS
    <2> HIDE DEF late
    <2> QED
      BY <1>1, <1>2, <2>1 DEF ExpirePending, Shape
  <1>10. retained'[x] = retained[x] \cup {n}
    BY <1>1 DEF Retained
  <1>11. 1 <= n
    BY <1>2 DEF n
  <1>12. /\ pending'[x].at = "waiting" /\ pending'[x].known = now.known
         /\ pending'[x].count = now.count
    BY <1>9
  <1>13. Whole(pending[x], x)'
    BY <1>6, <1>10, <1>12 DEF Whole
  <1>14. retained'[x] \subseteq 1..last'[x] /\ last'[x] <= MaxUpdates[x]
    BY <1>1, <1>6, <1>7, <1>8, <1>10
  <1>15. Whole(history[x], x)'
    BY <1>6, <1>8, <1>10 DEF Whole
  <1> QED
    BY <1>7, <1>8, <1>11, <1>12, <1>13, <1>14, <1>15 DEF Known, Is

(* What a run acknowledges becomes the history again.                      *)
LEMMA KnownAcknowledge ==
    ASSUME IInv, RunsKept, [Next]_vars, NEW x \in Traces, Known(x),
           NEW d \in Dispatchers, NEW e \in Carried(d),
           Acknowledge(e) \/ UNCHANGED store, UNCHANGED <<last, retained>>
    PROVE  Known(x)'
PROOF
  <1>1. CASE Acknowledge(e) /\ Acknowledged(e) /\ e.trace = x
    <2>1. /\ history' = [history EXCEPT ![x] = [known |-> pending[x].known,
                                                count |-> pending[x].count]]
          /\ pending' = [pending EXCEPT ![x] = Absent]
      BY <1>1 DEF Acknowledge
    <2>2. /\ history'[x].known = pending[x].known /\ history'[x].count = pending[x].count
          /\ pending'[x] = Absent
      BY <2>1 DEF IInv, Shape
    <2>3. ~Unhandled(x)
      BY <1>1 DEF Unhandled, Handled
    <2>4. Whole(pending[x], x)
      <3>1. pending[x].at \in Places /\ ~Is(x, "absent")
        BY <1>1, KnownTypes DEF PendingStates, Acknowledged
      <3> QED
        BY <2>3, <3>1 DEF Known, Is, Places
    <2> QED
      BY <2>2, <2>4 DEF Known, Whole, Is, Absent
  <1>2. CASE ~(Acknowledge(e) /\ Acknowledged(e) /\ e.trace = x)
    <2>1. pending'[x] = pending[x] /\ history'[x] = history[x]
      BY <1>2 DEF Acknowledge, store, IInv, Shape
    <2>2. last'[x] = last[x] /\ retained'[x] = retained[x]
      OBVIOUS
    <2> QED
      BY <2>1, <2>2, KnownStays
  <1> QED
    BY <1>1, <1>2

LEMMA KnownTime ==
    ASSUME IInv, RunsKept, Retained, [Next]_vars, NEW x \in Traces, Known(x), NEW y \in Traces, Time(y)
    PROVE  Known(x)'
PROOF
  <1>1. CASE HistoryExpires(y) /\ x = y
    <2>1. /\ pending' = pending /\ last' = last /\ dispatcher' = dispatcher
          /\ history' = [history EXCEPT ![x] = Nothing] /\ retained' = [retained EXCEPT ![x] = {}]
          /\ pending[x].at \in {"absent", "late"} /\ Unhandled(x)
      BY <1>1 DEF HistoryExpires, Unhandled
    <2>2. history'[x] = Nothing
      BY <2>1 DEF IInv, Shape
    <2>3. retained'[x] = {}
      BY <2>1 DEF Retained
    <2>4. Whole(history[x], x)'
      BY <2>2, <2>3, FS_EmptySet DEF Whole, Nothing
    <2>5. Unhandled(x)'
      BY <2>1 DEF Unhandled, Handled, Carried
    <2> QED
      BY <2>1, <2>3, <2>4, <2>5 DEF Known, Is
  <1>2. CASE ~(HistoryExpires(y) /\ x = y)
    <2>1. UNCHANGED last
      BY DEF Time, IdleTimePasses, GracePasses, HistoryExpires, ghosts
    <2>2. history'[x] = history[x] /\ retained'[x] = retained[x]
      BY <1>2 DEF Time, IdleTimePasses, GracePasses, HistoryExpires, ghosts, IInv, Shape, Retained
    <2>3. \/ pending'[x] = pending[x]
          \/ Is(x, "waiting") /\ pending'[x] = [pending[x] EXCEPT !.at = "ready"]
          \/ Is(x, "ready") /\ pending'[x] = [pending[x] EXCEPT !.at = "late"]
      BY DEF Time, IdleTimePasses, GracePasses, HistoryExpires, Is, IInv, Shape
    <2> QED
      BY <2>1, <2>2, <2>3, KnownStays
  <1> QED
    BY <1>1, <1>2

LEMMA LastGrows ==
    ASSUME IInv, [Next]_vars, NEW x \in Traces
    PROVE  last[x] \in Nat /\ last'[x] \in Nat /\ last[x] <= last'[x]
PROOF
  <1>1. last \in [Traces -> Nat]
    BY DEF IInv, Shape
  <1>2. ASSUME NEW y \in Traces, Track(y) PROVE last' = [last EXCEPT ![y] = last[y] + 1]
    BY <1>2 DEF Track
  <1>3. ASSUME NEW y \in Traces, Time(y) PROVE UNCHANGED last
    BY <1>3 DEF Time, IdleTimePasses, GracePasses, HistoryExpires, ghosts
  <1>4. ASSUME NEW d \in Dispatchers, Dispatch(d) \/ Stop(d) \/ Crash(d) PROVE UNCHANGED last
    BY <1>4 DEF Dispatch, Begin, LeaseLost, ScriptFails, Stopping, Snapshot, Hydrate, Exclude, Enqueue, Carry,
                Add, AddFails, Added, Flush, FlushFails, NextWindow, Finish, Stop, Crash, ghosts
  <1>5. LockExpires \/ UNCHANGED vars => UNCHANGED last
    BY DEF LockExpires, vars, ghosts
  <1> QED
    BY <1>1, <1>2, <1>3, <1>4, <1>5 DEF Next

LEMMA KnownNext == IInv /\ RunsKept /\ KnownInv /\ [Next]_vars => KnownInv'
PROOF
  <1> SUFFICES ASSUME IInv, RunsKept, KnownInv, [Next]_vars PROVE KnownInv'
    OBVIOUS
  <1>1. ASSUME NEW x \in Traces PROVE Known(x)'
    <2>1. Known(x)
      BY DEF KnownInv
    <2>2. ASSUME NEW y \in Traces, Track(y) PROVE Known(x)'
      <3>1. CASE x = y
        BY <2>1, <2>2, <3>1, KnownTrack DEF KnownInv
      <3>2. CASE x # y
        <4>1. history'[x] = history[x] /\ last'[x] = last[x]
          BY <2>2, <3>2 DEF Track, IInv, Shape
        <4>2. retained'[x] = retained[x]
          BY <2>2, <3>2 DEF Track, KnownInv, Retained
        <4>3. pending'[x] = pending[x] \/ pending'[x] = Absent
          BY <2>2, <3>2 DEF Track, ExpirePending, IInv, Shape
        <4> QED
          BY <2>1, <4>1, <4>2, <4>3, KnownStays
      <3> QED
        BY <3>1, <3>2
    <2>3. ASSUME NEW d \in Dispatchers, Snapshot(d) PROVE Known(x)'
      <3>1. pending'[x] = pending[x] \/ pending'[x] = Absent
        BY <2>3 DEF Snapshot, ExpirePending
      <3>2. UNCHANGED <<history, retained, last>>
        BY <2>3 DEF Snapshot
      <3> QED
        BY <2>1, <3>1, <3>2, KnownStays
    <2>4. ASSUME NEW d \in Dispatchers, Exclude(d) \/ Flush(d) \/ FlushFails(d) PROVE Known(x)'
      <3>1. PICK e \in Carried(d) : Acknowledge(e) \/ UNCHANGED store
        BY <2>4 DEF Exclude, Flush, FlushFails, Oversized, Carried
      <3>2. UNCHANGED <<last, retained>>
        BY <2>4 DEF Exclude, Flush, FlushFails, ghosts
      <3> QED
        BY <2>1, <3>1, <3>2, KnownAcknowledge
    <2>5. CASE UNCHANGED <<store, last, retained>>
      BY <2>1, <2>5, KnownStays DEF store
    <2>6. ASSUME NEW d \in Dispatchers,
                 \/ Begin(d) \/ LeaseLost(d) \/ ScriptFails(d) \/ Stopping(d) \/ Hydrate(d) \/ Enqueue(d)
                 \/ Carry(d) \/ Add(d) \/ AddFails(d) \/ NextWindow(d) \/ Finish(d) \/ Stop(d) \/ Crash(d)
          PROVE  UNCHANGED <<store, last, retained>>
      BY <2>6 DEF Begin, LeaseLost, ScriptFails, Stopping, Hydrate, Enqueue, Carry, Add, AddFails, Added,
                  NextWindow, Finish, Stop, Crash, ghosts
    <2>7. LockExpires \/ UNCHANGED vars => UNCHANGED <<store, last, retained>>
      BY DEF LockExpires, vars, ghosts
    <2>8. ASSUME NEW y \in Traces, Time(y) PROVE Known(x)'
      BY <2>1, <2>8, KnownTime DEF KnownInv
    <2> QED
      BY <2>2, <2>3, <2>4, <2>5, <2>6, <2>7, <2>8 DEF Next, Dispatch
  <1>2. ASSUME NEW d \in Dispatchers PROVE Read(d)'
    <2> SUFFICES ASSUME NEW e \in Carried(d)'
                 PROVE  e.rev \in 1..last'[e.trace] /\ e.count \in 1..last'[e.trace]
      BY DEF Read
    <2>1. e.trace \in Traces /\ e.rev \in 1..last[e.trace] /\ e.count \in 1..last[e.trace]
      <3>1. CASE e \in Carried(d)
        <4>1. e \in EntryStates
          BY <3>1, DispatcherType DEF Carried, RunStates
        <4> QED
          BY <3>1, <4>1 DEF KnownInv, Read, EntryStates
      <3>2. CASE e \in ReadyEntries
        <4>1. PICK x \in Traces : Is(x, "ready") /\ e = Entry(x)
          BY <3>2 DEF ReadyEntries, Entries
        <4>2. pending[x].rev = last[x] /\ last[x] \in Nat
          BY <4>1, KnownTypes DEF IInv, Current, Is
        <4> QED
          BY <4>1, <4>2 DEF KnownInv, Known, Entry, Is
      <3> QED
        BY <3>1, <3>2, CarriedNext
    <2>2. last[e.trace] \in Nat /\ last'[e.trace] \in Nat /\ last[e.trace] <= last'[e.trace]
      BY <2>1, LastGrows
    <2> QED
      BY <2>1, <2>2
  <1>3. Retained'
    <2>1. ASSUME NEW y \in Traces, Track(y)
          PROVE  retained' = [retained EXCEPT ![y] = @ \cup {last[y] + 1}]
      BY <2>1 DEF Track
    <2>2. ASSUME NEW y \in Traces, Time(y)
          PROVE  retained' = retained \/ retained' = [retained EXCEPT ![y] = {}]
      BY <2>2 DEF Time, IdleTimePasses, GracePasses, HistoryExpires, ghosts
    <2>3. ASSUME NEW d \in Dispatchers, Dispatch(d) \/ Stop(d) \/ Crash(d) PROVE UNCHANGED retained
      BY <2>3 DEF Dispatch, Begin, LeaseLost, ScriptFails, Stopping, Snapshot, Hydrate, Exclude, Enqueue,
                  Carry, Add, AddFails, Added, Flush, FlushFails, NextWindow, Finish, Stop, Crash, ghosts
    <2>4. LockExpires \/ UNCHANGED vars => UNCHANGED retained
      BY DEF LockExpires, vars, ghosts
    <2>5. last \in [Traces -> Nat]
      BY DEF IInv, Shape
    <2> QED
      BY <2>1, <2>2, <2>3, <2>4, <2>5 DEF Next, KnownInv, Retained
  <1> QED
    BY <1>1, <1>2, <1>3 DEF KnownInv

-----------------------------------------------------------------------------
(* How often the last update of a trace is in a job: once, and once more   *)
(* for every fault.  As long as it may be added again, because it is       *)
(* pending or held under the lock while the run that has the lock has not  *)
(* added it, a fault has yet to be paid for by another job.                *)

Newest(entries, x) == \E e \in entries : e.trace = x /\ e.rev = last[x]
Adding(x) == {d \in Dispatchers : Newest(dispatcher[d].batch, x)}

Has(x) == \E d \in Dispatchers : lock = d /\ Newest(dispatcher[d].batch \cup dispatcher[d].out, x)
Wanted(x) == ~Is(x, "absent") \/ \E d \in Dispatchers : lock = d /\ Newest(dispatcher[d].held, x)
Jobs(x) == times[x] + Cardinality(Adding(x))

Paid(x) ==
    /\ IsFiniteSet(Adding(x))
    /\ Jobs(x) <= faults + 1
    /\ Wanted(x) /\ ~Has(x) => Jobs(x) <= faults

Counted == times \in [Traces -> Nat] /\ faults \in Nat
PaidInv == Counted /\ \A x \in Traces : Paid(x)

LEMMA JobsType ==
    ASSUME Counted, NEW x \in Traces, IsFiniteSet(Adding(x))
    PROVE  times[x] \in Nat /\ Cardinality(Adding(x)) \in Nat /\ Jobs(x) \in Nat /\ faults \in Nat
PROOF BY FS_CardinalityType DEF Counted, Jobs

LEMMA PaidStays ==
    ASSUME PaidInv, NEW x \in Traces, times'[x] = times[x], faults' \in {faults, faults + 1},
           Adding(x)' = Adding(x), Wanted(x)' /\ ~Has(x)' => Wanted(x) /\ ~Has(x)
    PROVE  Paid(x)'
PROOF
  <1>1. Paid(x) /\ Jobs(x)' = Jobs(x) /\ Jobs(x) \in Nat /\ faults \in Nat /\ faults' \in Nat
    BY JobsType DEF PaidInv, Paid, Jobs
  <1>2. Jobs(x)' <= faults' + 1
    BY <1>1 DEF Paid
  <1>3. Wanted(x)' /\ ~Has(x)' => Jobs(x)' <= faults'
    BY <1>1 DEF Paid
  <1> QED
    BY <1>1, <1>2, <1>3 DEF Paid

LEMMA PaidFault ==
    ASSUME PaidInv, NEW x \in Traces, faults' = faults + 1, IsFiniteSet(Adding(x)'),
           Jobs(x)' <= Jobs(x), Jobs(x)' \in Nat
    PROVE  Paid(x)'
PROOF
  <1>1. Paid(x) /\ Jobs(x) \in Nat /\ faults \in Nat
    BY JobsType DEF PaidInv, Paid
  <1>2. Jobs(x)' <= faults'
    BY <1>1 DEF Paid
  <1> QED
    BY <1>1, <1>2 DEF Paid

(* A step that adds nothing, and after which nothing more is wanted.       *)
LEMMA PaidQuiet ==
    ASSUME PaidInv, NEW x \in Traces,
           times'[x] = times[x], last'[x] = last[x], lock' = lock, faults' \in {faults, faults + 1},
           Is(x, "absent") => Is(x, "absent")',
           \A s \in Dispatchers : /\ dispatcher'[s].batch = dispatcher[s].batch
                                  /\ dispatcher'[s].out = dispatcher[s].out
                                  /\ dispatcher'[s].held \subseteq dispatcher[s].held \cup ReadyEntries
    PROVE  Paid(x)'
PROOF
  <1>1. Adding(x)' = Adding(x) /\ Has(x)' = Has(x)
    BY DEF Adding, Has, Newest
  <1>2. Wanted(x)' => Wanted(x)
    <2>1. ASSUME NEW e \in ReadyEntries, e.trace = x PROVE ~Is(x, "absent")
      BY <2>1 DEF ReadyEntries, Entries, Entry, Is
    <2> QED
      BY <2>1 DEF Wanted, Newest
  <1> QED
    BY <1>1, <1>2, PaidStays

(* What one dispatcher does to the jobs under way.                         *)
LEMMA AddingMoves ==
    ASSUME IInv, NEW x \in Traces, NEW d \in Dispatchers, NEW run, Become(d, run), last'[x] = last[x]
    PROVE  /\ dispatcher'[d] = run /\ \A s \in Dispatchers \ {d} : dispatcher'[s] = dispatcher[s]
           /\ Newest(run.batch, x) => Adding(x)' = Adding(x) \cup {d}
           /\ ~Newest(run.batch, x) => Adding(x)' = Adding(x) \ {d}
PROOF
  <1>1. dispatcher'[d] = run /\ \A s \in Dispatchers \ {d} : dispatcher'[s] = dispatcher[s]
    BY DEF Become, IInv, Shape
  <1>2. \A s \in Dispatchers : s \in Adding(x)' <=> Newest(dispatcher'[s].batch, x)
    BY DEF Adding, Newest
  <1>3. Adding(x) \subseteq Dispatchers /\ Adding(x)' \subseteq Dispatchers
    BY DEF Adding
  <1>4. \A s \in Dispatchers : s \in Adding(x) <=> Newest(dispatcher[s].batch, x)
    BY DEF Adding
  <1> HIDE DEF Newest
  <1> QED
    BY <1>1, <1>2, <1>3, <1>4

(* Time, updates, and the steps that read or give up.                      *)
LEMMA PaidTime ==
    ASSUME IInv, PaidInv, NEW x \in Traces, NEW y \in Traces, Time(y)
    PROVE  Paid(x)'
PROOF
  <1>1. UNCHANGED <<last, times, lock, faults, dispatcher>>
    BY DEF Time, IdleTimePasses, GracePasses, HistoryExpires, ghosts
  <1>2. Is(x, "absent") => Is(x, "absent")'
    BY DEF Time, IdleTimePasses, GracePasses, HistoryExpires, Is, IInv, Shape
  <1> QED
    BY <1>1, <1>2, PaidQuiet

(* No run has an update in a job that comes only now.                      *)
LEMMA PaidTrack ==
    ASSUME IInv, PaidInv, NEW x \in Traces, NEW y \in Traces, Track(y)
    PROVE  Paid(x)'
PROOF
  <1>1. /\ last' = [last EXCEPT ![y] = last[y] + 1] /\ times' = [times EXCEPT ![y] = 0]
        /\ UNCHANGED <<lock, faults>>
        /\ dispatcher' = [d \in Dispatchers |-> [dispatcher[d] EXCEPT !.members = @ \ {y}]]
    BY DEF Track
  <1>2. \A s \in Dispatchers : /\ dispatcher'[s].batch = dispatcher[s].batch
                               /\ dispatcher'[s].out = dispatcher[s].out
                               /\ dispatcher'[s].held = dispatcher[s].held
    BY <1>1 DEF IInv, Shape, RunStates
  <1>3. last[x] \in Nat /\ times \in [Traces -> Nat] /\ last \in [Traces -> Nat] /\ faults \in Nat
    BY DEF IInv, Shape, PaidInv, Counted
  <1>4. CASE x = y
    <2>1. last'[x] = last[x] + 1 /\ times'[x] = 0
      BY <1>1, <1>3, <1>4
    <2>2. ASSUME NEW d \in Dispatchers, NEW e \in dispatcher[d].batch, e.trace = x PROVE e.rev # last'[x]
      <3>1. e \in EntryStates /\ e.rev <= last[x]
        BY <2>2, DispatcherType DEF RunStates, RunOK, UpTo
      <3> QED
        BY <1>3, <2>1, <3>1 DEF EntryStates
    <2>3. Adding(x)' = {}
      BY <1>2, <2>2 DEF Adding, Newest
    <2>4. IsFiniteSet(Adding(x)') /\ Jobs(x)' = 0
      BY <2>1, <2>3, FS_EmptySet DEF Jobs
    <2> QED
      BY <1>1, <1>3, <2>4 DEF Paid
  <1>5. CASE x # y
    <2>1. last'[x] = last[x] /\ times'[x] = times[x]
      BY <1>1, <1>3, <1>5
    <2>2. Is(x, "absent") => Is(x, "absent")'
      BY <1>5 DEF Track, ExpirePending, Is, Absent, IInv, Shape
    <2> QED
      BY <1>1, <1>2, <2>1, <2>2, PaidQuiet
  <1> QED
    BY <1>4, <1>5

LEMMA PaidRead ==
    ASSUME IInv, RunsKept, PaidInv, NEW x \in Traces, NEW d \in Dispatchers,
           \/ Snapshot(d) \/ Hydrate(d) \/ Exclude(d) \/ Carry(d) \/ NextWindow(d) \/ Stop(d)
           \/ LeaseLost(d) \/ Stopping(d)
    PROVE  Paid(x)'
PROOF
  <1>1. UNCHANGED <<last, times, lock, faults>>
    BY DEF Snapshot, Hydrate, Exclude, Carry, NextWindow, Stop, LeaseLost, Stopping, ghosts
  <1>2. Is(x, "absent") => Is(x, "absent")'
    <2>1. pending'[x] = pending[x] \/ pending'[x] = Absent
      BY DEF Snapshot, Hydrate, Exclude, Carry, NextWindow, Stop, LeaseLost, Stopping, store, ExpirePending,
             Acknowledge, IInv, Shape
    <2> QED
      BY <2>1 DEF Is, Absent
  <1>3. \E run : /\ Runs(d, run) /\ run.held \subseteq dispatcher[d].held \cup ReadyEntries
                 /\ run.batch = dispatcher[d].batch /\ run.out = dispatcher[d].out
    <2>1. CASE LeaseLost(d) \/ Stopping(d)
      <3>1. dispatcher[d].batch = {}
        BY <2>1 DEF LeaseLost, Stopping, Working, RunsKept, RunKept
      <3>2. Failing(d)
        BY <2>1 DEF LeaseLost, Stopping
      <3> QED
        BY <3>1, <3>2, RunsFailing
    <2>2. CASE ~(LeaseLost(d) \/ Stopping(d))
      BY <2>2, RunsOn
    <2> QED
      BY <2>1, <2>2
  <1>4. PICK run : /\ Runs(d, run) /\ run.held \subseteq dispatcher[d].held \cup ReadyEntries
                   /\ run.batch = dispatcher[d].batch /\ run.out = dispatcher[d].out
    BY <1>3
  <1>5. dispatcher'[d] = run /\ \A s \in Dispatchers \ {d} : dispatcher'[s] = dispatcher[s]
    BY <1>4 DEF Runs, Become, IInv, Shape
  <1>6. faults \in Nat
    BY DEF PaidInv, Counted
  <1> QED
    BY <1>1, <1>2, <1>4, <1>5, <1>6, PaidQuiet

(* What is lost, or may have run although it failed, is a fault.           *)
LEMMA PaidFails ==
    ASSUME IInv, RunsKept, PaidInv, NEW x \in Traces, NEW d \in Dispatchers,
           ScriptFails(d) \/ AddFails(d) \/ FlushFails(d) \/ Crash(d)
    PROVE  Paid(x)'
PROOF
  <1>1. UNCHANGED last /\ faults' = faults + 1
    BY DEF ScriptFails, AddFails, FlushFails, Crash, Fault, Added, ghosts
  <1>2. PICK run : Runs(d, run) /\ run.batch = {}
    <2>1. ScriptFails(d) \/ AddFails(d) => Failing(d)
      BY DEF ScriptFails, AddFails
    <2>2. \A run : Load(run) = {} => run.batch = {}
      BY DEF Load
    <2> QED
      BY <2>1, <2>2, RunsAnew, RunsFailing, RunsFlush
  <1>3. Adding(x)' = Adding(x) \ {d}
    BY <1>1, <1>2, AddingMoves DEF Runs, Newest
  <1>4. times[x] \in Nat /\ IsFiniteSet(Adding(x)) /\ Cardinality(Adding(x)) \in Nat
    BY JobsType DEF PaidInv, Paid
  <1>5. /\ IsFiniteSet(Adding(x)')
        /\ Cardinality(Adding(x)') = IF d \in Adding(x) THEN Cardinality(Adding(x)) - 1
                                     ELSE Cardinality(Adding(x))
    <2>1. /\ IsFiniteSet(Adding(x) \ {d})
          /\ Cardinality(Adding(x) \ {d}) = IF d \in Adding(x) THEN Cardinality(Adding(x)) - 1
                                            ELSE Cardinality(Adding(x))
      BY <1>4, FS_RemoveElement
    <2> QED
      BY <1>3, <2>1
  <1>6. Cardinality(Adding(x)') \in Nat
    BY <1>5, FS_CardinalityType
  <1>7. times'[x] = times[x] \/ (d \in Adding(x) /\ times'[x] = times[x] + 1)
    <2>1. CASE AddFails(d) /\ Added(dispatcher[d].batch)
      BY <2>1 DEF Added, Adding, Newest
    <2>2. CASE ~(AddFails(d) /\ Added(dispatcher[d].batch))
      BY <2>2 DEF ScriptFails, AddFails, FlushFails, Crash, ghosts
    <2> QED
      BY <2>1, <2>2
  <1>8. Jobs(x)' = times'[x] + Cardinality(Adding(x)') /\ Jobs(x) = times[x] + Cardinality(Adding(x))
    BY DEF Jobs
  <1>9. Jobs(x)' <= Jobs(x) /\ Jobs(x)' \in Nat
    BY <1>4, <1>5, <1>6, <1>7, <1>8
  <1> QED
    BY <1>1, <1>5, <1>9, PaidFault

(* A run that takes an update up again has not added it before.            *)
LEMMA PaidEnqueue ==
    ASSUME IInv, RunsKept, PaidInv, NEW x \in Traces, NEW d \in Dispatchers, Enqueue(d)
    PROVE  Paid(x)'
PROOF
  <1> DEFINE old == dispatcher[d]
  <1>1. UNCHANGED <<pending, last, times, lock, faults>> /\ lock = d
    BY DEF Enqueue, ghosts, store
  <1>2. PICK run : /\ Runs(d, run) /\ run.held \subseteq old.held /\ run.batch \subseteq old.held
                   /\ old.batch = {} /\ run.out = old.out
    BY RunsJob
  <1>3. /\ dispatcher'[d] = run /\ \A s \in Dispatchers \ {d} : dispatcher'[s] = dispatcher[s]
        /\ Newest(run.batch, x) => Adding(x)' = Adding(x) \cup {d}
        /\ ~Newest(run.batch, x) => Adding(x)' = Adding(x) \ {d}
    BY <1>1, <1>2, AddingMoves DEF Runs
  <1>4. d \notin Adding(x) /\ faults \in Nat
    BY <1>2 DEF Adding, Newest, PaidInv, Counted
  <1>5. Wanted(x)' => Wanted(x)
    BY <1>1, <1>2, <1>3 DEF Wanted, Is, Newest
  <1>6. Has(x) <=> Newest(old.out, x)
    BY <1>1, <1>2 DEF Has, Newest
  <1>7. Has(x)' <=> Newest(run.batch \cup run.out, x)
    BY <1>1, <1>3 DEF Has, Newest
  <1>8. CASE Newest(run.batch, x)
    <2>1. Wanted(x) /\ ~Newest(old.out, x)
      <3>1. PICK e \in run.batch : e.trace = x /\ e.rev = last[x]
        BY <1>8 DEF Newest
      <3>2. RunKept(old) /\ e \in old.held
        BY <1>2, <3>1 DEF RunsKept
      <3>3. \A f \in old.out : f.trace # x
        BY <3>1, <3>2 DEF RunKept, Distinct, Load
      <3> QED
        BY <1>1, <3>1, <3>2, <3>3 DEF Wanted, Newest
    <2>2. Jobs(x) <= faults /\ IsFiniteSet(Adding(x)) /\ Jobs(x) \in Nat /\ times[x] \in Nat
          /\ Cardinality(Adding(x)) \in Nat
      BY <1>6, <2>1, JobsType DEF PaidInv, Paid
    <2>3. IsFiniteSet(Adding(x)') /\ Cardinality(Adding(x)') = Cardinality(Adding(x)) + 1
      BY <1>3, <1>4, <1>8, <2>2, FS_AddElement
    <2>4. Jobs(x)' = Jobs(x) + 1
      BY <1>1, <2>2, <2>3 DEF Jobs
    <2>5. Has(x)'
      BY <1>7, <1>8 DEF Newest
    <2>6. Jobs(x)' <= faults' + 1
      BY <1>1, <1>4, <2>2, <2>4
    <2> QED
      BY <2>3, <2>5, <2>6 DEF Paid
  <1>9. CASE ~Newest(run.batch, x)
    <2>1. Adding(x)' = Adding(x)
      BY <1>3, <1>4, <1>9
    <2>2. Has(x)' <=> Has(x)
      BY <1>2, <1>6, <1>7, <1>9 DEF Newest
    <2> QED
      BY <1>1, <1>4, <1>5, <2>1, <2>2, PaidStays
  <1> QED
    BY <1>8, <1>9

(* What was on its way to a job is in it.                                  *)
LEMMA PaidAdd ==
    ASSUME IInv, RunsKept, PaidInv, NEW x \in Traces, NEW d \in Dispatchers, Add(d)
    PROVE  Paid(x)'
PROOF
  <1> DEFINE old == dispatcher[d]
  <1>1. UNCHANGED <<pending, last, lock, faults>> /\ Added(old.batch)
    BY DEF Add, Added, store
  <1>2. PICK run : /\ Runs(d, run) /\ run.held = old.held /\ run.batch = {}
                   /\ run.out = old.out \cup old.batch
    BY RunsJob
  <1>3. /\ dispatcher'[d] = run /\ \A s \in Dispatchers \ {d} : dispatcher'[s] = dispatcher[s]
        /\ Adding(x)' = Adding(x) \ {d}
    BY <1>1, <1>2, AddingMoves DEF Runs, Newest
  <1>4. times'[x] = IF d \in Adding(x) THEN times[x] + 1 ELSE times[x]
    BY <1>1 DEF Added, Adding, Newest
  <1>5. /\ Paid(x) /\ IsFiniteSet(Adding(x)) /\ times[x] \in Nat
        /\ Cardinality(Adding(x)) \in Nat /\ faults \in Nat
    BY JobsType DEF PaidInv, Paid
  <1>6. /\ IsFiniteSet(Adding(x)')
        /\ Cardinality(Adding(x)') = IF d \in Adding(x) THEN Cardinality(Adding(x)) - 1
                                     ELSE Cardinality(Adding(x))
    <2>1. /\ IsFiniteSet(Adding(x) \ {d})
          /\ Cardinality(Adding(x) \ {d}) = IF d \in Adding(x) THEN Cardinality(Adding(x)) - 1
                                            ELSE Cardinality(Adding(x))
      BY <1>5, FS_RemoveElement
    <2> QED
      BY <1>3, <2>1
  <1>7. Jobs(x)' = Jobs(x)
    BY <1>4, <1>5, <1>6 DEF Jobs
  <1>8. Has(x)' <=> Has(x)
    BY <1>1, <1>2, <1>3 DEF Has, Newest
  <1>9. Wanted(x)' <=> Wanted(x)
    BY <1>1, <1>2, <1>3 DEF Wanted, Is, Newest
  <1> QED
    BY <1>1, <1>5, <1>6, <1>7, <1>8, <1>9 DEF Paid

(* What the run with the lock added to a job is acknowledged, unless it    *)
(* is no longer the last update; and the run holds it no more.             *)
LEMMA PaidFlush ==
    ASSUME IInv, RunsKept, PaidInv, NEW x \in Traces, NEW d \in Dispatchers, Flush(d)
    PROVE  Paid(x)'
PROOF
  <1> DEFINE old == dispatcher[d]
  <1>1. PICK e \in old.out : Acknowledge(e) /\ Become(d, [old EXCEPT !.out = @ \ {e}])
    BY DEF Flush
  <1>2. UNCHANGED <<last, times, lock, faults>> /\ At(d, "flush")
    BY DEF Flush, ghosts
  <1>3. PICK run : /\ Runs(d, run) /\ run.held = old.held /\ run.batch = old.batch
                   /\ run.out = old.out \ {e}
    BY <1>1, <1>2, RunsFlush
  <1>4. dispatcher'[d] = run /\ \A s \in Dispatchers \ {d} : dispatcher'[s] = dispatcher[s]
    BY <1>3 DEF Runs, Become, IInv, Shape
  <1>5. RunKept(old) /\ old.batch = {} /\ e.trace \in Traces
    BY <1>1, <1>2, DispatcherType DEF RunsKept, RunKept, At, RunStates, EntryStates
  <1>6. Adding(x)' = Adding(x)
    BY <1>2, <1>3, <1>4 DEF Adding, Newest
  <1>7. Is(x, "absent") => Is(x, "absent")'
    <2>1. pending'[x] = pending[x] \/ pending'[x] = Absent
      BY <1>1 DEF Acknowledge, store, IInv, Shape
    <2> QED
      BY <2>1 DEF Is, Absent
  <1>8. Wanted(x)' => Wanted(x)
    BY <1>2, <1>3, <1>4, <1>7 DEF Wanted, Newest
  <1>9. ASSUME Wanted(x)', ~Has(x)', Has(x) PROVE FALSE
    <2>1. lock = d /\ Newest(old.out, x)
      <3>1. PICK s \in Dispatchers : lock = s /\ Newest(dispatcher[s].batch \cup dispatcher[s].out, x)
        BY <1>9 DEF Has
      <3>2. s = d
        BY <1>2, <1>4, <1>9, <3>1 DEF Has, Newest
      <3> QED
        BY <1>5, <3>1, <3>2 DEF Newest
    <2>2. e.trace = x /\ e.rev = last[x]
      <3>1. PICK f \in old.out : f.trace = x /\ f.rev = last[x]
        BY <2>1 DEF Newest
      <3>2. f \notin run.out
        BY <1>2, <1>4, <1>9, <2>1, <3>1 DEF Has, Newest
      <3> QED
        BY <1>3, <3>1, <3>2
    <2>3. Is(x, "absent")'
      <3>1. CASE Is(x, "absent")
        BY <1>7, <3>1
      <3>2. CASE ~Is(x, "absent")
        <4>1. Acknowledged(e)
          BY <2>2, <3>2 DEF Acknowledged, IInv, Current
        <4> QED
          BY <1>1, <2>2, <4>1 DEF Acknowledge, Is, Absent, IInv, Shape
      <3> QED
        BY <3>1, <3>2
    <2>4. PICK f \in old.held : f.trace = x
      BY <1>2, <1>3, <1>4, <1>9, <2>1, <2>3 DEF Wanted, Newest
    <2> QED
      BY <1>1, <1>5, <2>2, <2>4 DEF RunKept, Distinct, Load
  <1>10. faults \in Nat
    BY DEF PaidInv, Counted
  <1> QED
    BY <1>2, <1>6, <1>8, <1>9, <1>10, PaidStays

(* The lock is taken by a run that has nothing, and given back by one.     *)
LEMMA PaidLock ==
    ASSUME IInv, RunsKept, PaidInv, NEW x \in Traces, NEW d \in Dispatchers, Begin(d) \/ Finish(d)
    PROVE  Paid(x)'
PROOF
  <1> DEFINE old == dispatcher[d]
  <1>1. UNCHANGED <<pending, last, times, faults>>
    BY DEF Begin, Finish, store, ghosts
  <1>2. PICK run : Runs(d, run) /\ run.held = {} /\ run.batch = {} /\ run.out = {}
    BY RunsAnew DEF Load
  <1>3. dispatcher'[d] = run /\ \A s \in Dispatchers \ {d} : dispatcher'[s] = dispatcher[s]
    BY <1>2 DEF Runs, Become, IInv, Shape
  <1>4. old.batch = {}
    BY DEF Begin, Finish, Flushed, At, RunsKept, RunKept
  <1>5. Adding(x)' = Adding(x)
    BY <1>1, <1>2, <1>3, <1>4 DEF Adding, Newest
  <1>6. Free \notin Dispatchers
    BY TokenAssumption
  <1>7. Wanted(x)' => Wanted(x)
    <2>1. \A s \in Dispatchers \ {d} : lock' = s => lock = s
      BY <1>6 DEF Begin, Finish
    <2> QED
      BY <1>1, <1>2, <1>3, <2>1 DEF Wanted, Newest, Is
  <1>8. Has(x) => Has(x)'
    <2>1. ASSUME NEW s \in Dispatchers, lock = s, Newest(dispatcher[s].batch \cup dispatcher[s].out, x)
          PROVE  s # d /\ lock' = s
      <3>1. CASE Begin(d)
        BY <1>6, <2>1, <3>1 DEF Begin
      <3>2. CASE Finish(d)
        BY <1>4, <2>1, <3>2 DEF Finish, Flushed, Newest
      <3> QED
        BY <3>1, <3>2
    <2> QED
      BY <1>1, <1>3, <2>1 DEF Has, Newest
  <1>9. faults \in Nat
    BY DEF PaidInv, Counted
  <1> QED
    BY <1>1, <1>5, <1>7, <1>8, <1>9, PaidStays

(* A lock that lapses under a run is a fault; that of a dead process       *)
(* protects nothing any more.                                              *)
LEMMA PaidExpires ==
    ASSUME IInv, PaidInv, NEW x \in Traces, LockExpires
    PROVE  Paid(x)'
PROOF
  <1>1. UNCHANGED <<pending, dispatcher, last, times>> /\ lock' = Free
    BY DEF LockExpires, store, ghosts
  <1>2. Free \notin Dispatchers /\ Dead \notin Dispatchers
    BY TokenAssumption
  <1>3. Adding(x)' = Adding(x)
    BY <1>1 DEF Adding, Newest
  <1>4. Paid(x) /\ IsFiniteSet(Adding(x)) /\ Jobs(x) \in Nat /\ faults \in Nat
    BY JobsType DEF PaidInv, Paid
  <1>5. CASE lock = Dead
    <2>1. faults' = faults
      BY <1>5 DEF LockExpires
    <2>2. ~Has(x)
      BY <1>2, <1>5 DEF Has
    <2>3. Wanted(x)' => Wanted(x)
      BY <1>1, <1>2 DEF Wanted, Is
    <2> QED
      BY <1>1, <1>3, <1>4, <2>1, <2>2, <2>3, PaidStays
  <1>6. CASE lock # Dead
    <2>1. faults' = faults + 1
      BY <1>6 DEF LockExpires, Fault
    <2>2. Jobs(x)' = Jobs(x)
      BY <1>1, <1>3 DEF Jobs
    <2> QED
      BY <1>3, <1>4, <2>1, <2>2, PaidFault
  <1> QED
    BY <1>5, <1>6

LEMMA FaultsNext == ASSUME [Next]_vars PROVE faults' \in {faults, faults + 1}
PROOF
  <1>1. ASSUME NEW x \in Traces, Time(x) \/ Track(x) PROVE UNCHANGED faults
    BY <1>1 DEF Time, IdleTimePasses, GracePasses, HistoryExpires, Track
  <1>2. ASSUME NEW d \in Dispatchers, Dispatch(d) \/ Stop(d) \/ Crash(d)
        PROVE  faults' \in {faults, faults + 1}
    BY <1>2 DEF Dispatch, Begin, LeaseLost, ScriptFails, Stopping, Snapshot, Hydrate, Exclude, Enqueue, Fault,
                Carry, Add, AddFails, Flush, FlushFails, NextWindow, Finish, Stop, Crash
  <1>3. LockExpires \/ UNCHANGED vars => faults' \in {faults, faults + 1}
    BY DEF LockExpires, Fault, vars
  <1> QED
    BY <1>1, <1>2, <1>3 DEF Next

LEMMA PaidNext == IInv /\ RunsKept /\ PaidInv /\ [Next]_vars => PaidInv'
PROOF
  <1> SUFFICES ASSUME IInv, RunsKept, PaidInv, [Next]_vars PROVE PaidInv'
    OBVIOUS
  <1>1. ASSUME NEW x \in Traces PROVE Paid(x)'
    <2>1. CASE UNCHANGED vars
      <3>1. /\ times'[x] = times[x] /\ last'[x] = last[x] /\ lock' = lock /\ faults' = faults
            /\ pending' = pending /\ dispatcher' = dispatcher /\ faults \in Nat
        BY <2>1 DEF vars, store, ghosts, PaidInv, Counted
      <3> QED
        BY <3>1, PaidQuiet DEF Is
    <2>2. ASSUME NEW d \in Dispatchers, Dispatch(d) \/ Stop(d) \/ Crash(d) PROVE Paid(x)'
      BY <2>2, PaidRead, PaidFails, PaidEnqueue, PaidAdd, PaidFlush, PaidLock DEF Dispatch
    <2> QED
      BY <2>1, <2>2, PaidTime, PaidTrack, PaidExpires DEF Next
  <1>2. Counted'
    <2>1. times' \in [Traces -> Nat]
      <3>1. ASSUME NEW entries, Added(entries) PROVE times' \in [Traces -> Nat]
        BY <3>1 DEF Added, PaidInv, Counted
      <3>2. ASSUME NEW x \in Traces, Track(x) PROVE times' \in [Traces -> Nat]
        BY <3>2 DEF Track, PaidInv, Counted
      <3>3. ASSUME NEW x \in Traces, Time(x) PROVE UNCHANGED times
        BY <3>3 DEF Time, IdleTimePasses, GracePasses, HistoryExpires, ghosts
      <3>4. ASSUME NEW d \in Dispatchers, Dispatch(d) \/ Stop(d) \/ Crash(d)
            PROVE  UNCHANGED times \/ Added(dispatcher[d].batch)
        BY <3>4 DEF Dispatch, Begin, LeaseLost, ScriptFails, Stopping, Snapshot, Hydrate, Exclude, Enqueue,
                    Carry, Add, AddFails, Flush, FlushFails, NextWindow, Finish, Stop, Crash, ghosts
      <3>5. LockExpires \/ UNCHANGED vars => UNCHANGED times
        BY DEF LockExpires, vars, ghosts
      <3> QED
        BY <3>1, <3>2, <3>3, <3>4, <3>5 DEF Next, PaidInv, Counted
    <2>2. faults' \in {faults, faults + 1}
      BY FaultsNext
    <2> QED
      BY <2>1, <2>2 DEF PaidInv, Counted
  <1> QED
    BY <1>1, <1>2 DEF PaidInv

(* For any number of dispatchers, and whoever of them has the lock when,   *)
(* an update is in one job more than there were faults, at most.           *)
THEOREM RepeatedOnlyAfterFaultHolds == Spec => []RepeatedOnlyAfterFault
PROOF
  <1>1. Init => RunsKept /\ PaidInv
    <2> SUFFICES ASSUME Init PROVE RunsKept /\ PaidInv
      OBVIOUS
    <2>1. RunsKept
      BY OffType DEF Init, RunsKept, RunKept, Load, Distinct
    <2>2. Counted
      BY DEF Init, Counted
    <2>3. ASSUME NEW x \in Traces PROVE Paid(x)
      <3>1. Adding(x) = {}
        BY OffType DEF Init, Adding, Newest
      <3>2. IsFiniteSet(Adding(x)) /\ Jobs(x) = 0 /\ faults = 0
        BY <3>1, FS_EmptySet DEF Jobs, Init
      <3>3. ~Wanted(x)
        BY OffType DEF Wanted, Newest, Init, Is, Absent
      <3> QED
        BY <3>2, <3>3 DEF Paid
    <2> QED
      BY <2>1, <2>2, <2>3 DEF PaidInv
  <1>2. IInv /\ PaidInv => RepeatedOnlyAfterFault
    <2> SUFFICES ASSUME IInv, PaidInv, NEW x \in Traces PROVE times[x] <= faults + 1
      BY DEF RepeatedOnlyAfterFault
    <2>1. Paid(x) /\ times[x] \in Nat /\ Cardinality(Adding(x)) \in Nat /\ faults \in Nat
      BY JobsType DEF PaidInv, Paid
    <2> QED
      BY <2>1 DEF Paid, Jobs
  <1>3. IInv /\ RunsKept /\ [Next]_vars => RunsKept'
    BY RunsNext
  <1> QED
    BY <1>1, <1>2, <1>3, InitOK, NextOK, PaidNext, PTL DEF Spec

-----------------------------------------------------------------------------
LEMMA KnownInit == Init => RunsKept /\ KnownInv
PROOF
  <1> SUFFICES ASSUME Init PROVE RunsKept /\ KnownInv
    OBVIOUS
  <1>1. RunsKept
    BY OffType DEF Init, RunsKept, RunKept, Load, Distinct
  <1>2. Retained
    BY DEF Init, Retained
  <1>3. ASSUME NEW x \in Traces PROVE Known(x)
    <2>1. /\ pending[x] = Absent /\ pending[x].at = "absent" /\ history[x] = Nothing
          /\ retained[x] = {} /\ last[x] = 0
      BY DEF Init, Absent
    <2>2. Whole(history[x], x)
      BY <2>1, FS_EmptySet DEF Whole, Nothing
    <2>3. last[x] <= MaxUpdates[x]
      BY <2>1, SizeAssumption
    <2> QED
      BY <2>1, <2>2, <2>3 DEF Known, Is
  <1>4. ASSUME NEW d \in Dispatchers PROVE Read(d)
    BY OffType DEF Init, Read, Carried
  <1> QED
    BY <1>1, <1>2, <1>3, <1>4 DEF KnownInv

(* For any traces and updates, what is known of a pending trace is of all  *)
(* its updates since it was last forgotten, and each is counted once.      *)
THEOREM WholeTraceKnownHolds == Spec => []WholeTraceKnown
PROOF
  <1>1. KnownInv => WholeTraceKnown
    BY DEF KnownInv, Known, WholeTraceKnown, Whole, Is
  <1>2. IInv /\ RunsKept /\ [Next]_vars => RunsKept'
    BY RunsNext
  <1> QED
    BY <1>1, <1>2, KnownInit, InitOK, NextOK, KnownNext, PTL DEF Spec

(* The lock, and the bound on the troubles.                                *)
Bounds ==
    /\ lock \in Dispatchers \cup {Free, Dead}
    /\ stops \in Nat /\ faults \in Nat /\ stops + faults <= MaxTroubles

LEMMA BoundsNext == Bounds /\ [Next]_vars => Bounds'
PROOF
  <1> SUFFICES ASSUME Bounds, [Next]_vars PROVE Bounds'
    OBVIOUS
  <1>1. ASSUME NEW d \in Dispatchers, Dispatch(d) \/ Stop(d) \/ Crash(d)
        PROVE  lock' \in {lock, d, Free, Dead}
    BY <1>1 DEF Dispatch, Begin, LeaseLost, ScriptFails, Stopping, Snapshot, Hydrate, Exclude, Enqueue, Carry,
                Add, AddFails, Flush, FlushFails, NextWindow, Finish, Stop, Crash
  <1>2. ASSUME NEW x \in Traces, Time(x) \/ Track(x) PROVE UNCHANGED <<lock, stops, faults>>
    BY <1>2 DEF Time, IdleTimePasses, GracePasses, HistoryExpires, Track
  <1>3. LockExpires => lock' = Free
    BY DEF LockExpires
  <1>4. UNCHANGED vars => UNCHANGED <<lock, stops, faults>>
    BY DEF vars
  <1>5. ASSUME NEW d \in Dispatchers, Dispatch(d) \/ Stop(d) \/ Crash(d)
        PROVE  \/ UNCHANGED <<stops, faults>>
               \/ stops + faults < MaxTroubles /\ stops' = stops /\ faults' = faults + 1
               \/ stops + faults < MaxTroubles /\ stops' = stops + 1 /\ faults' = faults
    BY <1>5 DEF Dispatch, Begin, LeaseLost, ScriptFails, Stopping, Snapshot, Hydrate, Exclude, Enqueue, Carry,
                Add, AddFails, Flush, FlushFails, NextWindow, Finish, Stop, Crash, Fault
  <1>6. LockExpires => \/ UNCHANGED <<stops, faults>>
                       \/ stops + faults < MaxTroubles /\ stops' = stops /\ faults' = faults + 1
    BY DEF LockExpires, Fault
  <1>7. lock' \in Dispatchers \cup {Free, Dead}
    BY <1>1, <1>2, <1>3, <1>4 DEF Next, Bounds
  <1>8. \/ UNCHANGED <<stops, faults>>
        \/ stops + faults < MaxTroubles /\ stops' = stops /\ faults' = faults + 1
        \/ stops + faults < MaxTroubles /\ stops' = stops + 1 /\ faults' = faults
    BY <1>2, <1>4, <1>5, <1>6 DEF Next
  <1>9. stops' \in Nat /\ faults' \in Nat /\ stops' + faults' <= MaxTroubles
    BY <1>8, BoundAssumption DEF Bounds
  <1> QED
    BY <1>7, <1>9 DEF Bounds

LEMMA InvariantTypes == IInv /\ RunsKept /\ KnownInv /\ Bounds => TypeOK
PROOF
  <1> SUFFICES ASSUME IInv, RunsKept, KnownInv, Bounds PROVE TypeOK
    OBVIOUS
  <1>1. ASSUME NEW x \in Traces PROVE last[x] \in Nat /\ MaxUpdates[x] \in Nat /\ last[x] <= MaxUpdates[x]
    BY <1>1, KnownTypes, SizeAssumption DEF KnownInv, Known
  <1>2. ASSUME NEW x \in Traces
        PROVE  /\ pending[x].at \in {"absent", "waiting", "ready", "late"}
               /\ pending[x].rev \in 0..MaxUpdates[x]
               /\ {[known |-> pending[x].known, count |-> pending[x].count], history[x]} \subseteq Memory(x)
    <2>1. pending[x] \in PendingStates /\ history[x] \in HistoryStates /\ Known(x)
      BY KnownTypes DEF KnownInv
    <2>2. 1..last[x] \subseteq 1..MaxUpdates[x]
      BY <1>1
    <2>3. pending[x].rev \in 0..MaxUpdates[x]
      <3>1. CASE Is(x, "absent")
        BY <1>1, <2>1, <3>1 DEF Known, Absent
      <3>2. CASE ~Is(x, "absent")
        <4>1. pending[x].rev = last[x]
          BY <3>2 DEF IInv, Current
        <4> QED
          BY <1>1, <4>1
      <3> QED
        BY <3>1, <3>2
    <2>4. pending[x].known \subseteq 1..MaxUpdates[x] /\ pending[x].count \in 0..MaxUpdates[x]
      <3>1. CASE Is(x, "absent")
        BY <1>1, <2>1, <3>1 DEF Known, Absent
      <3>2. CASE ~Is(x, "absent")
        BY <1>1, <2>1, <2>2, <3>2 DEF Known
      <3> QED
        BY <3>1, <3>2
    <2>5. history[x].known \subseteq 1..MaxUpdates[x] /\ history[x].count \in 0..MaxUpdates[x]
      <3>1. Cardinality(retained[x]) \in 0..last[x]
        BY <1>1, <2>1, SizeOf DEF Known
      <3> QED
        BY <1>1, <2>1, <2>2, <3>1 DEF Known, Whole
    <2>6. history[x] = [known |-> history[x].known, count |-> history[x].count]
      BY <2>1 DEF HistoryStates
    <2>7. pending[x].at \in Places
      BY <2>1 DEF PendingStates
    <2> QED
      BY <2>3, <2>4, <2>5, <2>6, <2>7 DEF Memory, Places
  <1>3. ASSUME NEW d \in Dispatchers
        PROVE  LET run == dispatcher[d]
               IN  /\ run.at \in {"off", "snapshot", "hydrate", "enqueue", "add", "flush"}
                   /\ run.members \subseteq Traces
                   /\ Carried(d) \subseteq UNION {EntryType(x) : x \in Traces}
                   /\ \A e, f \in Carried(d) : e.trace = f.trace => e = f
                   /\ run.held \cap (run.batch \cup run.out) = {} /\ run.batch \cap run.out = {}
                   /\ run.batch # {} => run.at = "add"
    <2>1. dispatcher[d] \in RunStates /\ RunKept(dispatcher[d]) /\ Load(dispatcher[d]) = Carried(d)
      BY DispatcherType DEF RunsKept, Load, Carried
    <2>2. Carried(d) \subseteq UNION {EntryType(x) : x \in Traces}
      <3> SUFFICES ASSUME NEW e \in Carried(d) PROVE \E x \in Traces : e \in EntryType(x)
        OBVIOUS
      <3>1. e \in EntryStates
        BY <2>1 DEF Carried, RunStates
      <3>2. e.rev \in 1..last[e.trace] /\ e.count \in 1..last[e.trace] /\ e.trace \in Traces
        BY <3>1 DEF KnownInv, Read, EntryStates
      <3>3. e.rev \in 1..MaxUpdates[e.trace] /\ e.count \in 1..MaxUpdates[e.trace]
        BY <1>1, <3>2
      <3>4. e \in EntryType(e.trace)
        BY <3>1, <3>3 DEF EntryStates, EntryType
      <3> QED
        BY <3>2, <3>4
    <2>3. dispatcher[d].at \in Stages /\ dispatcher[d].members \subseteq Traces
      BY <2>1 DEF RunStates
    <2> QED
      BY <2>1, <2>2, <2>3 DEF RunKept, Distinct, Stages
  <1>4. {stops, faults, stops + faults} \subseteq 0..MaxTroubles
    BY BoundAssumption DEF Bounds
  <1> QED
    BY <1>2, <1>3, <1>4 DEF TypeOK, Bounds

(* Keys and runs keep their shape, and no run has a trace in two places,   *)
(* for any traces, dispatchers and bounds.                                 *)
THEOREM Typing == Spec => []TypeOK
PROOF
  <1>1. Init => Bounds
    BY BoundAssumption DEF Init, Bounds
  <1>2. IInv /\ RunsKept /\ [Next]_vars => RunsKept'
    BY RunsNext
  <1> QED
    BY <1>1, <1>2, KnownInit, InitOK, NextOK, KnownNext, BoundsNext, InvariantTypes, PTL DEF Spec
=============================================================================
