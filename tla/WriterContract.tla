--------------------------- MODULE WriterContract ---------------------------
(***************************************************************************)
(* What the ClickHouse writer of the worker promises to whoever hands it a *)
(* row, with the batching, the retries and the queues left out: a row is   *)
(* buffered once, and leaves the buffer by being stored, by being dropped, *)
(* or by being abandoned when the process stops.  ClickhouseWriter.tla is  *)
(* shown to implement it.                                                  *)
(***************************************************************************)
CONSTANT Rows          \* the rows the worker may hand to the writer

VARIABLE fate          \* where each row is in its life

vars == fate

Fates == {"unborn", "buffered", "stored", "dropped", "abandoned"}

Init == fate = [r \in Rows |-> "unborn"]

(* The rows of S, all of them in state from, go to state to in one step.   *)
Move(S, from, to) ==
    /\ \A r \in S : fate[r] = from
    /\ fate' = [r \in Rows |-> IF r \in S THEN to ELSE fate[r]]

Accept    == \E r \in Rows : Move({r}, "unborn", "buffered")
Store     == \E S \in SUBSET Rows : Move(S, "buffered", "stored")
Drop      == \E S \in SUBSET Rows : Move(S, "buffered", "dropped")
Stop      == Move({r \in Rows : fate[r] = "buffered"}, "buffered", "abandoned")

Next == Accept \/ Store \/ Drop \/ Stop

Spec == Init /\ [][Next]_vars
=============================================================================
