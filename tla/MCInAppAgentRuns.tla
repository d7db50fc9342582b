------------------------- MODULE MCInAppAgentRuns -------------------------
(* InAppAgentRuns with a small conversation. *)
EXTENDS InAppAgentRuns, TLC

CONSTANT c1

MCReaders == {c1}
MCNoReaders == {}
=============================================================================
