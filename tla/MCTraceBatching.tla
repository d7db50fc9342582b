-------------------------- MODULE MCTraceBatching --------------------------
(* TraceBatching with two traces, one of which is updated twice, and two dispatchers. *)
EXTENDS TraceBatching, TLC

MCDispatchers == {"d1", "d2"}
MCMaxUpdates == 1 :> 2 @@ 2 :> 1
=============================================================================
