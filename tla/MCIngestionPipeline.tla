------------------------ MODULE MCIngestionPipeline ------------------------
EXTENDS IngestionPipeline

\* Small values for the constants that are functions or sets of steps.
TwoAttempts == [lane \in Lanes |-> IF lane = "primary" THEN 2 ELSE 3]
OneProc   == [s \in Slots |-> "worker"]
OwnProc   == [s \in Slots |-> s]
OneType   == [f \in Files |-> "create"]
TwoTypes  == [f \in Files |-> IF f = 1 THEN "create" ELSE "update"]
NoStart   == [f \in Files |-> 0]
LateStart == [f \in Files |-> IF f = 2 THEN 2 ELSE 0]
OneKind   == [f \in Files |-> "SPAN"]
TwoKinds  == [f \in Files |-> IF f = 1 THEN "SPAN" ELSE "GENERATION"]
Anywhere   == Steps \ {"idle", "redirected"}
=============================================================================
