---------------------- MODULE MCBackgroundMigrations ----------------------
(* BackgroundMigrations with two workers and a first migration that is gated. *)
EXTENDS BackgroundMigrations

FirstDormant == [w \in Workers |-> Migrations \ {1}]
=============================================================================
