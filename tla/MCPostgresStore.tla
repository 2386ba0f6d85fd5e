--------------------------- MODULE MCPostgresStore ---------------------------
(* Instances of PostgresStore for TLC.                                     *)
EXTENDS PostgresStore

(* Every Node suits every Run: races for a Run are as wide as they can be. *)
AllCompatible == Nodes \X Runs
=============================================================================
