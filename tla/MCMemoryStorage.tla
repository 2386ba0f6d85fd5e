--------------------------- MODULE MCMemoryStorage ---------------------------
(* Instances of MemoryStorage for TLC.                                     *)
EXTENDS MemoryStorage

(* Every Node suits every Run. *)
AllCompatible == Nodes \X Runs
=============================================================================
