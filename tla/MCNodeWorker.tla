---------------------------- MODULE MCNodeWorker ----------------------------
(* Instances of NodeWorker for TLC.                                        *)
EXTENDS NodeWorker

(* Every Node suits every Run. *)
AllCompatible == Nodes \X Runs
=============================================================================
