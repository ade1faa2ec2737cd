---------------------------- MODULE MCPartitions ----------------------------
(* A small instance of Partitions for TLC.                                   *)
EXTENDS Partitions

CONSTANTS c1, c2    \* replicas
=============================================================================
