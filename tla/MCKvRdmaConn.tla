---------------------------- MODULE MCKvRdmaConn ----------------------------
(***************************************************************************)
(* Instances of KvRdmaConn for TLC.                                        *)
(***************************************************************************)
EXTENDS KvRdmaConn, TLC

(* The members of each of these sets are only compared with each other.    *)
Symmetry == Permutations(Conns) \cup Permutations(Slots) \cup Permutations(QpNums)
=============================================================================
