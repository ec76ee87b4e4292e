----------------------------- MODULE MCProducer ------------------------------
(***************************************************************************)
(* Instances of Producer for TLC.                                          *)
(***************************************************************************)
EXTENDS Producer, TLC

(* Consumers are only compared with each other.                            *)
Symmetry == Permutations(Consumers)
=============================================================================
