---------------------------- MODULE MCKvRdmaRpc ----------------------------
(***************************************************************************)
(* Instances of KvRdmaRpc for TLC; KvRdmaMr is here for its assumption.    *)
(***************************************************************************)
EXTENDS KvRdmaRpc, KvRdmaMr, TLC

(* The members of each of these sets are only compared with each other.    *)
Symmetry == Permutations(Mrs) \cup Permutations(Ids) \cup Permutations(Slots)
            \cup Permutations(Conns) \cup Permutations(CThreads)
            \cup Permutations(SThreads) \cup Permutations(Vals)
=============================================================================
