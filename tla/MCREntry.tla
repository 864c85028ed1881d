------------------------------ MODULE MCREntry ------------------------------
(* REntry on small sets: any fixed choice of HashSet's first element.        *)
EXTENDS REntry, TLC

FirstOfSet == [T \in SUBSET Iids |-> IF T = {} THEN {} ELSE CHOOSE i \in T : TRUE]
==============================================================================
