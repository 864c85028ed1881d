----------------------------- MODULE MCEventRun ------------------------------
(* EventRun on small sets: connections and runs are interchangeable, which   *)
(* the run of the invariants uses.                                           *)
EXTENDS EventRun, TLC

Symmetry == Permutations(Conns) \cup Permutations(Workers)
==============================================================================
