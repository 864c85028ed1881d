-------------------------- MODULE MCScriptSchedule --------------------------
(* ScriptSchedule on small sets: a time without a limit, one that matches    *)
(* twice and one whose matchtime is 0.  Workers are interchangeable.         *)
EXTENDS ScriptSchedule, TLC

CONSTANTS always, twice, never

MCLimit == [t \in Times |-> CASE t = always -> Forever [] t = twice -> 2 [] t = never -> 0]
WorkerSymmetry == Permutations(Workers)
==============================================================================
