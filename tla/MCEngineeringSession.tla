------------------------ MODULE MCEngineeringSession ------------------------
(* An instance of EngineeringSession for TLC: the first project is open when   *)
(* the service starts and lacks a study case that is asked for; the model      *)
(* graph in the database is the second one's.                                  *)
EXTENDS EngineeringSession, TLC

CONSTANTS pA, pB, base, missing

In(p, c) == [project |-> p, case |-> c]

MCStudyCases == [p \in Projects |-> {base}]
MCOpened == {In(pA, base)}
MCContexts == {In(pA, missing), In(pB, base)}
MCExtracted == In(pB, base)

Symmetry == Permutations(Callers) \cup Permutations(FlowKeys)
=============================================================================
