---------------------------- MODULE MCDecisions -----------------------------
(* Small instances of Dispatch and of Simulation, side by side: a behaviour  *)
(* is one of the server or one of an offline program, never both.            *)
EXTENDS Dispatch, Simulation

VARIABLE part       \* what this behaviour is of

(* All batches of four jobs of a few kinds.                                  *)
Kinds == {[dur |-> 1, due |-> 1, prio |-> 1], [dur |-> 1, due |-> 3, prio |-> 8],
          [dur |-> 2, due |-> 2, prio |-> 1], [dur |-> 2, due |-> 3, prio |-> 1],
          [dur |-> 2, due |-> 5, prio |-> 8]}
FourJobs == [1..4 -> Kinds]
Idle == CHOOSE b \in FourJobs : TRUE

(* Priorities play no part in what an agent can choose.                      *)
LowHigh == [heuristic |-> {1, 2}, ai |-> {1}]

DecisionsInit ==
    /\ DispatchInit /\ SimulationInit
    /\ \/ part = "server" /\ batch = Idle /\ firstOnly = FALSE
       \/ part = "offline" /\ mode = "heuristic"

DecisionsNext ==
    \/ part = "server" /\ DispatchNext /\ UNCHANGED <<part, simulationVars>>
    \/ part = "offline" /\ RunJob /\ UNCHANGED <<part, dispatchVars>>

DecisionsSpec ==
    DecisionsInit /\ [][DecisionsNext]_<<part, dispatchVars, simulationVars>> /\ DispatchFairness
=============================================================================
