---------------------------- MODULE MCAutoscaler ----------------------------
(* A small instance of Autoscaler: at most four workers, one waiting job per *)
(* worker, a cooldown of three ticks.                                        *)
EXTENDS Autoscaler

(* Every call but those of a scale-up, which leave _below_since behind when  *)
(* they fail.                                                                *)
SafeCalls == {"count", "down", "choose", "stop"}
AllCalls  == ScalerPoints \ {"idle"}
=============================================================================
