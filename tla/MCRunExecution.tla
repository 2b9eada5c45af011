--------------------------- MODULE MCRunExecution ---------------------------
(* A small instance of RunExecution: three attempts of one job, so that a    *)
(* later one meets what earlier ones left behind.                            *)
EXTENDS RunExecution
=============================================================================
