------------------------------- MODULE JobIds -------------------------------
(* The job ids that the table, the stream and the lease keys have in common. *)
CONSTANT Jobs   \* uuid4 strings in the code
=============================================================================
