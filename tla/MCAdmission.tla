---------------------------- MODULE MCAdmission ----------------------------
(* A small instance of Admission: two requests at a time, one idempotency    *)
(* key, single jobs and workflows of two.                                    *)
EXTENDS Admission, TLC

OneOrTwo == {1, 2}

(* One tenant with a quota, and one with a rate limit that may have no jobs. *)
TwoTenants == {[max_jobs |-> 2, rate_limit |-> 0], [max_jobs |-> 0, rate_limit |-> 2]}

TwinClients == Permutations(Clients)
=============================================================================
