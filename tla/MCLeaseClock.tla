---------------------------- MODULE MCLeaseClock ----------------------------
(* A small instance of LeaseClock: two workers, a call takes at most a tick, *)
(* and the lease is as short as RenewedInTime allows.                        *)
EXTENDS LeaseClock
=============================================================================
