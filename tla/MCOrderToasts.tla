---------------------------- MODULE MCOrderToasts ----------------------------
(* Instances of OrderToasts; the constants are numbers. *)
EXTENDS OrderToasts
=============================================================================
