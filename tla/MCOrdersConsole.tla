-------------------------- MODULE MCOrdersConsole --------------------------
(* Instances of OrdersConsole; the constants are numbers. *)
EXTENDS OrdersConsole
=============================================================================
