-------------------------- MODULE MCConfigConsole --------------------------
(* An instance of ConfigConsole: a cap, whose save waits for the refetch,  *)
(* and the switch, whose save does not.                                    *)
EXTENDS ConfigConsole

Settings == {"positionPct", "paused"}
=============================================================================
