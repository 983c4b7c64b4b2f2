-------------------------------- MODULE MCLimits --------------------------------
(* Four connections from two addresses.  The caps cover both layers off, each *)
(* layer alone, both on, and caps that cannot be reached.                     *)
EXTENDS Limits

CONSTANTS a, b

MCIps == {a, b}
MCConns == 1..4
MCCaps == {[total |-> t, perIp |-> p] : t \in {0, 1, 3, 5}, p \in {0, 1, 2}}
=============================================================================
