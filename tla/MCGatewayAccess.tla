-------------------------- MODULE MCGatewayAccess --------------------------
(* Instances of GatewayAccess for the model checker.                       *)
EXTENDS GatewayAccess
=============================================================================
