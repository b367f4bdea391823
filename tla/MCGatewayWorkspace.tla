------------------------- MODULE MCGatewayWorkspace -------------------------
(* Instances of GatewayWorkspace for the model checker.                    *)
EXTENDS GatewayWorkspace
=============================================================================
