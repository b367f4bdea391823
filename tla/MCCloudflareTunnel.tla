------------------------- MODULE MCCloudflareTunnel -------------------------
(* Instances of CloudflareTunnel for the model checker.                    *)
EXTENDS CloudflareTunnel, TLC
=============================================================================
