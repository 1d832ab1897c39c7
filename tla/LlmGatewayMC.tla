---------------------------- MODULE LlmGatewayMC ----------------------------
(* Small instances of LlmGateway for TLC.                                  *)
EXTENDS LlmGateway

CONSTANTS c1, c2
=============================================================================
