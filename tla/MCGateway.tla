---------------------------- MODULE MCGateway ----------------------------
(***************************************************************************)
(* Instances of the gateway and its services for TLC.  A route of each     *)
(* shape: one call, two calls, the long call.                              *)
(***************************************************************************)
EXTENDS Gateway

CONSTANT r1

MCRequests == {r1}
MCNames == {"user", "doc", "search", "collab"}
MCRoutes == {"share", "upload", "search"}
MCPorts == {1, 2}
MCEnvAddr == {"user"}
=============================================================================
