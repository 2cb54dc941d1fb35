---------------------------- MODULE MCSLInitScan ----------------------------
(* Every function of four instructions, with two of the policies' strings. *)
EXTENDS SLInitScan

MCPolicies == {"bRemoteConnAllowed", "lMaxUserSessions"}
=============================================================================
