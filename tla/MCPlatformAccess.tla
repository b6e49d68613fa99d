-------------------------- MODULE MCPlatformAccess --------------------------
(* Small instance of PlatformAccess. *)
EXTENDS PlatformAccess
=============================================================================
