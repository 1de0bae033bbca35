--------------------------- MODULE MCAgentManager ---------------------------
(* Small instance of AgentManager: two servers, fewer ports than servers   *)
(* or as many, one match.                                                  *)
EXTENDS AgentManager
=============================================================================
