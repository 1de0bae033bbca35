----------------------------- MODULE MCAgentLink -----------------------------
(* Small instance of AgentLink: a few commands over a handful of sessions. *)
EXTENDS AgentLink
=============================================================================
