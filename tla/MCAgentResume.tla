----------------------------- MODULE MCAgentResume -----------------------------
(* Small instance of AgentResume for TLC.                                    *)
EXTENDS AgentResume
================================================================================
