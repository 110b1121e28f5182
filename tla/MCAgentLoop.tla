---------------------------- MODULE MCAgentLoop ----------------------------
(***************************************************************************)
(* Model-checking module of AgentLoop: the kinds of tool call, the modes    *)
(* and the switches of each run are in its configuration file.              *)
(***************************************************************************)
EXTENDS AgentLoop

=============================================================================
