--------------------------- MODULE MCAgentStartup ----------------------------
(* AgentStartup for TLC: three maps, builds of three versions, two veths.    *)
EXTENDS AgentStartup
==============================================================================
