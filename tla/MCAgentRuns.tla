----------------------------- MODULE MCAgentRuns -----------------------------
(* The instances of AgentRuns that TLC checks.                             *)
EXTENDS AgentRuns
=============================================================================
