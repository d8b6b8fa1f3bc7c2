--------------------------- MODULE MCAgentWorkflow ---------------------------
EXTENDS AgentWorkflow

CONSTANTS p1, p2

\* Two launches for the same DID: a restart, or agent.py and async_agent.py
\* run side by side.
MCProcs == {p1, p2}
=============================================================================
