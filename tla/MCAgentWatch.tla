---------------------------- MODULE MCAgentWatch ----------------------------
(* Constants of the model-checking runs of AgentWatch. *)
EXTENDS AgentWatch

CONSTANTS pi, claude, piAgent, claudeAgent, s1, s2

\* herdr:pi is authoritative, herdr:claude reports sessions only.
MCAgentOf == [r \in Reporters |->
    IF r = pi THEN piAgent ELSE claudeAgent]
=============================================================================
