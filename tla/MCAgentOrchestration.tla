------------------------ MODULE MCAgentOrchestration ------------------------
(***************************************************************************)
(* Instances of AgentOrchestration for TLC.                                *)
(***************************************************************************)
EXTENDS AgentOrchestration

CONSTANTS c1, c2

\* Every verb with every set of marks that decides a rule; of the topics, one for
\* each kind of agent (the agents that work in the request behave alike).
EveryPrompt ==
  [verb : Verbs, marks : SUBSET {"local", "using", "app", "site", "that", "language", "place", "page"}]
    \cup [verb : {"control", "capture", "tasks", "memory", "other"}, marks : {{}}]
    \cup [verb : {"research"}, marks : {{}, {"report"}}]
=============================================================================
