--------------------------- MODULE MCAgentSession ---------------------------
(* AgentSession on small sets of asks, callers and launches. *)
EXTENDS AgentSession, TLC

CONSTANTS c1, c2

MCAsks == Gens \X Ids

MCAvailable == [a \in MCAsks |-> {"allow-once", "deny"}]

\* Every button of the workbench has a thread of its own: one creates the
\* session and works with it, another one ends turns and processes, and both
\* launch.
MCUses == (c1 :> {"start", "resume", "submit"}) @@ (c2 :> {"fork", "interrupt", "stop"})

\* The first process takes its request back, or not.
MCFickle == {<<1, 1>>}

\* With Codex, the second process asks for something of routine risk.
MCRoutine == {<<2, 1>>}
MCKinds   == {<<"claude", "approval-required">>, <<"codex", "agent-delegated">>}
Manual    == {<<"claude", "approval-required">>}
ManualCodex == {<<"codex", "approval-required">>}
=============================================================================
