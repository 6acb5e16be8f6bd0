---------------------------- MODULE MCAgentLock ----------------------------
(* Instances of AgentLock: what the server may ask for. *)
EXTENDS AgentLock, TLC

\* Any lock, with and without debug mode.
AllWants == Want

\* No debug mode.
PlainWants == {w \in Want : ~w.debug}

=============================================================================
