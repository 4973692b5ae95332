---------------------------- MODULE MCAgentLoop ----------------------------
(* Instance of AgentLoop for TLC: queries are told apart only by being the same or not. *)
EXTENDS AgentLoop, TLC
CONSTANTS q1, q2

MCSignature == {q1, q2}
Interchangeable == Permutations(MCSignature)
=============================================================================
