------------------------- MODULE MCBackgroundAgents -------------------------
(* Small instances of BackgroundAgents for TLC. *)
EXTENDS BackgroundAgents, TLC

CONSTANTS a1, a2, local, remote

\* The second environment admits two runs at once, the default one a single run.
MCLimit == local :> 1 @@ remote :> 2

\* Where the agents that exist at the start run.
BothLocal  == a1 :> local @@ a2 :> local
FirstLocal == a1 :> local @@ a2 :> NoEnv

\* The two agents are alike.
Swap == Permutations({a1, a2})
=============================================================================
