---------------------------- MODULE ApprovalGate ----------------------------
(***************************************************************************)
(* What the plan queue promises about a destructive command: the agent     *)
(* proposes it, the operator grants or refuses it (a refusal by time-out,  *)
(* by clearing the queue or by a restart counts), the decision is taken    *)
(* once, and only a granted command runs, once.                            *)
(***************************************************************************)
CONSTANTS Command
VARIABLES decision

Init == decision = [c \in Command |-> "none"]

Decide(c, from, to) ==
    /\ decision[c] = from
    /\ decision' = [decision EXCEPT ![c] = to]

Propose(c) == Decide(c, "none", "asked")
Run(c)     == Decide(c, "asked", "ran")

\* Several commands can be refused at once.
Refuse(C) ==
    /\ \A c \in C : decision[c] = "asked"
    /\ decision' = [c \in Command |-> IF c \in C THEN "refused" ELSE decision[c]]

Next == \/ \E c \in Command : Propose(c) \/ Run(c)
        \/ \E C \in SUBSET Command : Refuse(C)

Spec == Init /\ [][Next]_decision
=============================================================================
