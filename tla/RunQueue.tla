------------------------------ MODULE RunQueue ------------------------------
(***************************************************************************)
(* What the background agents promise about the runs an operator sees:     *)
(* every run has one life (waiting, perhaps working, over), an agent gets  *)
(* a new run only when its last one is over, ids are drawn in order and    *)
(* never again, and a run is forgotten only when it is over or when its    *)
(* agent is withdrawn with everything it has.  Agents may be withdrawn in  *)
(* any step, several at once, and what one of them asks for is refused: its *)
(* id is spent.                                                            *)
(***************************************************************************)
EXTENDS Naturals

CONSTANTS Agent, Job, Nobody
VARIABLES job, next

NoJob    == [owner |-> Nobody, phase |-> "none"]
JobOf(a) == {j \in Job : job[j].owner = a}
IsOpenJob(j) == job[j].phase \in {"waiting", "working"}

Init == job = [j \in Job |-> NoJob] /\ next = 1

\* The agents of W are withdrawn.
Without(W) == [j \in Job |-> IF job[j].owner \in W THEN NoJob ELSE job[j]]

Submit(a, W) ==
    /\ next \in Job
    /\ \A j \in JobOf(a) : ~IsOpenJob(j)
    /\ next' = next + 1
    /\ \E trimmed \in SUBSET JobOf(a) :
          job' = [j \in Job |-> IF j = next THEN [owner |-> a, phase |-> "waiting"]
                                ELSE IF j \in trimmed THEN NoJob ELSE Without(W)[j]]

Spend(W) == next \in Job /\ next' = next + 1 /\ job' = Without(W)

Withdraw(W) == job' = Without(W) /\ UNCHANGED next

Advance(j, from, to) ==
    /\ job[j].phase \in from
    /\ job' = [job EXCEPT ![j].phase = to]
    /\ UNCHANGED next

Begin(j) == Advance(j, {"waiting"}, "working")
End(j)   == Advance(j, {"waiting", "working"}, "over")

Next == \/ \E W \in SUBSET Agent : \/ Spend(W) \/ Withdraw(W)
                                   \/ \E a \in Agent \ W : Submit(a, W)
        \/ \E j \in Job : Begin(j) \/ End(j)

Spec == Init /\ [][Next]_<<job, next>>
=============================================================================
