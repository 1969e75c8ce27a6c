----------------------------- MODULE MCGoalLoop -----------------------------
(* TLC instances of GoalLoop: two simple lanes, one of them with a veto hook, *)
(* and one pattern lane.                                                      *)
EXTENDS GoalLoop, TLC

CONSTANTS build, docs, review  \* lane names

MCSimpleLanes  == {build, docs}
MCHookedLanes  == {docs}
MCPatternLanes == {review}

Mode(k, n) == [kind |-> k, retries |-> n]
PlanOf(m1, m2) == build :> m1 @@ docs :> m2

\* Every pair of failure modes, for a single run of the goal.
AllPlans == [MCSimpleLanes -> FailureMode]

\* One of each two that differ in the names of the lanes, when both have hooks.
Rank(m) == CASE m.kind = "continue" -> 1 [] m.kind = "abort" -> 2
             [] m.kind = "fallback" -> 3 [] m.kind = "retry" -> 3 + m.retries
PlansUpToNames == {p \in AllPlans : Rank(p[build]) <= Rank(p[docs])}

\* For the runs with a restart: each kind of recovery beside a lane that has none.
RestartPlans ==
  {PlanOf(Mode("retry", 1), Mode("abort", 0)),
   PlanOf(Mode("continue", 0), Mode("fallback", 0)),
   PlanOf(Mode("continue", 0), Mode("abort", 0))}

\* How often the goal is invoked.
Once         == [p \in Plans |-> 1]
Twice        == [p \in Plans |-> 2]
TwiceIfPlain ==
  [p \in Plans |-> IF \A l \in MCSimpleLanes : p[l].kind = "continue" THEN 2 ELSE 1]

\* Whether a result may come that no claim is left for.
OneStray == [p \in Plans |-> 1]
StrayIfOneRecovers ==
  [p \in Plans |-> IF /\ MaxRuns[p] = 1
                     /\ \E l \in MCSimpleLanes : p[l].kind \in {"continue", "abort"}
                  THEN 1 ELSE 0]
StrayIfNoneRecovers ==
  [p \in Plans |-> IF \A l \in MCSimpleLanes : p[l].kind \in {"continue", "abort"}
                  THEN 1 ELSE 0]

\* The lane with the veto hook asks for a retry.
VetoPlans == {PlanOf(Mode("continue", 0), Mode("retry", 1))}
=============================================================================
