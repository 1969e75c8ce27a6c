--------------------------- MODULE GoalLoopProofs ---------------------------
(* Theorems about GoalLoop, for every set of lanes, every plan and any      *)
(* number of invocations.                                                   *)
EXTENDS GoalLoop, TLAPS

----------------------------------------------------------------------------
(* Types.                                                                   *)

\* TypeOK is not inductive: DispatchRetry stays within the retry budget only
\* because the loop head admitted the lane, and picks a lane only because the
\* batch it works off is not empty.
BatchOK ==
  /\ pc \in {"fallback", "retry"} => todo # {}
  /\ pc \in {"fallback", "fallbackPoll"} =>
       \A l \in retriable : used[l] < mode[l].retries
  /\ pc = "retry" => \A l \in todo : used[l] < mode[l].retries

TypeInv == TypeOK /\ BatchOK

LEMMA ModeType ==
  ASSUME NEW m \in FailureMode
  PROVE  m.retries \in 0 .. MaxRetries
BY BoundsAssumption DEF FailureMode

LEMMA NewStateType == NewState \in GoalState
BY DEF NewState, GoalState, Status, Verdict

LEMMA TaskType ==
  ASSUME NEW l \in SimpleLanes, NEW a \in Attempt
  PROVE  <<l, a>> \in Task
BY DEF Task

LEMMA AttemptRange ==
  /\ Original \in Attempt /\ Fallback \in Attempt
  /\ \A k \in 0 .. MaxRetries : k \in Attempt
BY BoundsAssumption DEF Original, Fallback, Attempt

LEMMA OutcomeType ==
  ASSUME LedgerType, NEW t \in Task, results[t] # <<>>
  PROVE  OutcomeOf(t) \in Outcome
<1>1. t[1] \in SimpleLanes /\ t[2] \in Attempt
  BY DEF Task
<1>2. Head(results[t]) \in BOOLEAN
  BY DEF LedgerType
<1> QED
  BY <1>1, <1>2 DEF OutcomeOf, Outcome

LEMMA HookOutcomeType ==
  ASSUME NEW l \in SimpleLanes
  PROVE  HookOutcome(l) \in Outcome
BY AttemptRange DEF HookOutcome, Outcome

LEMMA ReceivedType ==
  ASSUME NEW old \in [Task -> Verdict]
  PROVE  Received(old) \in [Task -> Verdict]
BY DEF Received, Verdict

\* Claiming a task keeps the types of what it writes.
LEMMA ClaimType ==
  ASSUME TypeOK, NEW l \in SimpleLanes, NEW a \in Attempt, Claim(<<l, a>>)
  PROVE  claims' \in [Task -> Nat] /\ late' \in [SimpleLanes -> Nat]
<1>1. claims' \in [Task -> Nat]
  BY TaskType DEF Claim, TypeOK, LedgerType
<1>2. late' \in [SimpleLanes -> Nat]
  BY DEF Claim, TypeOK, CounterType
<1> QED
  BY <1>1, <1>2

\* Merging the outcomes of a recovery poll keeps their type.
LEMMA MergedType ==
  ASSUME TypeOK
  PROVE  Merged \in SUBSET Outcome
<1>1. ASSUME NEW d \in failed, NEW e \in Replaced(d)
      PROVE  e \in Outcome
  <2> DEFINE new == {t \in Answered : t[1] = d.lane}
  <2>1. \A t \in new : t \in Task /\ results[t] # <<>>
    BY DEF Answered, TypeOK, LoopType
  <2>2. \A t \in new : OutcomeOf(t) \in Outcome
    BY <2>1, OutcomeType DEF TypeOK
  <2>3. d \in Outcome
    BY DEF TypeOK, LoopType
  <2> QED
    BY <2>2, <2>3 DEF Replaced
<1>2. \A e \in done \ Red : e \in Outcome
  BY DEF TypeOK, LoopType
<1>3. \A e \in Merged : e \in done \ Red \/ \E d \in failed : e \in Replaced(d)
  BY DEF Merged
<1> QED
  BY <1>1, <1>2, <1>3

LEMMA TypeInit == Init => TypeInv
<1> SUFFICES ASSUME Init PROVE TypeInv
  OBVIOUS
<1>1. LedgerType
  <2>1. mode \in [SimpleLanes -> FailureMode]
    BY PlansAssumption DEF Init, Plan
  <2>2. claims \in [Task -> Nat] /\ results \in [Task -> Seq(BOOLEAN)]
    BY DEF Init
  <2> QED
    BY <2>1, <2>2 DEF Init, LedgerType
<1>2. StateType
  <2>1. state \in GoalState /\ file \in GoalState
    BY NewStateType DEF Init, GoalState, Status
  <2> QED
    BY <2>1 DEF Init, StateType, Phase
<1>3. LoopType
  BY BoundsAssumption DEF Init, LoopType
<1>4. CounterType
  BY DEF Init, CounterType
<1>5. BatchOK
  BY DEF Init, BatchOK
<1> QED
  BY <1>1, <1>2, <1>3, <1>4, <1>5 DEF TypeInv, TypeOK

LEMMA TypeStep == TypeInv /\ [Next]_vars => TypeInv'
<1> SUFFICES ASSUME TypeInv, [Next]_vars PROVE TypeInv'
  OBVIOUS
<1> USE DEF TypeInv
<1>l. ASSUME UNCHANGED <<mode, ledgerVars>> PROVE LedgerType'
  BY <1>l DEF ledgerVars, TypeOK, LedgerType
<1>c. ASSUME UNCHANGED <<runs, freshRuns, late>> PROVE CounterType'
  BY <1>c DEF TypeOK, CounterType
<1>o. ASSUME UNCHANGED loopVars PROVE LoopType'
  BY <1>o DEF loopVars, TypeOK, LoopType
<1>s. ASSUME UNCHANGED <<file, state, resumed, stopped>>, pc' \in Phase
      PROVE StateType'
  BY <1>s DEF TypeOK, StateType
<1>r. ASSUME Return PROVE LoopType' /\ BatchOK' /\ pc' \in Phase
                          /\ state' \in GoalState /\ resumed' \in BOOLEAN
                          /\ stopped' \in {"no", "aborted", "cancelled", "undispatched"}
  <2>1. LoopType'
    BY <1>r, BoundsAssumption DEF Return, ClearLoop, LoopType
  <2> QED
    BY <1>r, <2>1, NewStateType DEF Return, ClearLoop, BatchOK, Phase
<1>1. CASE StartFresh
  <2>1. LedgerType' /\ LoopType'
    BY <1>1, <1>l, <1>o DEF StartFresh
  <2>2. StateType'
    BY <1>1, NewStateType DEF StartFresh, loopVars, TypeOK, StateType, Phase
  <2>3. CounterType'
    BY <1>1 DEF StartFresh, TypeOK, CounterType
  <2>4. BatchOK'
    BY <1>1 DEF StartFresh, BatchOK
  <2> QED
    BY <2>1, <2>2, <2>3, <2>4 DEF TypeOK
<1>2. CASE ResumeFinished
  <2>1. LedgerType' /\ LoopType'
    BY <1>2, <1>l, <1>o DEF ResumeFinished
  <2>2. StateType'
    BY <1>2 DEF ResumeFinished, loopVars, TypeOK, StateType
  <2>3. CounterType'
    BY <1>2 DEF ResumeFinished, TypeOK, CounterType
  <2>4. BatchOK'
    BY <1>2 DEF ResumeFinished, loopVars, BatchOK
  <2> QED
    BY <2>1, <2>2, <2>3, <2>4 DEF TypeOK
<1>3. CASE ResumeActive
  <2>1. LedgerType'
    BY <1>3, <1>l DEF ResumeActive
  <2>2. LoopType'
    BY <1>3 DEF ResumeActive, TypeOK, LoopType
  <2>3. StateType'
    BY <1>3 DEF ResumeActive, TypeOK, StateType, GoalState, Status, Phase
  <2>4. CounterType'
    BY <1>3 DEF ResumeActive, TypeOK, CounterType
  <2>5. BatchOK'
    BY <1>3 DEF ResumeActive, BatchOK
  <2> QED
    BY <2>1, <2>2, <2>3, <2>4, <2>5 DEF TypeOK
<1>4. CASE GoalStartHook
  <2>1. LedgerType' /\ CounterType'
    BY <1>4, <1>l, <1>c DEF GoalStartHook
  <2>2. CASE Return /\ file' = [state EXCEPT !.status = "aborted"]
    <3>1. file' \in GoalState
      BY <2>2 DEF TypeOK, StateType, GoalState, Status
    <3> QED
      BY <2>1, <2>2, <3>1, <1>r DEF TypeOK, StateType
  <2>3. CASE pc' = "patterns" /\ UNCHANGED <<file, state, loopVars>>
    <3>1. LoopType'
      BY <2>3, <1>o
    <3>2. StateType'
      BY <2>3 DEF loopVars, TypeOK, StateType, Phase
    <3>3. BatchOK'
      BY <2>3 DEF BatchOK
    <3> QED
      BY <2>1, <3>1, <3>2, <3>3 DEF TypeOK
  <2> QED
    BY <1>4, <2>2, <2>3 DEF GoalStartHook
<1>5. ASSUME NEW p \in PatternLanes, RunPatternLane(p) PROVE TypeInv'
  <2>1. LedgerType' /\ LoopType' /\ CounterType'
    BY <1>5, <1>l, <1>o, <1>c DEF RunPatternLane
  <2>2. state' \in GoalState
    BY <1>5 DEF RunPatternLane, TypeOK, StateType, GoalState, Verdict, PatternVerdict
  <2>3. StateType'
    BY <1>5, <2>2 DEF RunPatternLane, loopVars, TypeOK, StateType
  <2>4. BatchOK'
    BY <1>5 DEF RunPatternLane, BatchOK
  <2> QED
    BY <2>1, <2>3, <2>4 DEF TypeOK
<1>6. CASE PatternsDone
  <2>1. LedgerType' /\ LoopType' /\ CounterType'
    BY <1>6, <1>l, <1>o, <1>c DEF PatternsDone
  <2>2. StateType' /\ BatchOK'
    BY <1>6 DEF PatternsDone, loopVars, TypeOK, StateType, Phase, BatchOK
  <2> QED
    BY <2>1, <2>2 DEF TypeOK
<1>7. CASE PreCancelCheck
  <2>1. LedgerType' /\ CounterType'
    BY <1>7, <1>l, <1>c DEF PreCancelCheck
  <2>2. LoopType'
    BY <1>7 DEF PreCancelCheck, TypeOK, LoopType
  <2>3. state' \in GoalState /\ file' \in GoalState
    BY <1>7 DEF PreCancelCheck, TypeOK, StateType, GoalState, Status
  <2>4. StateType'
    BY <1>7, <2>3 DEF PreCancelCheck, TypeOK, StateType, Phase
  <2>5. BatchOK'
    BY <1>7 DEF PreCancelCheck, BatchOK
  <2> QED
    BY <2>1, <2>2, <2>4, <2>5 DEF TypeOK
<1>8. CASE LaneDispatchHooks
  <2>1. CounterType'
    BY <1>8, <1>c DEF LaneDispatchHooks
  <2>2. PICK b \in SUBSET HookedLanes :
          /\ blocked' = b /\ laneBlocked' = laneBlocked \cup b
          /\ todo' = SimpleLanes \ b
          /\ batch' = (SimpleLanes \ b) \X {Original}
    BY <1>8 DEF LaneDispatchHooks
  <2>3. LedgerType'
    BY <1>8, <2>2, LanesAssumption DEF LaneDispatchHooks, TypeOK, LedgerType
  <2>4. batch' \in SUBSET Task
    BY <2>2, AttemptRange DEF Task
  <2>5. LoopType'
    BY <1>8, <2>2, <2>4, LanesAssumption DEF LaneDispatchHooks, TypeOK, LoopType
  <2>6. StateType' /\ BatchOK'
    BY <1>8 DEF LaneDispatchHooks, TypeOK, StateType, Phase, BatchOK
  <2> QED
    BY <2>1, <2>3, <2>5, <2>6 DEF TypeOK
<1>9. CASE DispatchLane
  <2>1. todo # {} /\ todo' = todo \ {NextLane} /\ NextLane \in SimpleLanes
    BY <1>9 DEF DispatchLane, NextLane, TypeOK, LoopType
  <2>2. UNCHANGED <<claims, late>> \/ Claim(<<NextLane, Original>>)
    BY <1>9 DEF DispatchLane
  <2>3. claims' \in [Task -> Nat] /\ late' \in [SimpleLanes -> Nat]
    BY <2>1, <2>2, ClaimType, AttemptRange DEF TypeOK, LedgerType, CounterType
  <2>4. LedgerType' /\ CounterType'
    BY <1>9, <2>3 DEF DispatchLane, TypeOK, LedgerType, CounterType
  <2>5. LoopType'
    BY <1>9, <2>1 DEF DispatchLane, TypeOK, LoopType
  <2>6. StateType' /\ BatchOK'
    BY <1>9 DEF DispatchLane, TypeOK, StateType, Phase, BatchOK
  <2> QED
    BY <2>4, <2>5, <2>6 DEF TypeOK
<1>10. CASE DispatchNothing
  <2>1. LedgerType' /\ LoopType' /\ CounterType'
    BY <1>10, <1>l, <1>o, <1>c DEF DispatchNothing
  <2>2. StateType' /\ BatchOK'
    BY <1>10 DEF DispatchNothing, loopVars, TypeOK, StateType, Phase, BatchOK
  <2> QED
    BY <2>1, <2>2 DEF TypeOK
<1>11. CASE PollOriginals
  <2>1. LedgerType' /\ CounterType'
    BY <1>11, <1>l, <1>c DEF PollOriginals
  <2>2. \A t \in Answered : OutcomeOf(t) \in Outcome
    BY OutcomeType DEF Answered, TypeOK, LoopType
  <2>3. \A l \in blocked : HookOutcome(l) \in Outcome
    BY HookOutcomeType DEF TypeOK, LoopType
  <2>4. done' \in SUBSET Outcome
    BY <1>11, <2>2, <2>3 DEF PollOriginals
  <2>5. LoopType'
    BY <1>11, <2>4 DEF PollOriginals, TypeOK, LoopType
  <2>6. state' \in GoalState
    <3>1. Received([t \in Task |-> "none"]) \in [Task -> Verdict]
      BY ReceivedType DEF Verdict
    <3> QED
      BY <1>11, <3>1 DEF PollOriginals, TypeOK, StateType, LoopType, GoalState, Status
  <2>7. StateType' /\ BatchOK'
    BY <1>11, <2>6 DEF PollOriginals, TypeOK, StateType, Phase, BatchOK
  <2> QED
    BY <2>1, <2>5, <2>7 DEF TypeOK
<1>12. CASE LoopHead
  <2>1. LedgerType' /\ CounterType'
    BY <1>12, <1>l, <1>c DEF LoopHead
  <2>2. /\ FallbackLanes \in SUBSET SimpleLanes
        /\ RetriableLanes \in SUBSET SimpleLanes
        /\ Red \in SUBSET Outcome
        /\ \A l \in RetriableLanes : used[l] < mode[l].retries
    BY DEF FallbackLanes, RetriableLanes, Red, TypeOK, LoopType, Outcome
  <2>3. todo' \in SUBSET SimpleLanes
    BY <1>12, <2>2 DEF LoopHead, HeadCancelled, HeadAborted, HeadRecover, TypeOK, LoopType
  <2>4. LoopType'
    BY <1>12, <2>2, <2>3 DEF LoopHead, TypeOK, LoopType
  <2>5. StateType'
    BY <1>12 DEF LoopHead, HeadCancelled, HeadAborted, HeadRecover, TypeOK,
      StateType, GoalState, Status, Phase
  <2>6. BatchOK'
    BY <1>12, <2>2 DEF LoopHead, HeadCancelled, HeadAborted, HeadRecover, BatchOK
  <2> QED
    BY <2>1, <2>4, <2>5, <2>6 DEF TypeOK
<1>13. CASE DispatchFallback
  <2>1. /\ todo' = todo \ {NextLane} /\ NextLane \in SimpleLanes
        /\ fbUsed' = fbUsed \cup {NextLane} /\ Claim(<<NextLane, Fallback>>)
        /\ batch' = batch \cup {<<NextLane, Fallback>>}
    BY <1>13 DEF DispatchFallback, NextLane, TypeOK, LoopType, BatchOK
  <2>2. claims' \in [Task -> Nat] /\ late' \in [SimpleLanes -> Nat]
    BY <2>1, ClaimType, AttemptRange
  <2>3. LedgerType' /\ CounterType'
    BY <1>13, <2>2 DEF DispatchFallback, TypeOK, LedgerType, CounterType
  <2>4. batch' \in SUBSET Task
    BY <2>1, TaskType, AttemptRange DEF TypeOK, LoopType
  <2>5. LoopType'
    BY <1>13, <2>1, <2>4 DEF DispatchFallback, TypeOK, LoopType
  <2>6. StateType' /\ BatchOK'
    BY <1>13 DEF DispatchFallback, TypeOK, StateType, Phase, BatchOK
  <2> QED
    BY <2>3, <2>5, <2>6 DEF TypeOK
<1>14. CASE DispatchRetry
  <2> DEFINE l == NextLane
  <2>1. /\ l \in todo /\ l \in SimpleLanes
        /\ used[l] < mode[l].retries
    BY <1>14 DEF DispatchRetry, NextLane, TypeOK, LoopType, BatchOK
  <2>2. used[l] + 1 \in 0 .. MaxRetries
    <3>1. mode[l].retries \in 0 .. MaxRetries /\ used[l] \in 0 .. MaxRetries
      BY <2>1, ModeType DEF TypeOK, LedgerType, LoopType
    <3> QED
      BY <3>1, <2>1, BoundsAssumption
  <2>3. used[l] + 1 \in Attempt
    BY <2>2, AttemptRange
  <2>4. /\ todo' = todo \ {l} /\ used' = [used EXCEPT ![l] = @ + 1]
        /\ Claim(<<l, used[l] + 1>>)
        /\ batch' = batch \cup {<<l, used[l] + 1>>}
    BY <1>14 DEF DispatchRetry
  <2> HIDE DEF l
  <2>5. claims' \in [Task -> Nat] /\ late' \in [SimpleLanes -> Nat]
    BY <2>1, <2>3, <2>4, ClaimType
  <2>6. LedgerType' /\ CounterType'
    BY <1>14, <2>5 DEF DispatchRetry, TypeOK, LedgerType, CounterType
  <2>7. batch' \in SUBSET Task
    BY <2>1, <2>3, <2>4, TaskType DEF TypeOK, LoopType
  <2>8. used' \in [SimpleLanes -> 0 .. MaxRetries]
    BY <2>1, <2>2, <2>4 DEF TypeOK, LoopType
  <2>9. LoopType'
    BY <1>14, <2>4, <2>7, <2>8 DEF DispatchRetry, TypeOK, LoopType
  <2>10. StateType'
    BY <1>14 DEF DispatchRetry, TypeOK, StateType, Phase
  <2>11. BatchOK'
    BY <1>14, <2>1, <2>4 DEF DispatchRetry, TypeOK, LoopType, BatchOK
  <2> QED
    BY <2>6, <2>9, <2>10, <2>11 DEF TypeOK
<1>15. ASSUME AfterPoll, UNCHANGED <<stopped, resumed, blocked, failed, retriable, used, fbUsed>>,
              todo' \in SUBSET SimpleLanes, pc' \in Phase
       PROVE  StateType' /\ LoopType'
  <2>1. done' \in SUBSET Outcome /\ batch' = {}
    BY <1>15, MergedType DEF AfterPoll, TypeOK, LoopType
  <2>2. LoopType'
    BY <1>15, <2>1 DEF TypeOK, LoopType
  <2>3. Received(state.received) \in [Task -> Verdict]
    BY ReceivedType DEF TypeOK, StateType, GoalState
  <2>4. ((SimpleLanes \ blocked) \X {Original}) \cup batch \in SUBSET Task
    BY AttemptRange DEF TypeOK, LoopType, Task
  <2>5. state' \in GoalState
    BY <1>15, <2>3, <2>4 DEF AfterPoll, TypeOK, StateType, GoalState
  <2> QED
    BY <1>15, <2>2, <2>5 DEF AfterPoll, TypeOK, StateType
<1>16. CASE PollFallback
  <2>1. LedgerType' /\ CounterType'
    BY <1>16, <1>l, <1>c DEF PollFallback
  <2>2. todo' \in SUBSET SimpleLanes /\ pc' \in Phase
    BY <1>16 DEF PollFallback, TypeOK, LoopType, Phase
  <2>3. StateType' /\ LoopType'
    BY <1>16, <2>2, <1>15 DEF PollFallback
  <2>4. BatchOK'
    BY <1>16 DEF PollFallback, BatchOK
  <2> QED
    BY <2>1, <2>3, <2>4 DEF TypeOK
<1>17. CASE PollRetry
  <2>1. LedgerType' /\ CounterType'
    BY <1>17, <1>l, <1>c DEF PollRetry
  <2>2. todo' \in SUBSET SimpleLanes /\ pc' \in Phase
    BY <1>17 DEF PollRetry, TypeOK, LoopType, Phase
  <2>3. StateType' /\ LoopType'
    BY <1>17, <2>2, <1>15 DEF PollRetry
  <2>4. BatchOK'
    BY <1>17 DEF PollRetry, BatchOK
  <2> QED
    BY <2>1, <2>3, <2>4 DEF TypeOK
<1>18. CASE FoldUsage
  <2>1. LedgerType' /\ LoopType' /\ CounterType'
    BY <1>18, <1>l, <1>o, <1>c DEF FoldUsage
  <2>2. ReturnedClaims \in SUBSET Task
    BY AttemptRange DEF ReturnedClaims, Task
  <2>3. state' \in GoalState
    BY <1>18, <2>2 DEF FoldUsage, TypeOK, StateType, GoalState
  <2>4. StateType' /\ BatchOK'
    BY <1>18, <2>3 DEF FoldUsage, loopVars, TypeOK, StateType, Phase, BatchOK
  <2> QED
    BY <2>1, <2>4 DEF TypeOK
<1>19. CASE Synthesize
  <2>1. LedgerType' /\ CounterType'
    BY <1>19, <1>l, <1>c DEF Synthesize
  <2>2. stopped \in {"no", "aborted", "cancelled", "undispatched"}
    BY DEF TypeOK, StateType
  <2>3. file' \in GoalState
    <3> DEFINE s == CASE stopped \in {"cancelled", "undispatched"} -> "cancelled"
                      [] OverallOk                                -> "done"
                      [] stopped = "aborted"                      -> "aborted"
                      [] stopped = "no" /\ ~OverallOk             -> "failed"
    <3>1. s \in Status
      BY <2>2, Zenon DEF Status
    <3>3. file' = [state EXCEPT !.status = s]
      BY <1>19 DEF Synthesize
    <3> HIDE DEF s
    <3> QED
      BY <3>1, <3>3 DEF TypeOK, StateType, GoalState
  <2>4. StateType' /\ LoopType' /\ BatchOK'
    BY <1>19, <2>3, <1>r DEF Synthesize, StateType
  <2> QED
    BY <2>1, <2>4 DEF TypeOK
<1>20. ASSUME NEW t \in Task, NEW ok \in BOOLEAN, AgentResult(t, ok) PROVE TypeInv'
  <2>1. CounterType' /\ LoopType'
    BY <1>20, <1>c, <1>o DEF AgentResult
  <2>2. results' \in [Task -> Seq(BOOLEAN)]
    BY <1>20 DEF AgentResult, TypeOK, LedgerType
  <2>3. LedgerType'
    BY <1>20, <2>2 DEF AgentResult, TypeOK, LedgerType
  <2>4. StateType' /\ BatchOK'
    BY <1>20 DEF AgentResult, loopVars, TypeOK, StateType, BatchOK
  <2> QED
    BY <2>1, <2>3, <2>4 DEF TypeOK
<1>21. CASE CancelGoal
  <2>1. CounterType' /\ LoopType'
    BY <1>21, <1>c, <1>o DEF CancelGoal
  <2>2. LedgerType'
    BY <1>21 DEF CancelGoal, TypeOK, LedgerType
  <2>3. StateType' /\ BatchOK'
    BY <1>21 DEF CancelGoal, loopVars, TypeOK, StateType, BatchOK
  <2> QED
    BY <2>1, <2>2, <2>3 DEF TypeOK
<1>22. CASE Crash
  <2>1. LedgerType' /\ CounterType'
    BY <1>22, <1>l, <1>c DEF Crash
  <2>2. Return
    BY <1>22 DEF Crash, Return
  <2>3. StateType' /\ LoopType' /\ BatchOK'
    BY <1>22, <2>2, <1>r DEF Crash, TypeOK, StateType
  <2> QED
    BY <2>1, <2>3 DEF TypeOK
<1>23. CASE UNCHANGED vars
  <2>1. LedgerType' /\ LoopType' /\ CounterType'
    BY <1>23, <1>l, <1>o, <1>c DEF vars
  <2>2. StateType' /\ BatchOK'
    BY <1>23 DEF vars, ledgerVars, loopVars, TypeOK, StateType, BatchOK
  <2> QED
    BY <2>1, <2>2 DEF TypeOK
<1> QED
  BY <1>1, <1>2, <1>3, <1>4, <1>5, <1>6, <1>7, <1>8, <1>9, <1>10, <1>11, <1>12,
     <1>13, <1>14, <1>16, <1>17, <1>18, <1>19, <1>20, <1>21, <1>22, <1>23
     DEF Next, Orchestrator

\* Every reachable state is well typed: in particular the recovery loop never
\* spends more retries on a lane than its failure_mode allows.
THEOREM TypeCorrect == Spec => []TypeOK
<1>1. TypeInv => TypeOK
  BY DEF TypeInv
<1> QED
  BY <1>1, TypeInit, TypeStep, PTL DEF Spec

----------------------------------------------------------------------------
(* What the state file says while a run is under way and after it.          *)

\* The state held by the process is never a finished one, and the file shows an
\* unfinished goal as long as a run of the goal is under way.
ControlInv ==
  /\ state.status \in {"active", "cancelled"}
  /\ pc # "idle" => file.status \notin Terminal

LEMMA ControlInit == Init => ControlInv
BY DEF Init, ControlInv, NewState

LEMMA ControlStep == TypeInv /\ ControlInv /\ [Next]_vars => ControlInv'
<1> SUFFICES ASSUME TypeInv, ControlInv, [Next]_vars PROVE ControlInv'
  OBVIOUS
<1> state \in GoalState /\ file \in GoalState
  BY DEF TypeInv, TypeOK, StateType
<1> USE DEF ControlInv, Terminal, GoalState
<1>1. CASE StartFresh \/ ResumeFinished \/ ResumeActive
  BY <1>1 DEF StartFresh, ResumeFinished, ResumeActive, NewState
<1>2. CASE GoalStartHook \/ Synthesize \/ Crash
  BY <1>2 DEF GoalStartHook, Synthesize, Crash, Return, NewState
<1>3. ASSUME NEW p \in PatternLanes, RunPatternLane(p) PROVE ControlInv'
  BY <1>3 DEF RunPatternLane
<1>4. CASE PatternsDone \/ PreCancelCheck \/ LaneDispatchHooks
  BY <1>4 DEF PatternsDone, PreCancelCheck, LaneDispatchHooks
<1>5. CASE DispatchLane \/ DispatchNothing \/ DispatchFallback \/ DispatchRetry
  BY <1>5 DEF DispatchLane, DispatchNothing, DispatchFallback, DispatchRetry
<1>6. CASE PollOriginals
  BY <1>6 DEF PollOriginals
<1>7. CASE LoopHead
  BY <1>7 DEF LoopHead, HeadCancelled, HeadAborted, HeadRecover
<1>8. CASE PollFallback \/ PollRetry
  BY <1>8 DEF PollFallback, PollRetry, AfterPoll
<1>9. CASE FoldUsage
  BY <1>9 DEF FoldUsage
<1>10. ASSUME NEW t \in Task, NEW ok \in BOOLEAN, AgentResult(t, ok) PROVE ControlInv'
  BY <1>10 DEF AgentResult
<1>11. CASE CancelGoal
  BY <1>11 DEF CancelGoal
<1>12. CASE UNCHANGED vars
  BY <1>12 DEF vars
<1> QED
  BY <1>1, <1>2, <1>3, <1>4, <1>5, <1>6, <1>7, <1>8, <1>9, <1>10, <1>11, <1>12
     DEF Next, Orchestrator

LEMMA ControlCorrect == Spec => [](TypeInv /\ ControlInv)
BY TypeInit, TypeStep, ControlInit, ControlStep, PTL DEF Spec

\* No resume, crash, late result or cancel rewrites the state file of a goal that
\* is done, failed or aborted: only a new run of the goal does.
THEOREM FinishedIsFinal == Spec => FinishedStateIsFinal
<1>1. ASSUME ControlInv, [Next]_vars, file.status \in Terminal, freshRuns' = freshRuns,
             TypeInv
      PROVE  file' = file
  <2>1. pc = "idle" /\ freshRuns \in Nat
    BY <1>1 DEF ControlInv, TypeInv, TypeOK, CounterType
  <2>2. ~StartFresh /\ ~ResumeActive /\ ~Orchestrator
    BY <1>1, <2>1 DEF StartFresh, ResumeActive, Terminal, Orchestrator, GoalStartHook,
      RunPatternLane, PatternsDone, PreCancelCheck, LaneDispatchHooks, DispatchLane,
      DispatchNothing, PollOriginals, LoopHead, DispatchFallback, DispatchRetry,
      PollFallback, PollRetry, FoldUsage, Synthesize
  <2> QED
    BY <1>1, <2>2 DEF Next, ResumeFinished, AgentResult, CancelGoal, Crash, vars
<1>2. TypeInv /\ ControlInv /\ [Next]_vars =>
        [file.status \in Terminal /\ freshRuns' = freshRuns => file' = file]_vars
  BY <1>1
<1> QED
  BY <1>2, ControlCorrect, PTL DEF Spec, FinishedStateIsFinal

----------------------------------------------------------------------------
(* A goal recorded as done earned it.                                       *)

\* The ledger answers an ok outcome: its task was claimed and has a first result,
\* which is ok.
Earned(d) ==
  LET t == <<d.lane, d.att>>
  IN  claims[t] > 0 /\ results[t] # <<>> /\ Head(results[t])

\* What is polled was claimed, though it may have been answered before.
BatchClaimed ==
  \A t \in batch :
    claims[t] > 0 \/ (pc = "dispatch" /\ t[1] \in todo /\ t[2] = Original)

EarnInv ==
  /\ BatchClaimed
  /\ \A d \in done : d.ok => Earned(d)
  /\ \A d \in failed : ~d.ok
  /\ GreenIsEarned

LEMMA BatchStep == TypeInv /\ BatchClaimed /\ [Next]_vars => BatchClaimed'
<1> SUFFICES ASSUME TypeInv, BatchClaimed, [Next]_vars PROVE BatchClaimed'
  OBVIOUS
<1> /\ claims \in [Task -> Nat] /\ batch \subseteq Task /\ todo \subseteq SimpleLanes
  BY DEF TypeInv, TypeOK, LedgerType, LoopType
<1>t. /\ Original \in Attempt /\ Fallback \in Attempt
      /\ \A l \in SimpleLanes, a \in Attempt : <<l, a>> \in Task
  BY TaskType, BoundsAssumption DEF Original, Fallback, Attempt
<1>c. ASSUME NEW u, Claim(u), u \in Task
      PROVE  /\ claims'[u] > 0 /\ \A t \in Task : claims[t] > 0 => claims'[t] > 0
  BY <1>c DEF Claim
<1>1. CASE LaneDispatchHooks
  BY <1>1 DEF LaneDispatchHooks, BatchClaimed
<1>2. CASE DispatchLane
  <2> DEFINE l == NextLane
  <2>1. l \in todo /\ <<l, Original>> \in Task
    BY <1>2, <1>t DEF DispatchLane, NextLane
  <2>2. /\ pc = "dispatch" /\ batch' = batch /\ todo' = todo \ {l}
        /\ pc' = "dispatch" \/ todo' = {}
    BY <1>2 DEF DispatchLane
  <2>3. claims'[<<l, Original>>] > 0 /\ \A t \in Task : claims[t] > 0 => claims'[t] > 0
    BY <1>2, <1>c, <2>1 DEF DispatchLane
  <2> HIDE DEF l
  <2>4. ASSUME NEW t \in batch, t[1] \in todo, t[2] = Original
        PROVE  claims'[t] > 0 \/ (pc' = "dispatch" /\ t[1] \in todo')
    <3>1. t = <<t[1], t[2]>>
      BY DEF Task
    <3>2. CASE t[1] = l
      BY <2>3, <2>4, <3>1, <3>2
    <3>3. CASE t[1] # l
      BY <2>2, <2>4, <3>3
    <3> QED BY <3>2, <3>3
  <2> QED BY <2>2, <2>3, <2>4 DEF BatchClaimed
<1>3. CASE DispatchFallback \/ DispatchRetry
  <2>1. PICK u : Claim(u) /\ batch' = batch \cup {u} /\ pc # "dispatch"
    BY <1>3 DEF DispatchFallback, DispatchRetry
  <2>2. batch' \subseteq Task
    BY TypeStep DEF TypeInv, TypeOK, LoopType
  <2> QED BY <1>c, <2>1, <2>2 DEF BatchClaimed
<1>4. CASE DispatchNothing
  BY <1>4 DEF DispatchNothing, BatchClaimed, ledgerVars, loopVars
<1>5. CASE batch' = {}
  BY <1>5 DEF BatchClaimed
<1>6. CASE UNCHANGED <<batch, claims>> /\ (pc = "dispatch" => pc' = pc /\ todo' = todo)
  BY <1>6 DEF BatchClaimed
<1> QED
  BY <1>1, <1>2, <1>3, <1>4, <1>5, <1>6 DEF Next, Orchestrator, StartFresh, ResumeFinished,
     ResumeActive, GoalStartHook, RunPatternLane, PatternsDone, PreCancelCheck,
     PollOriginals, LoopHead, PollFallback, PollRetry, AfterPoll, FoldUsage, Synthesize,
     AgentResult, CancelGoal, Crash, Return, ClearLoop, ledgerVars, loopVars, vars

\* The ledger is append-only.
LEMMA LedgerGrows ==
  ASSUME TypeInv, [Next]_vars, NEW t \in Task
  PROVE  /\ claims'[t] >= claims[t]
         /\ results[t] # <<>> =>
              results'[t] # <<>> /\ Head(results'[t]) = Head(results[t])
<1> /\ claims \in [Task -> Nat] /\ results \in [Task -> Seq(BOOLEAN)]
  BY DEF TypeInv, TypeOK, LedgerType
<1>1. ASSUME NEW u, Claim(u), results' = results
      PROVE  /\ claims'[t] >= claims[t]
             /\ results'[t] = results[t]
  BY <1>1 DEF Claim
<1>2. CASE \E u \in Task, ok \in BOOLEAN : AgentResult(u, ok)
  BY <1>2 DEF AgentResult
<1>3. CASE DispatchLane \/ DispatchFallback \/ DispatchRetry
  BY <1>1, <1>3 DEF DispatchLane, DispatchFallback, DispatchRetry
<1>4. CASE UNCHANGED <<claims, results>>
  BY <1>4
<1> QED
  BY <1>2, <1>3, <1>4 DEF Next, Orchestrator, StartFresh, ResumeFinished, ResumeActive,
     GoalStartHook, RunPatternLane, PatternsDone, PreCancelCheck, LaneDispatchHooks,
     DispatchNothing, PollOriginals, LoopHead, PollFallback, PollRetry, FoldUsage,
     Synthesize, CancelGoal, Crash, ledgerVars, vars

LEMMA StillClaimed ==
  ASSUME TypeInv, [Next]_vars, NEW t \in Task, claims[t] > 0
  PROVE  claims'[t] > 0
<1>1. claims[t] \in Nat /\ claims'[t] \in Nat
  BY TypeStep DEF TypeInv, TypeOK, LedgerType
<1>2. claims'[t] >= claims[t]
  BY LedgerGrows
<1> QED BY <1>1, <1>2

\* A poll only adds ok outcomes it read from the ledger.
LEMMA AnsweredEarned ==
  ASSUME TypeInv, BatchClaimed, pc # "dispatch", NEW t \in Answered, OutcomeOf(t).ok
  PROVE  Earned(OutcomeOf(t))
<1>1. t \in Task /\ results[t] # <<>> /\ claims[t] > 0
  BY DEF Answered, BatchClaimed, TypeInv, TypeOK, LoopType
<1>2. t = <<t[1], t[2]>>
  BY <1>1 DEF Task
<1> QED
  BY <1>1, <1>2 DEF OutcomeOf, Earned

LEMMA MergedEarned ==
  ASSUME TypeInv, EarnInv, pc # "dispatch", NEW d \in Merged, d.ok
  PROVE  Earned(d)
<1>1. CASE d \in done
  BY <1>1 DEF EarnInv
<1>2. CASE \E e \in failed : d \in Replaced(e)
  BY <1>2, AnsweredEarned DEF Replaced, EarnInv
<1> QED
  BY <1>1, <1>2 DEF Merged

LEMMA SynthesizedDone ==
  ASSUME NEW l \in SimpleLanes, SynthesizedLane(l) = "done"
  PROVE  \E d \in done : d.lane = l /\ d.ok
BY DEF SynthesizedLane

LEMMA EarnInit == Init => EarnInv
<1> SUFFICES ASSUME Init PROVE EarnInv
  OBVIOUS
<1>1. BatchClaimed
  BY DEF Init, BatchClaimed
<1>2. done = {} /\ failed = {}
  BY DEF Init
<1>3. file.status = "absent"
  BY NewStateType DEF Init, GoalState
<1> QED
  BY <1>1, <1>2, <1>3 DEF EarnInv, GreenIsEarned

LEMMA EarnStep == TypeInv /\ ControlInv /\ EarnInv /\ [Next]_vars => EarnInv'
<1> SUFFICES ASSUME TypeInv, ControlInv, EarnInv, [Next]_vars PROVE EarnInv'
  OBVIOUS
<1> /\ claims \in [Task -> Nat] /\ results \in [Task -> Seq(BOOLEAN)]
    /\ state \in GoalState /\ file \in GoalState /\ done \in SUBSET Outcome
  BY DEF TypeInv, TypeOK, LedgerType, StateType, LoopType
\* An earned outcome stays earned.
<1>e. ASSUME NEW d \in Outcome, Earned(d) PROVE Earned(d)'
  <2>1. <<d.lane, d.att>> \in Task
    BY DEF Outcome, Task
  <2> QED
    BY <1>e, <2>1, LedgerGrows, StillClaimed DEF Earned
<1>1. BatchClaimed'
  BY BatchStep DEF EarnInv
<1>2. /\ \A d \in done' : d.ok => Earned(d)'
      /\ \A d \in failed' : ~d.ok
  <2>1. CASE PollOriginals
    <3>0. pc # "dispatch" /\ BatchClaimed
      BY <2>1 DEF PollOriginals, EarnInv
    <3>1. ASSUME NEW d \in done', d.ok PROVE Earned(d)
      <4>1. \E t \in Answered : d = OutcomeOf(t)
        BY <2>1, <3>1 DEF PollOriginals, HookOutcome
      <4> QED BY <3>0, <3>1, <4>1, AnsweredEarned
    <3> QED
      BY <2>1, <3>1 DEF PollOriginals, EarnInv, ledgerVars, Earned
  <2>2. CASE LoopHead
    BY <2>2 DEF LoopHead, Red, EarnInv, ledgerVars, Earned
  <2>3. CASE PollFallback \/ PollRetry
    BY <2>3, MergedEarned DEF PollFallback, PollRetry, AfterPoll, EarnInv,
      ledgerVars, Earned
  <2>4. CASE Return \/ Crash
    BY <2>4 DEF Return, Crash, ClearLoop
  <2>5. CASE UNCHANGED <<done, failed>>
    BY <2>5, <1>e DEF EarnInv
  <2> QED
    BY <2>1, <2>2, <2>3, <2>4, <2>5 DEF Next, Orchestrator, StartFresh, ResumeFinished,
      ResumeActive, GoalStartHook, RunPatternLane, PatternsDone, PreCancelCheck,
      LaneDispatchHooks, DispatchLane, DispatchNothing, DispatchFallback, DispatchRetry,
      FoldUsage, Synthesize, AgentResult, CancelGoal, loopVars, vars
<1>3. GreenIsEarned'
  <2> SUFFICES ASSUME file'.status = "done"
               PROVE  /\ \A l \in SimpleLanes : \E a \in Attempt :
                           /\ claims'[<<l, a>>] > 0
                           /\ results'[<<l, a>>] # <<>> /\ Head(results'[<<l, a>>])
                      /\ \A p \in PatternLanes : file'.pattern[p] = "ok"
    BY DEF GreenIsEarned
  <2>1. CASE file' = file
    <3> SUFFICES ASSUME NEW l \in SimpleLanes
                 PROVE  \E a \in Attempt : /\ claims'[<<l, a>>] > 0
                                            /\ results'[<<l, a>>] # <<>>
                                            /\ Head(results'[<<l, a>>])
      BY <2>1 DEF EarnInv, GreenIsEarned
    <3>1. PICK a \in Attempt : /\ claims[<<l, a>>] > 0
                               /\ results[<<l, a>>] # <<>>
                               /\ Head(results[<<l, a>>])
      BY <2>1 DEF EarnInv, GreenIsEarned
    <3>2. <<l, a>> \in Task
      BY TaskType
    <3>3. claims' \in [Task -> Nat]
      BY TypeStep DEF TypeInv, TypeOK, LedgerType
    <3>4. /\ claims'[<<l, a>>] >= claims[<<l, a>>]
          /\ results'[<<l, a>>] # <<>> /\ Head(results'[<<l, a>>])
      BY <3>1, <3>2, LedgerGrows
    <3>5. claims'[<<l, a>>] \in Nat /\ claims[<<l, a>>] \in Nat
      BY <3>2, <3>3
    <3>6. claims[<<l, a>>] > 0 /\ claims'[<<l, a>>] >= claims[<<l, a>>]
      BY <3>1, <3>4, Zenon
    <3>7. claims'[<<l, a>>] > 0
      BY <3>5, <3>6
    <3> QED
      BY <3>4, <3>7, Zenon
  <2>2. CASE Synthesize
    <3>1. OverallOk /\ file'.pattern = state.pattern
      <4> DEFINE s == CASE stopped \in {"cancelled", "undispatched"} -> "cancelled"
                        [] OverallOk                                -> "done"
                        [] stopped = "aborted"                      -> "aborted"
                        [] stopped = "no" /\ ~OverallOk             -> "failed"
      <4>1. file' = [state EXCEPT !.status = s]
        BY <2>2 DEF Synthesize
      <4>2. s = "done" => OverallOk
        <5>1. stopped \in {"no", "aborted", "cancelled", "undispatched"}
          BY DEF TypeInv, TypeOK, StateType
        <5> QED
          BY <5>1
      <4> HIDE DEF s
      <4> QED
        BY <4>1, <4>2 DEF GoalState
    <3>2. ASSUME NEW l \in SimpleLanes
          PROVE  \E a \in Attempt : /\ claims'[<<l, a>>] > 0
                                     /\ results'[<<l, a>>] # <<>>
                                     /\ Head(results'[<<l, a>>])
      <4>1. PICK d \in done : d.lane = l /\ d.ok
        BY <3>1, SynthesizedDone DEF OverallOk
      <4>2. Earned(d)' /\ d.att \in Attempt
        BY <4>1, <1>e DEF EarnInv, Outcome
      <4> QED
        BY <4>1, <4>2 DEF Earned
    <3>3. \A p \in PatternLanes : file'.pattern[p] = "ok"
      BY <3>1 DEF OverallOk
    <3> QED
      BY <3>2, <3>3
  <2>3. CASE file' # file /\ ~Synthesize
    <3>1. CASE StartFresh
      BY <3>1 DEF StartFresh, NewState
    <3>6. CASE GoalStartHook
      BY <2>3, <3>6 DEF GoalStartHook, GoalState
    <3>2. ASSUME NEW p \in PatternLanes, RunPatternLane(p) PROVE file'.status # "done"
      BY <3>2 DEF RunPatternLane, ControlInv, GoalState, PatternVerdict, Verdict
    <3>3. CASE PreCancelCheck \/ PollOriginals
      BY <2>3, <3>3 DEF PreCancelCheck, PollOriginals, ControlInv, GoalState
    <3>4. CASE LoopHead
      BY <2>3, <3>4 DEF LoopHead, HeadCancelled, HeadAborted, HeadRecover, ControlInv
    <3>5. CASE PollFallback \/ PollRetry \/ FoldUsage
      BY <2>3, <3>5 DEF PollFallback, PollRetry, AfterPoll, FoldUsage, ControlInv, GoalState
    <3> QED
      BY <2>3, <3>1, <3>2, <3>3, <3>4, <3>5, <3>6 DEF Crash, Next, Orchestrator, ResumeFinished,
        ResumeActive, PatternsDone, LaneDispatchHooks, DispatchLane, DispatchNothing,
        DispatchFallback, DispatchRetry, AgentResult, CancelGoal, vars
  <2> QED
    BY <2>1, <2>2, <2>3
<1> QED
  BY <1>1, <1>2, <1>3 DEF EarnInv

\* A goal is recorded as done only if every simple lane has a claimed attempt whose
\* first result is ok and every pattern lane is ok.
THEOREM GreenEarned == Spec => []GreenIsEarned
<1>1. EarnInv => GreenIsEarned
  BY DEF EarnInv
<1> QED
  BY <1>1, ControlCorrect, EarnInit, EarnStep, PTL DEF Spec
=============================================================================
