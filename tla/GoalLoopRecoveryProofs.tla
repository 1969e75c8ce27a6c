----------------------- MODULE GoalLoopRecoveryProofs -----------------------
(* Theorems about what a run of GoalLoop dispatches: the original claims,   *)
(* the recovery attempts, the claims written after a cancel request; and    *)
(* what it decides: to abort, to recover a lane no more, and whether a lane *)
(* with retries is green.                                                   *)
EXTENDS GoalLoopProofs

LEMMA Attempts ==
  /\ Original = 0 /\ Fallback # Original
  /\ \A k \in 0 .. MaxRetries : k + 1 # Original /\ k # Fallback
BY BoundsAssumption DEF Original, Fallback

\* What claiming a task does to the number of claims of each task.
LEMMA ClaimCounts ==
  ASSUME TypeInv, NEW l \in SimpleLanes, NEW a \in Attempt,
         claims' = [claims EXCEPT ![<<l, a>>] = @ + 1],
         NEW m \in SimpleLanes, NEW b \in Attempt
  PROVE  claims'[<<m, b>>] = IF m = l /\ b = a THEN claims[<<m, b>>] + 1
                                              ELSE claims[<<m, b>>]
<1>1. <<m, b>> \in Task /\ <<l, a>> \in Task
  BY TaskType
<1>2. claims \in [Task -> Nat]
  BY DEF TypeInv, TypeOK, LedgerType
<1> QED
  BY <1>1, <1>2

----------------------------------------------------------------------------
(* Original claims.                                                         *)

\* A run is under way only after some run that was not a resume, and such a run
\* has an original claim left to write for every lane it has not dispatched yet.
OriginalInv ==
  /\ OriginalClaimedOnce
  /\ pc # "idle" \/ file.status # "absent" => freshRuns > 0
  /\ ~resumed /\ pc \in {"goalStart", "patterns", "preCancel", "laneHooks"} =>
       \A l \in SimpleLanes : claims[<<l, Original>>] < freshRuns
  /\ ~resumed /\ pc = "dispatch" =>
       \A l \in todo : claims[<<l, Original>>] < freshRuns

LEMMA OriginalInit == Init => OriginalInv
<1> SUFFICES ASSUME Init PROVE OriginalInv
  OBVIOUS
<1>1. \A l \in SimpleLanes : claims[<<l, Original>>] = 0
  BY TaskType, AttemptRange DEF Init
<1>2. file.status = "absent" /\ pc = "idle" /\ freshRuns = 0
  BY NewStateType DEF Init, GoalState
<1> QED
  BY <1>1, <1>2 DEF OriginalInv, OriginalClaimedOnce

LEMMA OriginalStep == TypeInv /\ OriginalInv /\ [Next]_vars => OriginalInv'
<1> SUFFICES ASSUME TypeInv, OriginalInv, [Next]_vars PROVE OriginalInv'
  OBVIOUS
<1> DEFINE o(l) == claims[<<l, Original>>]
<1>t. freshRuns \in Nat /\ (\A l \in SimpleLanes : o(l) \in Nat)
  BY TaskType, AttemptRange DEF TypeInv, TypeOK, CounterType, LedgerType
<1>1. CASE StartFresh
  <2>1. freshRuns' = freshRuns + 1 /\ claims' = claims /\ pc' = "goalStart"
    BY <1>1 DEF StartFresh, ledgerVars
  <2> QED
    BY <2>1, <1>t DEF OriginalInv, OriginalClaimedOnce
<1>2. CASE DispatchLane
  <2>1. /\ NextLane \in todo /\ NextLane \in SimpleLanes
        /\ todo' = todo \ {NextLane} /\ UNCHANGED <<freshRuns, resumed, file>>
        /\ pc = "dispatch" /\ pc' \in {"dispatch", "poll"}
    BY <1>2 DEF DispatchLane, NextLane, TypeInv, TypeOK, LoopType
  <2>2. \/ resumed /\ o(NextLane) > 0 /\ claims' = claims
        \/ ~(resumed /\ o(NextLane) > 0) /\ Claim(<<NextLane, Original>>)
    BY <1>2 DEF DispatchLane
  <2>3. ASSUME NEW l \in SimpleLanes
        PROVE  /\ o(l)' <= freshRuns
               /\ l # NextLane => o(l)' = o(l)
    <3>1. CASE claims' = claims
      BY <3>1 DEF OriginalInv, OriginalClaimedOnce
    <3>2. CASE ~(resumed /\ o(NextLane) > 0) /\ Claim(<<NextLane, Original>>)
      <4>1. o(l)' = IF l = NextLane THEN o(l) + 1 ELSE o(l)
        <5>1. <<l, Original>> \in Task /\ <<NextLane, Original>> \in Task
          BY <2>1, TaskType, AttemptRange
        <5>2. claims' = [claims EXCEPT ![<<NextLane, Original>>] = @ + 1]
          BY <3>2 DEF Claim
        <5> QED
          BY <5>1, <5>2 DEF TypeInv, TypeOK, LedgerType
      <4>2. o(l) <= freshRuns /\ freshRuns > 0
        BY <2>1 DEF OriginalInv, OriginalClaimedOnce
      <4>3. o(NextLane) < freshRuns
        BY <3>2, <2>1, <4>2, <1>t DEF OriginalInv
      <4> QED
        BY <4>1, <4>2, <4>3, <1>t
    <3> QED
      BY <2>2, <3>1, <3>2
  <2>4. ~resumed' /\ pc' = "dispatch" => \A l \in todo' : o(l)' < freshRuns'
    <3> SUFFICES ASSUME ~resumed', NEW l \in todo' PROVE o(l)' < freshRuns'
      OBVIOUS
    <3>1. l \in todo /\ l # NextLane /\ l \in SimpleLanes /\ ~resumed
      BY <2>1 DEF TypeInv, TypeOK, LoopType
    <3> QED
      BY <3>1, <2>1, <2>3 DEF OriginalInv
  <2> QED
    BY <2>1, <2>3, <2>4 DEF OriginalInv, OriginalClaimedOnce
<1>3. CASE DispatchFallback \/ DispatchRetry
  <2>1. ASSUME DispatchRetry
        PROVE  used[NextLane] + 1 \in Attempt \ {Original} /\ NextLane \in SimpleLanes
    <3>1. NextLane \in SimpleLanes /\ used[NextLane] < mode[NextLane].retries
      BY <2>1 DEF DispatchRetry, NextLane, TypeInv, TypeOK, LoopType, BatchOK
    <3>2. /\ mode[NextLane].retries \in 0 .. MaxRetries
          /\ used[NextLane] \in 0 .. MaxRetries
      BY <3>1, ModeType DEF TypeInv, TypeOK, LedgerType, LoopType
    <3>3. used[NextLane] + 1 \in 0 .. MaxRetries
      BY <3>1, <3>2, BoundsAssumption
    <3> QED
      BY <3>1, <3>2, <3>3, AttemptRange, Attempts
  <2>2. ASSUME DispatchFallback PROVE NextLane \in SimpleLanes
    BY <2>2 DEF DispatchFallback, NextLane, TypeInv, TypeOK, LoopType, BatchOK
  <2>3. ASSUME NEW l \in SimpleLanes PROVE o(l)' = o(l)
    <3>1. ASSUME NEW a \in Attempt \ {Original}, NEW m \in SimpleLanes, Claim(<<m, a>>)
          PROVE  o(l)' = o(l)
      BY <3>1, ClaimCounts, AttemptRange DEF Claim
    <3>2. CASE DispatchRetry
      BY <2>1, <3>1, <3>2 DEF DispatchRetry
    <3>3. CASE DispatchFallback
      BY <2>2, <3>1, <3>3, AttemptRange, Attempts DEF DispatchFallback
    <3> QED
      BY <1>3, <3>2, <3>3
  <2>4. /\ UNCHANGED <<freshRuns, file, resumed>> /\ pc # "idle"
        /\ pc' \in {"fallback", "fallbackPoll", "retry", "retryPoll"}
    BY <1>3 DEF DispatchRetry, DispatchFallback
  <2> QED
    BY <2>3, <2>4 DEF OriginalInv, OriginalClaimedOnce
<1>4. CASE ResumeActive
  BY <1>4 DEF ResumeActive, ledgerVars, OriginalInv, OriginalClaimedOnce
<1>5. CASE GoalStartHook \/ Synthesize \/ Crash
  BY <1>5 DEF GoalStartHook, Synthesize, Crash, Return, ledgerVars, loopVars,
     OriginalInv, OriginalClaimedOnce
<1>6. CASE PatternsDone \/ PreCancelCheck \/ LaneDispatchHooks \/ DispatchNothing
  BY <1>6, LanesAssumption DEF PatternsDone, PreCancelCheck, LaneDispatchHooks,
     DispatchNothing, ledgerVars, loopVars, OriginalInv, OriginalClaimedOnce
<1>7. ASSUME NEW p \in PatternLanes, RunPatternLane(p) PROVE OriginalInv'
  BY <1>7 DEF RunPatternLane, ledgerVars, loopVars, OriginalInv, OriginalClaimedOnce
<1>8. CASE PollOriginals \/ LoopHead \/ PollFallback \/ PollRetry \/ FoldUsage
  BY <1>8 DEF PollOriginals, LoopHead, HeadCancelled, HeadAborted, HeadRecover,
     PollFallback, PollRetry, FoldUsage, ledgerVars, OriginalInv, OriginalClaimedOnce
<1>9. CASE ResumeFinished \/ CancelGoal \/ (\E t \in Task, ok \in BOOLEAN : AgentResult(t, ok))
           \/ UNCHANGED vars
  BY <1>9 DEF ResumeFinished, CancelGoal, AgentResult, ledgerVars, loopVars, vars,
     OriginalInv, OriginalClaimedOnce
<1> QED
  BY <1>1, <1>2, <1>3, <1>4, <1>5, <1>6, <1>7, <1>8, <1>9 DEF Next, Orchestrator

\* Crashes and resumes duplicate no original claim.
THEOREM OriginalOnce == Spec => []OriginalClaimedOnce
<1>1. OriginalInv => OriginalClaimedOnce
  BY DEF OriginalInv
<1> QED
  BY <1>1, TypeInit, TypeStep, OriginalInit, OriginalStep, PTL DEF Spec

----------------------------------------------------------------------------
(* Aborting.                                                                *)

AbortRed(d) == ~d.ok /\ mode[d.lane].kind = "abort"

\* The loop goes on only while nothing red asks for an abort, and an outcome is
\* replaced only by outcomes of its own lane.
AbortInv ==
  /\ AbortDecided
  /\ pc \notin {"foldUsage", "finish"} => stopped = "no"
  /\ pc = "foldUsage" /\ stopped \in {"no", "aborted"} =>
       (stopped = "aborted" <=> \E d \in done : AbortRed(d))
  /\ pc \in {"fallback", "fallbackPoll", "retry", "retryPoll"} =>
       /\ \A d \in done : ~AbortRed(d)
       /\ \A d \in failed : ~d.ok /\ ~AbortRed(d)

LEMMA MergedNotAborting ==
  ASSUME \A d \in done : ~AbortRed(d),
         \A d \in failed : ~d.ok /\ ~AbortRed(d)
  PROVE  \A d \in Merged : ~AbortRed(d)
<1>1. ASSUME NEW d \in failed, NEW e \in Replaced(d) PROVE e.lane = d.lane
  BY <1>1 DEF Replaced, OutcomeOf
<1> QED
  BY <1>1 DEF Merged, AbortRed

LEMMA AbortInit == Init => AbortInv
BY DEF Init, AbortInv, AbortDecided

LEMMA AbortStep == AbortInv /\ [Next]_vars => AbortInv'
<1> SUFFICES ASSUME AbortInv, [Next]_vars PROVE AbortInv'
  OBVIOUS
<1> USE DEF AbortInv, AbortDecided, AbortRed
<1>1. CASE StartFresh \/ ResumeFinished \/ ResumeActive
  BY <1>1 DEF StartFresh, ResumeFinished, ResumeActive, loopVars
<1>2. CASE GoalStartHook \/ Synthesize \/ Crash
  BY <1>2 DEF GoalStartHook, Synthesize, Crash, Return, ClearLoop, loopVars
<1>3. CASE (\E p \in PatternLanes : RunPatternLane(p)) \/ PatternsDone \/ DispatchNothing
  BY <1>3 DEF RunPatternLane, PatternsDone, DispatchNothing, loopVars
<1>4. CASE PreCancelCheck \/ LaneDispatchHooks \/ DispatchLane
  BY <1>4 DEF PreCancelCheck, LaneDispatchHooks, DispatchLane
<1>5. CASE PollOriginals
  BY <1>5 DEF PollOriginals
<1>6. CASE LoopHead
  <2>1. /\ pc = "head" /\ failed' = Red /\ UNCHANGED <<done, mode>>
        /\ Aborters = {d \in done : AbortRed(d)} /\ Red \subseteq done
        /\ \A d \in Red : ~d.ok
    BY <1>6 DEF LoopHead, Aborters, Red
  <2>2. CASE HeadCancelled
    BY <2>1, <2>2 DEF HeadCancelled
  <2>3. CASE Aborters # {} /\ HeadAborted
    BY <2>1, <2>3 DEF HeadAborted
  <2>4. CASE Aborters = {} /\ HeadRecover
    BY <2>1, <2>4 DEF HeadRecover
  <2> QED
    BY <1>6, <2>2, <2>3, <2>4 DEF LoopHead
<1>7. CASE DispatchFallback \/ DispatchRetry
  BY <1>7 DEF DispatchFallback, DispatchRetry
<1>8. CASE PollFallback \/ PollRetry
  <2>1. /\ pc \in {"fallbackPoll", "retryPoll"} /\ UNCHANGED <<failed, mode, stopped>>
        /\ done' = Merged /\ pc' \in {"retry", "foldUsage", "head"}
    BY <1>8 DEF PollFallback, PollRetry, AfterPoll
  <2>2. \A d \in done' : ~AbortRed(d)
    BY <2>1, MergedNotAborting
  <2> QED
    BY <2>1, <2>2
<1>9. CASE FoldUsage
  BY <1>9 DEF FoldUsage, loopVars
<1>10. CASE CancelGoal \/ (\E t \in Task, ok \in BOOLEAN : AgentResult(t, ok)) \/ UNCHANGED vars
  BY <1>10 DEF CancelGoal, AgentResult, loopVars, vars
<1> QED
  BY <1>1, <1>2, <1>3, <1>4, <1>5, <1>6, <1>7, <1>8, <1>9, <1>10 DEF Next, Orchestrator

\* A run that was not cancelled ends as aborted exactly when a lane whose
\* failure_mode is abort holds a red outcome.
THEOREM AbortIsDecided == Spec => []AbortDecided
<1>1. AbortInv => AbortDecided
  BY DEF AbortInv
<1> QED
  BY <1>1, AbortInit, AbortStep, PTL DEF Spec

----------------------------------------------------------------------------
(* Recovery attempts.                                                       *)

\* A veto, or a first result that is not ok, of the lane's original attempt.
OriginalFailed(l) ==
  \/ l \in laneBlocked
  \/ results[<<l, Original>>] # <<>> /\ ~Head(results[<<l, Original>>])

\* Every red outcome the loop works on goes back to a failed original attempt, and
\* the attempts a lane has used were claimed one after the other.
RecoveryInv ==
  /\ RecoveryIsJustified
  /\ blocked \subseteq laneBlocked
  /\ pc \in {"dispatch", "poll"} => \A t \in batch : t[2] = Original
  /\ \A d \in done \cup failed : ~d.ok => OriginalFailed(d.lane)
  /\ \A d \in failed : ~d.ok
  /\ \A l \in SimpleLanes : used[l] > 0 => claims[<<l, used[l]>>] > 0
  /\ pc \in {"fallback", "fallbackPoll"} =>
       \A l \in retriable : mode[l].kind = "retry" /\ OriginalFailed(l)
  /\ pc = "fallback" =>
       \A l \in todo : mode[l].kind = "fallback" /\ OriginalFailed(l)
  /\ pc = "retry" =>
       \A l \in todo : mode[l].kind = "retry" /\ OriginalFailed(l)

LEMMA OriginalFailedStays ==
  ASSUME TypeInv, [Next]_vars, NEW l \in SimpleLanes, OriginalFailed(l)
  PROVE  OriginalFailed(l)'
<1>1. laneBlocked \subseteq laneBlocked'
  BY DEF Next, Orchestrator, StartFresh, ResumeFinished, ResumeActive,
     GoalStartHook, RunPatternLane, PatternsDone, PreCancelCheck, LaneDispatchHooks,
     DispatchLane, DispatchNothing, PollOriginals, LoopHead, DispatchFallback,
     DispatchRetry, PollFallback, PollRetry, FoldUsage, Synthesize, AgentResult,
     CancelGoal, Crash, ledgerVars, vars
<1>2. <<l, Original>> \in Task
  BY TaskType, AttemptRange
<1> QED
  BY <1>1, <1>2, LedgerGrows DEF OriginalFailed

LEMMA ModeFixed == [Next]_vars => mode' = mode
BY DEF Next, Orchestrator, StartFresh, ResumeFinished, ResumeActive,
   GoalStartHook, RunPatternLane, PatternsDone, PreCancelCheck, LaneDispatchHooks,
   DispatchLane, DispatchNothing, PollOriginals, LoopHead, DispatchFallback,
   DispatchRetry, PollFallback, PollRetry, FoldUsage, Synthesize, AgentResult,
   CancelGoal, Crash, vars

\* The lane a recovery dispatch takes, and the attempt it claims.
LEMMA RecoveryDispatch ==
  ASSUME TypeInv, RecoveryInv, DispatchFallback \/ DispatchRetry
  PROVE  \E l \in SimpleLanes, a \in Attempt \ {Original} :
           /\ claims' = [claims EXCEPT ![<<l, a>>] = @ + 1]
           /\ l \in todo /\ todo' = todo \ {l} /\ OriginalFailed(l)
           /\ \/ /\ a = Fallback /\ mode[l].kind = "fallback" /\ used' = used
              \/ /\ a = used[l] + 1 /\ a # Fallback /\ mode[l].kind = "retry"
                 /\ a <= mode[l].retries /\ used' = [used EXCEPT ![l] = a]
<1> DEFINE n == NextLane
<1>1. CASE DispatchFallback
  <2>1. n \in todo /\ n \in SimpleLanes /\ pc = "fallback"
    BY <1>1 DEF DispatchFallback, NextLane, TypeInv, TypeOK, LoopType, BatchOK
  <2>2. /\ claims' = [claims EXCEPT ![<<n, Fallback>>] = @ + 1]
        /\ todo' = todo \ {n} /\ used' = used
    BY <1>1 DEF DispatchFallback, Claim
  <2>3. OriginalFailed(n) /\ mode[n].kind = "fallback"
    BY <2>1 DEF RecoveryInv
  <2> HIDE DEF n
  <2> QED
    BY <2>1, <2>2, <2>3, AttemptRange, Attempts
<1>2. CASE DispatchRetry
  <2>1. n \in todo /\ n \in SimpleLanes /\ pc = "retry" /\ used[n] < mode[n].retries
    BY <1>2 DEF DispatchRetry, NextLane, TypeInv, TypeOK, LoopType, BatchOK
  <2>2. /\ claims' = [claims EXCEPT ![<<n, used[n] + 1>>] = @ + 1]
        /\ todo' = todo \ {n} /\ used' = [used EXCEPT ![n] = @ + 1]
    BY <1>2 DEF DispatchRetry, Claim
  <2>3. OriginalFailed(n) /\ mode[n].kind = "retry"
    BY <2>1 DEF RecoveryInv
  <2> HIDE DEF n
  <2>4. used[n] \in 0 .. MaxRetries /\ mode[n].retries \in 0 .. MaxRetries
    BY <2>1, ModeType DEF TypeInv, TypeOK, LedgerType, LoopType
  <2>5. /\ used[n] + 1 \in 0 .. MaxRetries /\ used[n] + 1 <= mode[n].retries
    BY <2>1, <2>4, BoundsAssumption
  <2>6. used[n] + 1 \in Attempt \ {Original} /\ used[n] + 1 # Fallback
    BY <2>4, <2>5, AttemptRange, Attempts
  <2>7. used' = [used EXCEPT ![n] = used[n] + 1]
    BY <2>2
  <2> QED
    BY <2>1, <2>2, <2>3, <2>5, <2>6, <2>7
<1> QED
  BY <1>1, <1>2

\* No other step claims a recovery attempt.
LEMMA OnlyRecoveryClaims ==
  ASSUME TypeInv, [Next]_vars, ~DispatchFallback, ~DispatchRetry,
         NEW l \in SimpleLanes, NEW a \in Attempt \ {Original}
  PROVE  claims'[<<l, a>>] = claims[<<l, a>>]
<1>1. CASE DispatchLane
  <2>1. NextLane \in SimpleLanes
    BY <1>1 DEF DispatchLane, NextLane, TypeInv, TypeOK, LoopType
  <2>2. claims' = claims \/ claims' = [claims EXCEPT ![<<NextLane, Original>>] = @ + 1]
    BY <1>1 DEF DispatchLane, Claim
  <2>3. /\ <<NextLane, Original>> \in Task /\ <<l, a>> \in Task
        /\ <<NextLane, Original>> # <<l, a>>
    BY <2>1, TaskType, AttemptRange
  <2> QED
    BY <2>2, <2>3 DEF TypeInv, TypeOK, LedgerType
<1>2. CASE claims' = claims
  BY <1>2
<1> QED
  BY <1>1, <1>2 DEF Next, Orchestrator, StartFresh, ResumeFinished, ResumeActive,
     GoalStartHook, RunPatternLane, PatternsDone, PreCancelCheck, LaneDispatchHooks,
     DispatchNothing, PollOriginals, LoopHead, PollFallback, PollRetry, FoldUsage,
     Synthesize, AgentResult, CancelGoal, Crash, ledgerVars, vars

LEMMA RecoveryClaims == TypeInv /\ RecoveryInv /\ [Next]_vars => RecoveryIsJustified'
<1> SUFFICES ASSUME TypeInv, RecoveryInv, [Next]_vars,
                    NEW l \in SimpleLanes, NEW a \in Attempt \ {Original},
                    claims'[<<l, a>>] > 0
             PROVE  /\ OriginalFailed(l)'
                    /\ IF a = Fallback THEN mode[l].kind = "fallback"
                       ELSE /\ mode[l].kind = "retry" /\ a <= mode[l].retries
                            /\ a > 1 => claims'[<<l, a - 1>>] > 0
  BY ModeFixed DEF RecoveryIsJustified, OriginalFailed
<1>t. claims \in [Task -> Nat] /\ claims' \in [Task -> Nat]
  BY TypeStep DEF TypeInv, TypeOK, LedgerType
<1>p. ASSUME a # Fallback, a > 1, claims[<<l, a - 1>>] > 0 PROVE claims'[<<l, a - 1>>] > 0
  <2>1. <<l, a - 1>> \in Task
    BY <1>p, BoundsAssumption DEF Attempt, Task, Fallback
  <2>2. claims'[<<l, a - 1>>] >= claims[<<l, a - 1>>]
    BY <2>1, LedgerGrows
  <2> QED
    BY <1>p, <1>t, <2>1, <2>2
<1>1. CASE claims[<<l, a>>] > 0
  <2>1. /\ OriginalFailed(l)
        /\ IF a = Fallback THEN mode[l].kind = "fallback"
           ELSE /\ mode[l].kind = "retry" /\ a <= mode[l].retries
                /\ a > 1 => claims[<<l, a - 1>>] > 0
    BY <1>1 DEF RecoveryInv, RecoveryIsJustified, OriginalFailed
  <2> QED
    BY <2>1, <1>p, OriginalFailedStays
<1>2. CASE ~(claims[<<l, a>>] > 0)
  <2>1. DispatchFallback \/ DispatchRetry
    BY <1>2, OnlyRecoveryClaims
  <2>2. PICK m \in SimpleLanes, b \in Attempt \ {Original} :
          /\ claims' = [claims EXCEPT ![<<m, b>>] = @ + 1]
          /\ OriginalFailed(m)
          /\ \/ b = Fallback /\ mode[m].kind = "fallback"
             \/ b = used[m] + 1 /\ b # Fallback /\ mode[m].kind = "retry" /\ b <= mode[m].retries
    BY <2>1, RecoveryDispatch
  <2>3. m = l /\ b = a
    BY <1>2, <2>2, ClaimCounts
  <2>4. a # Fallback /\ a > 1 => claims[<<l, a - 1>>] > 0
    <3> SUFFICES ASSUME a # Fallback, a > 1 PROVE claims[<<l, a - 1>>] > 0
      OBVIOUS
    <3>1. a = used[l] + 1 /\ used[l] \in Nat
      BY <2>2, <2>3, BoundsAssumption DEF TypeInv, TypeOK, LoopType
    <3>2. used[l] > 0 /\ a - 1 = used[l]
      BY <3>1
    <3> QED
      BY <3>2 DEF RecoveryInv
  <2>5. OriginalFailed(l)'
    BY <2>2, <2>3, OriginalFailedStays
  <2> QED
    BY <2>2, <2>3, <2>4, <2>5, <1>p
<1> QED
  BY <1>1, <1>2

LEMMA RecoveryInit == Init => RecoveryInv
<1> SUFFICES ASSUME Init PROVE RecoveryInv
  OBVIOUS
<1>1. \A t \in Task : claims[t] = 0
  BY DEF Init
<1>2. RecoveryIsJustified
  <2>1. \A l \in SimpleLanes, a \in Attempt \ {Original} : ~(claims[<<l, a>>] > 0)
    <3> SUFFICES ASSUME NEW l \in SimpleLanes, NEW a \in Attempt \ {Original}
                 PROVE  ~(claims[<<l, a>>] > 0)
      OBVIOUS
    <3>1. <<l, a>> \in Task
      BY TaskType
    <3> QED
      BY <1>1, <3>1
  <2> QED
    BY <2>1, Zenon DEF RecoveryIsJustified
<1>3. \A l \in SimpleLanes : used[l] = 0
  BY DEF Init
<1>4. pc = "idle" /\ blocked = {} /\ done = {} /\ failed = {} /\ batch = {}
  BY DEF Init
<1> QED
  BY <1>2, <1>3, <1>4 DEF RecoveryInv

LEMMA RecoveryStep == TypeInv /\ RecoveryInv /\ [Next]_vars => RecoveryInv'
<1> SUFFICES ASSUME TypeInv, RecoveryInv, [Next]_vars PROVE RecoveryInv'
  OBVIOUS
<1>m. mode' = mode
  BY ModeFixed
<1>t. /\ done \subseteq Outcome /\ failed \subseteq Outcome
      /\ todo \subseteq SimpleLanes /\ retriable \subseteq SimpleLanes
  BY DEF TypeInv, TypeOK, LoopType
<1>f. \A l \in SimpleLanes : OriginalFailed(l) => OriginalFailed(l)'
  BY OriginalFailedStays
<1>1. RecoveryIsJustified'
  BY RecoveryClaims
<1>2. blocked' \subseteq laneBlocked'
  BY DEF RecoveryInv, Next, Orchestrator, StartFresh, ResumeFinished, ResumeActive,
     GoalStartHook, RunPatternLane, PatternsDone, PreCancelCheck, LaneDispatchHooks,
     DispatchLane, DispatchNothing, PollOriginals, LoopHead, DispatchFallback,
     DispatchRetry, PollFallback, PollRetry, FoldUsage, Synthesize, AgentResult,
     CancelGoal, Crash, Return, ClearLoop, ledgerVars, loopVars, vars
<1>3. pc' \in {"dispatch", "poll"} => \A t \in batch' : t[2] = Original
  BY DEF RecoveryInv, Next, Orchestrator, StartFresh, ResumeFinished, ResumeActive,
     GoalStartHook, RunPatternLane, PatternsDone, PreCancelCheck, LaneDispatchHooks,
     DispatchLane, DispatchNothing, PollOriginals, LoopHead, HeadCancelled, HeadAborted,
     HeadRecover, DispatchFallback, DispatchRetry, PollFallback, PollRetry, FoldUsage,
     Synthesize, AgentResult, CancelGoal, Crash, Return, loopVars, vars
<1>4. \A d \in done' \cup failed' : ~d.ok => OriginalFailed(d.lane)'
  <2>1. CASE PollOriginals
    <3>1. ASSUME NEW d \in done', ~d.ok PROVE OriginalFailed(d.lane)
      <4>1. CASE \E t \in Answered : d = OutcomeOf(t)
        <5>1. PICK t \in Answered : d = OutcomeOf(t)
          BY <4>1
        <5>2. t \in Task /\ t[2] = Original /\ results[t] # <<>>
          BY <2>1 DEF PollOriginals, Answered, RecoveryInv, TypeInv, TypeOK, LoopType
        <5>3. t = <<t[1], Original>>
          BY <5>2 DEF Task
        <5>4. d.lane = t[1]
          BY <5>1 DEF OutcomeOf
        <5>5. results[<<d.lane, Original>>] = results[t]
          BY <5>3, <5>4
        <5>6. ~Head(results[t])
          BY <3>1, <5>1 DEF OutcomeOf
        <5> QED
          BY <5>2, <5>5, <5>6, Zenon DEF OriginalFailed
      <4>2. CASE \E l \in blocked : d = HookOutcome(l)
        <5>1. d.lane \in laneBlocked
          BY <4>2 DEF HookOutcome, RecoveryInv
        <5> QED
          BY <5>1, Zenon DEF OriginalFailed
      <4> QED
        BY <2>1, <4>1, <4>2 DEF PollOriginals
    <3>2. \A d \in done' : d.lane \in SimpleLanes
      BY TypeStep DEF TypeInv, TypeOK, LoopType, Outcome
    <3>3. failed' = failed /\ (\A d \in failed : d.lane \in SimpleLanes)
      BY <2>1, <1>t DEF PollOriginals, Outcome
    <3> QED
      BY <3>1, <3>2, <3>3, <1>f DEF RecoveryInv
  <2>2. CASE LoopHead
    <3>1. done' = done /\ failed' \subseteq done
      BY <2>2 DEF LoopHead, Red
    <3> QED
      BY <3>1, <1>t, <1>f DEF RecoveryInv, Outcome
  <2>3. CASE PollFallback \/ PollRetry
    <3>1. done' = Merged /\ failed' = failed
      BY <2>3 DEF PollFallback, PollRetry, AfterPoll
    <3>2. ASSUME NEW d \in Merged, ~d.ok PROVE d.lane \in SimpleLanes /\ OriginalFailed(d.lane)
      <4>1. CASE d \in done
        BY <3>2, <4>1, <1>t DEF RecoveryInv, Outcome
      <4>2. ASSUME NEW e \in failed, d \in Replaced(e) PROVE d.lane = e.lane
        BY <4>2 DEF Replaced, OutcomeOf
      <4>3. CASE \E e \in failed : d \in Replaced(e)
        BY <4>2, <4>3, <1>t DEF RecoveryInv, Outcome
      <4> QED
        BY <4>1, <4>3 DEF Merged
    <3> QED
      BY <3>1, <3>2, <1>t, <1>f DEF RecoveryInv, Outcome
  <2>4. CASE Return \/ Crash
    BY <2>4 DEF Return, Crash, ClearLoop
  <2>5. CASE UNCHANGED <<done, failed>>
    BY <2>5, <1>t, <1>f DEF RecoveryInv, Outcome
  <2> QED
    BY <2>1, <2>2, <2>3, <2>4, <2>5 DEF Next, Orchestrator, StartFresh, ResumeFinished,
      ResumeActive, GoalStartHook, RunPatternLane, PatternsDone, PreCancelCheck,
      LaneDispatchHooks, DispatchLane, DispatchNothing, DispatchFallback, DispatchRetry,
      FoldUsage, Synthesize, AgentResult, CancelGoal, loopVars, vars
<1>5. \A d \in failed' : ~d.ok
  BY DEF RecoveryInv, Next, Orchestrator, StartFresh, ResumeFinished, ResumeActive,
     GoalStartHook, RunPatternLane, PatternsDone, PreCancelCheck, LaneDispatchHooks,
     DispatchLane, DispatchNothing, PollOriginals, LoopHead, Red, DispatchFallback,
     DispatchRetry, PollFallback, PollRetry, FoldUsage, Synthesize, AgentResult,
     CancelGoal, Crash, Return, ClearLoop, loopVars, vars
<1>6. ASSUME NEW l \in SimpleLanes, used'[l] > 0 PROVE claims'[<<l, used'[l]>>] > 0
  <2>t. claims \in [Task -> Nat] /\ claims' \in [Task -> Nat]
        /\ used \in [SimpleLanes -> 0 .. MaxRetries]
    BY TypeStep DEF TypeInv, TypeOK, LedgerType, LoopType
  <2>1. ASSUME used'[l] = used[l] PROVE claims'[<<l, used'[l]>>] > 0
    <3>1. <<l, used[l]>> \in Task
      BY <2>t, TaskType, AttemptRange
    <3> QED
      BY <1>6, <2>1, <2>t, <3>1, LedgerGrows DEF RecoveryInv
  <2>2. CASE DispatchFallback \/ DispatchRetry
    <3>1. PICK m \in SimpleLanes, b \in Attempt \ {Original} :
            /\ claims' = [claims EXCEPT ![<<m, b>>] = @ + 1]
            /\ used' = used \/ used' = [used EXCEPT ![m] = b]
      BY <2>2, RecoveryDispatch
    <3>2. CASE used' = [used EXCEPT ![m] = b] /\ m = l
      <4>1. used'[l] = b /\ <<l, b>> \in Task
        BY <3>2, <2>t, TaskType
      <4>2. claims'[<<l, b>>] = claims[<<l, b>>] + 1 /\ claims[<<l, b>>] \in Nat
        BY <3>1, <3>2, <4>1, <2>t
      <4> QED
        BY <4>1, <4>2
    <3>3. CASE used' = used \/ m # l
      <4>1. used'[l] = used[l]
        BY <3>1, <3>3, <2>t
      <4> QED
        BY <4>1, <2>1
    <3> QED
      BY <3>1, <3>2, <3>3
  <2>3. CASE used' = used
    BY <2>3, <2>1
  <2>4. CASE used' = [k \in SimpleLanes |-> 0]
    BY <1>6, <2>4
  <2> QED
    BY <2>2, <2>3, <2>4 DEF Next, Orchestrator, StartFresh, ResumeFinished,
      ResumeActive, GoalStartHook, RunPatternLane, PatternsDone, PreCancelCheck,
      LaneDispatchHooks, DispatchLane, DispatchNothing, PollOriginals, LoopHead,
      PollFallback, PollRetry, FoldUsage, Synthesize, AgentResult, CancelGoal, Crash,
      Return, ClearLoop, loopVars, vars
<1>7. /\ pc' \in {"fallback", "fallbackPoll"} =>
           \A l \in retriable' : mode'[l].kind = "retry" /\ OriginalFailed(l)'
      /\ pc' = "fallback" =>
           \A l \in todo' : mode'[l].kind = "fallback" /\ OriginalFailed(l)'
      /\ pc' = "retry" =>
           \A l \in todo' : mode'[l].kind = "retry" /\ OriginalFailed(l)'
  <2>1. CASE LoopHead
    <3>1. /\ \A l \in RetriableLanes : mode[l].kind = "retry" /\ OriginalFailed(l)'
          /\ \A l \in FallbackLanes : mode[l].kind = "fallback" /\ OriginalFailed(l)'
      BY <1>t, <1>f DEF RetriableLanes, FallbackLanes, Red, RecoveryInv, Outcome
    <3> QED
      BY <2>1, <3>1, <1>m DEF LoopHead, HeadCancelled, HeadAborted, HeadRecover
  <2>2. CASE DispatchFallback \/ DispatchRetry
    <3>1. todo' \subseteq todo /\ retriable' = retriable
      BY <2>2 DEF DispatchFallback, DispatchRetry
    <3>2. \/ pc = "fallback" /\ pc' \in {"fallback", "fallbackPoll"}
          \/ pc = "retry" /\ pc' \in {"retry", "retryPoll"}
      BY <2>2 DEF DispatchFallback, DispatchRetry
    <3> QED
      BY <3>1, <3>2, <1>m, <1>t, <1>f DEF RecoveryInv
  <2>3. CASE PollFallback
    BY <2>3, <1>m, <1>t, <1>f DEF PollFallback, RecoveryInv
  <2>4. CASE UNCHANGED <<pc, todo, retriable>>
    BY <2>4, <1>m, <1>t, <1>f DEF RecoveryInv
  <2>5. CASE pc' \notin {"fallback", "fallbackPoll", "retry"}
    BY <2>5
  <2> QED
    BY <2>1, <2>2, <2>3, <2>4, <2>5 DEF Next, Orchestrator, StartFresh, ResumeFinished,
      ResumeActive, GoalStartHook, RunPatternLane, PatternsDone, PreCancelCheck,
      LaneDispatchHooks, DispatchLane, DispatchNothing, PollOriginals, PollRetry,
      FoldUsage, Synthesize, AgentResult, CancelGoal, Crash, Return, loopVars, vars
<1> QED
  BY <1>1, <1>2, <1>3, <1>4, <1>5, <1>6, <1>7 DEF RecoveryInv

\* Every recovery attempt is one the failure_mode allows, in order, after a failed
\* original attempt, across crashes, resumes and repeated runs.
THEOREM RecoveryJustified == Spec => []RecoveryIsJustified
<1>1. RecoveryInv => RecoveryIsJustified
  BY DEF RecoveryInv
<1> QED
  BY <1>1, TypeInit, TypeStep, RecoveryInit, RecoveryStep, PTL DEF Spec

----------------------------------------------------------------------------
(* Claims written after a cancel request.                                   *)

\* The batches a run may still be dispatching when the request arrives are those
\* of lanes without a late claim: the loop builds no batch after it saw the request.
LateInv ==
  /\ CancelBoundsDispatch
  /\ ~cancelReq \/ pc \in {"goalStart", "patterns", "preCancel", "laneHooks"} =>
       \A l \in SimpleLanes : late[l] = 0
  /\ pc \in {"dispatch", "fallback", "retry"} => \A l \in todo : late[l] = 0
  /\ pc \in {"fallback", "fallbackPoll"} => \A l \in retriable : late[l] = 0

LEMMA LateInit == Init => LateInv
BY DEF Init, LateInv, CancelBoundsDispatch

\* A dispatch step moves its lane from todo to the lanes with at most one late claim.
LEMMA LateDispatch ==
  ASSUME TypeInv, LateInv, NEW l \in todo, todo' = todo \ {l},
         \/ late' = late
         \/ late' = IF cancelReq THEN [late EXCEPT ![l] = @ + 1] ELSE late,
         cancelReq' = cancelReq,
         pc \in {"dispatch", "fallback", "retry"}
  PROVE  /\ CancelBoundsDispatch'
         /\ ~cancelReq' => \A m \in SimpleLanes : late'[m] = 0
         /\ \A m \in todo' : late'[m] = 0
         /\ \A m \in SimpleLanes \ {l} : late'[m] = late[m]
<1>1. late \in [SimpleLanes -> Nat] /\ todo \subseteq SimpleLanes
  BY DEF TypeInv, TypeOK, CounterType, LoopType
<1>2. late[l] = 0 /\ (\A m \in todo : late[m] = 0)
  BY DEF LateInv
<1>3. \A m \in SimpleLanes \ {l} : late'[m] = late[m]
  BY <1>1
<1>4. late'[l] \in {0, 1} /\ (~cancelReq => late'[l] = 0)
  BY <1>1, <1>2
<1> QED
  BY <1>1, <1>2, <1>3, <1>4 DEF LateInv, CancelBoundsDispatch

LEMMA LateStep == TypeInv /\ RecoveryInv /\ LateInv /\ [Next]_vars => LateInv'
<1> SUFFICES ASSUME TypeInv, RecoveryInv, LateInv, [Next]_vars PROVE LateInv'
  OBVIOUS
<1>t. todo \subseteq SimpleLanes /\ retriable \subseteq SimpleLanes /\ done \subseteq Outcome
  BY DEF TypeInv, TypeOK, LoopType
<1> USE DEF CancelBoundsDispatch
<1>1. CASE StartFresh \/ ResumeActive
  BY <1>1 DEF StartFresh, ResumeActive, LateInv
<1>2. CASE DispatchLane
  <2>1. /\ NextLane \in todo /\ todo' = todo \ {NextLane}
        /\ \/ late' = late
           \/ late' = IF cancelReq THEN [late EXCEPT ![NextLane] = @ + 1] ELSE late
        /\ cancelReq' = cancelReq /\ pc = "dispatch" /\ pc' \in {"dispatch", "poll"}
    BY <1>2 DEF DispatchLane, NextLane, Claim
  <2>2. /\ CancelBoundsDispatch' /\ (\A m \in todo' : late'[m] = 0)
        /\ ~cancelReq' => \A m \in SimpleLanes : late'[m] = 0
    BY <2>1, LateDispatch
  <2> QED
    BY <2>1, <2>2 DEF LateInv
<1>3. CASE DispatchRetry
  <2>1. /\ NextLane \in todo /\ todo' = todo \ {NextLane}
        /\ late' = IF cancelReq THEN [late EXCEPT ![NextLane] = @ + 1] ELSE late
        /\ cancelReq' = cancelReq /\ pc = "retry" /\ pc' \in {"retry", "retryPoll"}
    BY <1>3 DEF DispatchRetry, NextLane, Claim, TypeInv, BatchOK
  <2>2. /\ CancelBoundsDispatch' /\ (\A m \in todo' : late'[m] = 0)
        /\ ~cancelReq' => \A m \in SimpleLanes : late'[m] = 0
    BY <2>1, LateDispatch
  <2> QED
    BY <2>1, <2>2 DEF LateInv
<1>4. CASE DispatchFallback
  <2>1. /\ NextLane \in todo /\ todo' = todo \ {NextLane}
        /\ late' = IF cancelReq THEN [late EXCEPT ![NextLane] = @ + 1] ELSE late
        /\ cancelReq' = cancelReq /\ pc = "fallback" /\ pc' \in {"fallback", "fallbackPoll"}
        /\ retriable' = retriable
    BY <1>4 DEF DispatchFallback, NextLane, Claim, TypeInv, BatchOK
  <2>2. /\ CancelBoundsDispatch' /\ (\A m \in todo' : late'[m] = 0)
        /\ ~cancelReq' => \A m \in SimpleLanes : late'[m] = 0
        /\ \A m \in SimpleLanes \ {NextLane} : late'[m] = late[m]
    BY <2>1, LateDispatch
  \* A lane is not both retried and handed to a fallback.
  <2>3. NextLane \notin retriable
    BY <2>1 DEF RecoveryInv
  <2>4. \A m \in retriable : late'[m] = 0
    BY <2>1, <2>2, <2>3, <1>t DEF LateInv
  <2> QED
    BY <2>1, <2>2, <2>4 DEF LateInv
<1>5. CASE LoopHead
  <2>1. FallbackLanes \subseteq SimpleLanes /\ RetriableLanes \subseteq SimpleLanes
    BY <1>t DEF FallbackLanes, RetriableLanes, Red, Outcome
  <2> QED
    BY <1>5, <2>1 DEF LoopHead, HeadCancelled, HeadAborted, HeadRecover, ledgerVars, LateInv
<1>6. CASE PollFallback
  BY <1>6 DEF PollFallback, ledgerVars, LateInv
<1>7. CASE GoalStartHook \/ Synthesize \/ Crash
  BY <1>7 DEF GoalStartHook, Synthesize, Crash, Return, ledgerVars, loopVars, LateInv
<1>8. CASE (\E p \in PatternLanes : RunPatternLane(p)) \/ PatternsDone \/ PreCancelCheck
           \/ LaneDispatchHooks \/ DispatchNothing
  BY <1>8, <1>t, LanesAssumption DEF RunPatternLane, PatternsDone, PreCancelCheck,
     LaneDispatchHooks, DispatchNothing, ledgerVars, loopVars, LateInv
<1>9. CASE PollOriginals \/ PollRetry \/ FoldUsage
  BY <1>9 DEF PollOriginals, PollRetry, FoldUsage, ledgerVars, loopVars, LateInv
<1>10. CASE CancelGoal
  BY <1>10 DEF CancelGoal, loopVars, LateInv
<1>11. CASE ResumeFinished \/ (\E t \in Task, ok \in BOOLEAN : AgentResult(t, ok))
            \/ UNCHANGED vars
  BY <1>11 DEF ResumeFinished, AgentResult, ledgerVars, loopVars, vars, LateInv
<1> QED
  BY <1>1, <1>2, <1>3, <1>4, <1>5, <1>6, <1>7, <1>8, <1>9, <1>10, <1>11
     DEF Next, Orchestrator

\* A run writes at most one more claim per lane once a cancel request is recorded.
THEOREM CancelBounds == Spec => []CancelBoundsDispatch
<1>1. LateInv => CancelBoundsDispatch
  BY DEF LateInv
<1> QED
  BY <1>1, TypeInit, TypeStep, RecoveryInit, RecoveryStep, LateInit, LateStep, PTL DEF Spec

----------------------------------------------------------------------------
(* What the loop holds of each lane.                                        *)

Recovering == {"fallback", "fallbackPoll", "retry", "retryPoll"}

\* A lane whose fallback was dispatched: when retries follow in the same round, its
\* old red outcome comes back beside the outcome of the fallback.
Spent(l) == mode[l].kind = "fallback" /\ l \in fbUsed

RedLane(l) == \E d \in done : d.lane = l /\ ~d.ok

OneOutcome ==
  \A d, e \in done : d.lane = e.lane /\ ~Spent(d.lane) => d = e

\* failed is from the head of the loop, and still right about every other lane.
FailedIsRed ==
  pc \in Recovering =>
    \A d \in Outcome : ~Spent(d.lane) => (d \in failed <=> d \in done /\ ~d.ok)

\* The lanes that wait for a recovery attempt are red and have had no fallback.
WorkIsRed ==
  /\ pc \in {"fallback", "fallbackPoll"} => \A l \in retriable : RedLane(l)
  /\ pc \in {"fallback", "retry"} => \A l \in todo : RedLane(l)
  /\ pc = "fallback" => todo \cap fbUsed = {}

\* A poll waits for one task of each of its lanes.
BatchOfRound ==
  /\ pc \in {"dispatch", "poll"} => batch = (SimpleLanes \ blocked) \X {Original}
  /\ pc = "head" => batch = {}
  /\ pc \in {"fallback", "fallbackPoll"} => \A t \in batch : Spent(t[1])
  /\ pc \in {"retry", "retryPoll"} =>
       \A t \in batch : mode[t[1]].kind = "retry" /\ t[2] = used[t[1]] /\ RedLane(t[1])
  /\ pc = "retry" => \A t \in batch : t[1] \notin todo

OutcomesInv == OneOutcome /\ FailedIsRed /\ WorkIsRed /\ BatchOfRound

\* What a recovery poll makes of the outcomes of a lane: it replaces them by the one
\* of the lane's answered attempt, and leaves them if there is none.
LEMMA MergedOfLane ==
  ASSUME TypeInv, OutcomesInv, pc \in {"fallbackPoll", "retryPoll"},
         NEW l \in SimpleLanes, ~Spent(l)
  PROVE  \/ /\ \A t \in Answered : t[1] # l
            /\ \A d : d.lane = l => (d \in Merged <=> d \in done)
         \/ /\ mode[l].kind = "retry" /\ pc = "retryPoll"
            /\ <<l, used[l]>> \in Answered
            /\ \A d : d.lane = l => (d \in Merged <=> d = OutcomeOf(<<l, used[l]>>))
<1>t. /\ done \subseteq Outcome /\ failed \subseteq Outcome /\ batch \subseteq Task
      /\ Answered \subseteq batch /\ pc \in Recovering
  BY DEF TypeInv, TypeOK, LoopType, Answered, Recovering
<1>1. \A d : d.lane = l => (d \in failed <=> d \in Red)
  BY <1>t DEF OutcomesInv, FailedIsRed, Red
<1>2. ASSUME NEW e \in failed, NEW d \in Replaced(e) PROVE d.lane = e.lane
  BY DEF Replaced, OutcomeOf
<1>3. \A d : d.lane = l =>
        (d \in Merged <=> (d \in done \ Red \/ \E e \in failed : e.lane = l /\ d \in Replaced(e)))
  BY <1>2 DEF Merged
<1>4. CASE \A t \in Answered : t[1] # l
  <2>1. \A e \in failed : e.lane = l => Replaced(e) = {e}
    BY <1>4 DEF Replaced
  <2>2. \A d : d.lane = l => (d \in Merged <=> d \in done)
    BY <1>1, <1>3, <2>1 DEF Red
  <2> QED
    BY <1>4, <2>2
<1>5. ASSUME NEW t \in Answered, t[1] = l
      PROVE  /\ mode[l].kind = "retry" /\ pc = "retryPoll"
             /\ <<l, used[l]>> \in Answered
             /\ \A d : d.lane = l => (d \in Merged <=> d = OutcomeOf(<<l, used[l]>>))
  <2>1. pc = "retryPoll"
    BY <1>5, <1>t DEF OutcomesInv, BatchOfRound
  <2>2. /\ \A u \in Answered : u[1] = l => u[2] = used[l] /\ u = <<u[1], u[2]>>
        /\ mode[l].kind = "retry" /\ RedLane(l)
    BY <1>5, <1>t, <2>1 DEF OutcomesInv, BatchOfRound, Task
  <2>3. {u \in Answered : u[1] = l} = {<<l, used[l]>>}
    BY <1>5, <2>2
  <2>4. PICK r \in done : r.lane = l /\ ~r.ok
    BY <2>2 DEF RedLane
  <2>5. \A d \in done : d.lane = l => d = r
    BY <2>4 DEF OutcomesInv, OneOutcome
  <2>6. \A e \in failed : e.lane = l => Replaced(e) = {OutcomeOf(<<l, used[l]>>)}
    BY <2>3 DEF Replaced
  <2>7. r \in failed /\ \A d \in done \ Red : d.lane # l
    BY <1>1, <2>4, <2>5 DEF Red
  <2>8. \A d : d.lane = l => (d \in Merged <=> d = OutcomeOf(<<l, used[l]>>))
    BY <1>3, <2>4, <2>6, <2>7
  <2> QED
    BY <2>1, <2>2, <2>3, <2>8
<1> QED
  BY <1>4, <1>5

LEMMA OutcomesInit == Init => OutcomesInv
BY DEF Init, OutcomesInv, OneOutcome, FailedIsRed, WorkIsRed, BatchOfRound, Recovering

LEMMA OutcomesStep == TypeInv /\ RecoveryInv /\ OutcomesInv /\ [Next]_vars => OutcomesInv'
<1> SUFFICES ASSUME TypeInv, RecoveryInv, OutcomesInv, [Next]_vars PROVE OutcomesInv'
  OBVIOUS
<1>m. mode' = mode
  BY ModeFixed
<1>t. /\ done \subseteq Outcome /\ failed \subseteq Outcome /\ batch \subseteq Task
      /\ todo \subseteq SimpleLanes /\ retriable \subseteq SimpleLanes
      /\ used \in [SimpleLanes -> 0 .. MaxRetries]
  BY DEF TypeInv, TypeOK, LoopType
<1>o. ASSUME UNCHANGED <<done, fbUsed>> PROVE OneOutcome'
  BY <1>o, <1>m DEF OutcomesInv, OneOutcome, Spent
<1>q. ASSUME UNCHANGED <<done, fbUsed>>,
             pc' \notin Recovering \cup {"dispatch", "poll", "head"}
      PROVE  OutcomesInv'
  BY <1>o, <1>q DEF OutcomesInv, FailedIsRed, WorkIsRed, BatchOfRound, Recovering
<1>e. ASSUME done' = {}, pc' = "idle" PROVE OutcomesInv'
  BY <1>e DEF OutcomesInv, OneOutcome, FailedIsRed, WorkIsRed, BatchOfRound, Recovering
<1>1. CASE StartFresh \/ ResumeActive \/ PatternsDone \/ PreCancelCheck \/ FoldUsage
  BY <1>1, <1>q DEF StartFresh, ResumeActive, PatternsDone, PreCancelCheck, FoldUsage,
                    Recovering, loopVars
<1>2. CASE Synthesize \/ Crash
  BY <1>2, <1>e DEF Synthesize, Crash, Return, ClearLoop
<1>3. CASE GoalStartHook
  BY <1>3, <1>e, <1>q DEF GoalStartHook, Return, ClearLoop, Recovering, loopVars
<1>4. CASE UNCHANGED <<pc, loopVars>>
  BY <1>4, <1>m DEF loopVars, OutcomesInv, OneOutcome, FailedIsRed, WorkIsRed, BatchOfRound,
                    RedLane, Spent
<1>5. CASE LaneDispatchHooks \/ DispatchLane \/ DispatchNothing
  <2>1. /\ UNCHANGED <<done, fbUsed>> /\ pc' \in {"dispatch", "poll"}
        /\ batch' = (SimpleLanes \ blocked') \X {Original}
    BY <1>5 DEF LaneDispatchHooks, DispatchLane, DispatchNothing, OutcomesInv, BatchOfRound,
                loopVars
  <2> QED
    BY <1>o, <2>1 DEF OutcomesInv, FailedIsRed, WorkIsRed, BatchOfRound, Recovering
<1>6. CASE PollOriginals
  <2>1. /\ batch = (SimpleLanes \ blocked) \X {Original} /\ batch' = {}
        /\ pc' \in {"head", "foldUsage"}
        /\ \A d \in done' : \/ \E t \in Answered : d = OutcomeOf(t)
                            \/ \E l \in blocked : d = HookOutcome(l)
    BY <1>6 DEF PollOriginals, OutcomesInv, BatchOfRound
  <2>2. \A t \in Answered : t = <<t[1], Original>> /\ t[1] \notin blocked
    BY <2>1 DEF Answered
  <2>3. ASSUME NEW d \in done', NEW e \in done', d.lane = e.lane PROVE d = e
    <3>1. CASE d.lane \in blocked
      <4>1. ASSUME NEW x \in done', x.lane \in blocked PROVE x = HookOutcome(x.lane)
        <5>1. ~ \E t \in Answered : x = OutcomeOf(t)
          BY <2>2, <4>1 DEF OutcomeOf
        <5>2. PICK l \in blocked : x = HookOutcome(l)
          BY <2>1, <5>1
        <5> QED
          BY <5>2 DEF HookOutcome
      <4> QED
        BY <2>3, <3>1, <4>1
    <3>2. CASE d.lane \notin blocked
      <4>1. PICK t \in Answered : d = OutcomeOf(t)
        BY <2>1, <3>2 DEF HookOutcome
      <4>2. PICK u \in Answered : e = OutcomeOf(u)
        BY <2>1, <2>3, <3>2 DEF HookOutcome
      <4>3. t[1] = u[1]
        BY <2>3, <4>1, <4>2 DEF OutcomeOf
      <4>4. t = u
        BY <2>2, <4>3
      <4> QED
        BY <4>1, <4>2, <4>4
    <3> QED
      BY <3>1, <3>2
  <2> QED
    BY <2>1, <2>3 DEF OutcomesInv, OneOutcome, FailedIsRed, WorkIsRed, BatchOfRound, Recovering
<1>7. CASE LoopHead
  <2>1. /\ pc = "head" /\ batch = {} /\ UNCHANGED <<done, fbUsed, batch>> /\ failed' = Red
        /\ retriable' = RetriableLanes
        /\ \/ pc' = "foldUsage"
           \/ pc' = "fallback" /\ todo' = FallbackLanes
           \/ pc' = "retry" /\ todo' = RetriableLanes
    BY <1>7 DEF LoopHead, HeadCancelled, HeadAborted, HeadRecover, OutcomesInv, BatchOfRound
  <2>2. \A l \in RetriableLanes \cup FallbackLanes : RedLane(l)'
    BY <2>1 DEF RetriableLanes, FallbackLanes, Red, RedLane
  <2>3. FallbackLanes \cap fbUsed = {}
    BY DEF FallbackLanes
  <2>4. FailedIsRed'
    BY <2>1 DEF FailedIsRed, Red
  <2>5. WorkIsRed'
    BY <2>1, <2>2, <2>3 DEF WorkIsRed
  <2>6. BatchOfRound'
    BY <2>1 DEF BatchOfRound
  <2> QED
    BY <1>o, <2>1, <2>4, <2>5, <2>6 DEF OutcomesInv
<1>8. CASE DispatchFallback
  <2>1. NextLane \in todo /\ pc = "fallback"
    BY <1>8 DEF DispatchFallback, NextLane, TypeInv, BatchOK
  <2>2. PICK n \in todo :
          /\ todo' = todo \ {n} /\ fbUsed' = fbUsed \cup {n}
          /\ batch' = batch \cup {<<n, Fallback>>}
          /\ pc' \in {"fallback", "fallbackPoll"} /\ UNCHANGED <<done, failed, retriable>>
    BY <1>8, <2>1 DEF DispatchFallback
  <2>3. mode[n].kind = "fallback"
    BY <2>1 DEF RecoveryInv
  <2>4. \A l : Spent(l) => Spent(l)'
    BY <1>m, <2>2 DEF Spent
  <2>5. OneOutcome'
    BY <2>2, <2>4 DEF OutcomesInv, OneOutcome
  <2>6. FailedIsRed'
    BY <2>1, <2>2, <2>4 DEF OutcomesInv, FailedIsRed, Recovering
  <2>7. WorkIsRed'
    BY <2>1, <2>2 DEF OutcomesInv, WorkIsRed, RedLane
  <2>8. BatchOfRound'
    <3>1. Spent(n)'
      BY <1>m, <2>2, <2>3 DEF Spent
    <3>2. \A t \in batch' : Spent(t[1])'
      BY <2>1, <2>2, <2>4, <3>1 DEF OutcomesInv, BatchOfRound
    <3> QED
      BY <2>2, <3>2 DEF BatchOfRound
  <2> QED
    BY <2>5, <2>6, <2>7, <2>8 DEF OutcomesInv
<1>9. CASE DispatchRetry
  <2>1. NextLane \in todo /\ pc = "retry"
    BY <1>9 DEF DispatchRetry, NextLane, TypeInv, BatchOK
  <2>2. PICK n \in todo :
          /\ todo' = todo \ {n} /\ used' = [used EXCEPT ![n] = @ + 1]
          /\ batch' = batch \cup {<<n, used[n] + 1>>}
          /\ pc' \in {"retry", "retryPoll"} /\ UNCHANGED <<done, failed, fbUsed>>
    BY <1>9, <2>1 DEF DispatchRetry
  <2>3. mode[n].kind = "retry" /\ n \in SimpleLanes
    BY <2>1, <1>t DEF RecoveryInv
  <2>4. FailedIsRed'
    BY <1>m, <2>1, <2>2 DEF OutcomesInv, FailedIsRed, Recovering, Spent
  <2>5. WorkIsRed'
    BY <2>1, <2>2 DEF OutcomesInv, WorkIsRed, RedLane
  <2>6. RedLane(n)' /\ \A l : RedLane(l) => RedLane(l)'
    BY <2>1, <2>2 DEF OutcomesInv, WorkIsRed, RedLane
  <2>7. used'[n] = used[n] + 1 /\ \A l \in SimpleLanes \ {n} : used'[l] = used[l]
    BY <1>t, <2>2, <2>3
  <2>8. ASSUME NEW t \in batch'
        PROVE  /\ mode'[t[1]].kind = "retry" /\ t[2] = used'[t[1]] /\ RedLane(t[1])'
               /\ t[1] \notin todo'
    <3>1. CASE t = <<n, used[n] + 1>>
      BY <1>m, <2>2, <2>3, <2>6, <2>7, <3>1
    <3>2. CASE t \in batch
      <4>1. /\ mode[t[1]].kind = "retry" /\ t[2] = used[t[1]] /\ RedLane(t[1])
            /\ t[1] \notin todo /\ t[1] \in SimpleLanes
        BY <2>1, <3>2, <1>t DEF OutcomesInv, BatchOfRound, Task
      <4> QED
        BY <1>m, <2>1, <2>2, <2>6, <2>7, <4>1
    <3> QED
      BY <2>2, <3>1, <3>2
  <2>9. BatchOfRound'
    BY <2>2, <2>8 DEF BatchOfRound
  <2> QED
    BY <1>o, <2>2, <2>4, <2>5, <2>9 DEF OutcomesInv
<1>10. CASE PollFallback \/ PollRetry
  <2>1. /\ pc \in {"fallbackPoll", "retryPoll"} /\ done' = Merged /\ batch' = {}
        /\ UNCHANGED <<failed, fbUsed, retriable>>
        /\ \/ pc = "fallbackPoll" /\ pc' = "retry" /\ todo' = retriable
           \/ pc' \in {"head", "foldUsage"}
    BY <1>10 DEF PollFallback, PollRetry, AfterPoll
  <2>2. done' \subseteq Outcome
    BY <2>1, MergedType DEF TypeInv
  <2>3. OneOutcome'
    <3> SUFFICES ASSUME NEW d \in done', NEW e \in done', d.lane = e.lane, ~Spent(d.lane)'
                 PROVE  d = e
      BY DEF OneOutcome
    <3>1. ~Spent(d.lane) /\ d.lane \in SimpleLanes
      BY <1>m, <2>1, <2>2 DEF Spent, Outcome
    <3>2. (d \in done /\ e \in done) \/ d = e
      <4>1. PICK l \in SimpleLanes : l = d.lane
        BY <3>1
      <4>2. \/ \A x : x.lane = l => (x \in Merged <=> x \in done)
            \/ \A x : x.lane = l => (x \in Merged <=> x = OutcomeOf(<<l, used[l]>>))
        BY <2>1, <3>1, <4>1, MergedOfLane
      <4> QED
        BY <2>1, <4>1, <4>2
    <3> QED
      BY <3>1, <3>2 DEF OutcomesInv, OneOutcome
  <2>4. CASE pc = "fallbackPoll" /\ pc' = "retry" /\ todo' = retriable
    <3>1. ASSUME NEW d \in Outcome, ~Spent(d.lane) PROVE d \in done' <=> d \in done
      <4>1. d.lane \in SimpleLanes /\ pc # "retryPoll"
        BY <2>4 DEF Outcome
      <4>2. d \in Merged <=> d \in done
        BY <2>1, <3>1, <4>1, MergedOfLane
      <4> QED
        BY <2>1, <4>2
    <3>2. FailedIsRed'
      BY <1>m, <2>1, <2>4, <3>1 DEF FailedIsRed, OutcomesInv, Recovering, Spent
    <3>3. ASSUME NEW l \in todo' PROVE RedLane(l)'
      <4>1. RedLane(l) /\ mode[l].kind = "retry"
        BY <2>4, <3>3 DEF OutcomesInv, WorkIsRed, RecoveryInv
      <4>2. PICK d \in done : d.lane = l /\ ~d.ok
        BY <4>1 DEF RedLane
      <4>3. d \in done'
        BY <1>t, <3>1, <4>1, <4>2 DEF Spent
      <4> QED
        BY <4>2, <4>3 DEF RedLane
    <3>4. WorkIsRed' /\ BatchOfRound'
      BY <2>1, <2>4, <3>3 DEF WorkIsRed, BatchOfRound
    <3> QED
      BY <2>3, <3>2, <3>4 DEF OutcomesInv
  <2>5. CASE pc' \in {"head", "foldUsage"}
    BY <2>1, <2>3, <2>5 DEF OutcomesInv, FailedIsRed, WorkIsRed, BatchOfRound, Recovering
  <2> QED
    BY <2>1, <2>4, <2>5
<1>11. CASE \/ ResumeFinished \/ (\E p \in PatternLanes : RunPatternLane(p)) \/ CancelGoal
            \/ (\E t \in Task, ok \in BOOLEAN : AgentResult(t, ok)) \/ UNCHANGED vars
  BY <1>4, <1>11 DEF ResumeFinished, RunPatternLane, CancelGoal, AgentResult, vars
<1> QED
  BY <1>1, <1>2, <1>3, <1>4, <1>5, <1>6, <1>7, <1>8, <1>9, <1>10, <1>11 DEF Next, Orchestrator

\* No recovery attempt is dispatched for a lane the run holds a green outcome of.
THEOREM GreenStaysGreen == Spec => GreenLaneNotRedispatched
<1> DEFINE Kept ==
      \A l \in SimpleLanes, a \in Attempt \ {Original} :
        claims'[<<l, a>>] > claims[<<l, a>>] => ~ \E d \in done : d.lane = l /\ d.ok
<1>1. TypeInv /\ RecoveryInv /\ OutcomesInv /\ [Next]_vars => [Kept]_vars
  <2> SUFFICES ASSUME TypeInv, RecoveryInv, OutcomesInv, [Next]_vars,
                      NEW l \in SimpleLanes, NEW a \in Attempt \ {Original},
                      claims'[<<l, a>>] > claims[<<l, a>>],
                      NEW d \in done, d.lane = l, d.ok
               PROVE  FALSE
    OBVIOUS
  <2>1. claims[<<l, a>>] \in Nat
    BY TaskType DEF TypeInv, TypeOK, LedgerType
  <2>2. DispatchFallback \/ DispatchRetry
    BY <2>1, OnlyRecoveryClaims
  <2>3. PICK m \in SimpleLanes, b \in Attempt \ {Original} :
          claims' = [claims EXCEPT ![<<m, b>>] = @ + 1] /\ m \in todo
    BY <2>2, RecoveryDispatch
  <2>4. m = l
    BY <2>1, <2>3, ClaimCounts
  <2>5. RedLane(l) /\ ~Spent(l)
    BY <2>2, <2>3, <2>4
    DEF DispatchFallback, DispatchRetry, OutcomesInv, WorkIsRed, RecoveryInv, Spent
  <2> QED
    BY <2>5 DEF RedLane, OutcomesInv, OneOutcome
<1>2. [][Kept]_vars => GreenLaneNotRedispatched
  BY PTL DEF GreenLaneNotRedispatched
<1> QED
  BY <1>1, <1>2, TypeInit, TypeStep, RecoveryInit, RecoveryStep, OutcomesInit, OutcomesStep, PTL
  DEF Spec

----------------------------------------------------------------------------
(* The verdict of a retry lane.                                             *)

VerdictOf(ok) == IF ok THEN "ok" ELSE "failed"

\* The attempt a retry lane is at has been collected only if its outcome is the one
\* the loop holds, and the lane is green only then; later attempts are not collected.
LaneCollected(l) ==
  LET t == <<l, used[l]>> IN
  /\ \A a \in Attempt : a > used[l] => state.received[<<l, a>>] = "none"
  /\ state.received[t] # "none" =>
       /\ results[t] # <<>> /\ OutcomeOf(t) \in done
       /\ \E k \in 1 .. Len(results[t]) : state.received[t] = VerdictOf(results[t][k])
  /\ \A d \in done : d.lane = l /\ d.ok => state.received[t] # "none"

AfterPolls == Recovering \cup {"head", "foldUsage", "finish"}

CollectedInv ==
  /\ pc \in AfterPolls /\ stopped = "no" =>
       \A l \in SimpleLanes : mode[l].kind = "retry" => LaneCollected(l)
  /\ pc \notin AfterPolls => \A l \in SimpleLanes : used[l] = 0

\* A poll's verdict on a task it has an answer of, and on any other.
LEMMA ReceivedOf ==
  ASSUME NEW old, NEW t \in Task
  PROVE  Received(old)[t] = IF t \in Answered THEN VerdictOf(results[t][Len(results[t])])
                                              ELSE old[t]
BY DEF Received, VerdictOf

LEMMA AnsweredHasResults ==
  ASSUME TypeInv, NEW t \in Answered
  PROVE  /\ t \in Task /\ t \in batch /\ results[t] # <<>>
         /\ Len(results[t]) \in 1 .. Len(results[t])
<1>1. t \in Task /\ t \in batch /\ results[t] # <<>> /\ results[t] \in Seq(BOOLEAN)
  BY DEF Answered, TypeInv, TypeOK, LedgerType, LoopType
<1> QED
  BY <1>1

\* Results that arrive disturb nothing that has been collected.
LEMMA CollectedStays ==
  ASSUME TypeInv, [Next]_vars, NEW l \in SimpleLanes, LaneCollected(l),
         UNCHANGED <<done, used>>, state'.received = state.received
  PROVE  LaneCollected(l)'
<1> DEFINE t == <<l, used[l]>>
<1>1. t \in Task /\ results \in [Task -> Seq(BOOLEAN)]
  BY TaskType, AttemptRange DEF TypeInv, TypeOK, LedgerType, LoopType
<1>2. results[t] # <<>> => results'[t] # <<>> /\ Head(results'[t]) = Head(results[t])
  BY <1>1, LedgerGrows
<1>3. \A k \in 1 .. Len(results[t]) : k \in 1 .. Len(results'[t]) /\ results'[t][k] = results[t][k]
  <2>1. CASE \E u \in Task, ok \in BOOLEAN : AgentResult(u, ok)
    <3>1. PICK u \in Task, ok \in BOOLEAN : results' = [results EXCEPT ![u] = Append(@, ok)]
      BY <2>1 DEF AgentResult
    <3>2. CASE u = t
      <4>1. results[t] \in Seq(BOOLEAN) /\ results'[t] = Append(results[t], ok)
        BY <1>1, <3>1, <3>2
      <4> HIDE DEF t
      <4> QED
        BY <4>1
    <3>3. CASE u # t
      BY <1>1, <3>1, <3>3
    <3> QED
      BY <3>2, <3>3
  <2>2. CASE results' = results
    BY <2>2
  <2> QED
    BY <2>1, <2>2 DEF Next, Orchestrator, StartFresh, ResumeFinished, ResumeActive,
       GoalStartHook, RunPatternLane, PatternsDone, PreCancelCheck, LaneDispatchHooks,
       DispatchLane, DispatchNothing, PollOriginals, LoopHead, DispatchFallback,
       DispatchRetry, PollFallback, PollRetry, FoldUsage, Synthesize, CancelGoal, Crash,
       ledgerVars, vars
<1>4. <<l, used'[l]>> = t
  OBVIOUS
<1>5. ASSUME state.received[t] # "none"
      PROVE  /\ results'[t] # <<>> /\ OutcomeOf(t)' \in done'
             /\ \E k \in 1 .. Len(results'[t]) : state.received[t] = VerdictOf(results'[t][k])
  <2>1. /\ results[t] # <<>> /\ OutcomeOf(t) \in done
        /\ \E k \in 1 .. Len(results[t]) : state.received[t] = VerdictOf(results[t][k])
    BY <1>5 DEF LaneCollected
  <2>2. OutcomeOf(t)' = OutcomeOf(t)
    BY <1>2, <1>4, <2>1 DEF OutcomeOf
  <2> QED
    BY <1>2, <1>3, <2>1, <2>2
<1> QED
  BY <1>4, <1>5 DEF LaneCollected

LEMMA CollectedInit == Init => CollectedInv
BY DEF Init, CollectedInv, AfterPolls, Recovering

LEMMA CollectedStep ==
  TypeInv /\ RecoveryInv /\ OutcomesInv /\ CollectedInv /\ [Next]_vars => CollectedInv'
<1> SUFFICES ASSUME TypeInv, RecoveryInv, OutcomesInv, CollectedInv, [Next]_vars
             PROVE  CollectedInv'
  OBVIOUS
<1>m. mode' = mode
  BY ModeFixed
<1>t. /\ done \subseteq Outcome /\ batch \subseteq Task /\ todo \subseteq SimpleLanes
      /\ used \in [SimpleLanes -> 0 .. MaxRetries] /\ results \in [Task -> Seq(BOOLEAN)]
  BY DEF TypeInv, TypeOK, LoopType, LedgerType
<1>s. ASSUME UNCHANGED <<done, used>>, state'.received = state.received,
             pc' \in AfterPolls => stopped' # "no" \/ (pc \in AfterPolls /\ stopped = "no"),
             pc' \notin AfterPolls => pc \notin AfterPolls
      PROVE  CollectedInv'
  BY <1>s, <1>m, CollectedStays DEF CollectedInv
<1>1. CASE StartFresh \/ ResumeActive \/ PatternsDone \/ LaneDispatchHooks
  BY <1>1 DEF StartFresh, ResumeActive, PatternsDone, LaneDispatchHooks, loopVars,
              CollectedInv, AfterPolls, Recovering
<1>2. CASE Synthesize \/ Crash
  BY <1>2 DEF Synthesize, Crash, Return, ClearLoop, CollectedInv, AfterPolls, Recovering
<1>3. CASE GoalStartHook
  BY <1>3 DEF GoalStartHook, Return, ClearLoop, loopVars, CollectedInv, AfterPolls, Recovering
<1>4. CASE (\E p \in PatternLanes : RunPatternLane(p)) \/ DispatchLane \/ DispatchNothing
  BY <1>4 DEF RunPatternLane, DispatchLane, DispatchNothing, loopVars, CollectedInv,
              AfterPolls, Recovering
<1>5. CASE PreCancelCheck
  BY <1>5 DEF PreCancelCheck, CollectedInv, AfterPolls, Recovering
<1>6. CASE UNCHANGED <<pc, state, loopVars>>
  BY <1>6, <1>s DEF loopVars
<1>7. CASE PollOriginals
  <2>1. /\ pc = "poll" /\ UNCHANGED used /\ \A l \in SimpleLanes : used[l] = 0
        /\ batch = (SimpleLanes \ blocked) \X {Original}
    BY <1>7 DEF PollOriginals, CollectedInv, AfterPolls, Recovering, OutcomesInv, BatchOfRound
  <2>2. CASE stopped' = "cancelled" /\ pc' = "foldUsage"
    BY <2>2 DEF CollectedInv, AfterPolls
  <2>3. CASE /\ pc' = "head"
             /\ done' = {OutcomeOf(t) : t \in Answered} \cup {HookOutcome(l) : l \in blocked}
             /\ state' = [state EXCEPT !.dispatched = batch,
                                       !.received = Received([t \in Task |-> "none"])]
             /\ results' = results
    <3>1. \A t \in Task : state'.received[t] =
            IF t \in Answered THEN VerdictOf(results[t][Len(results[t])]) ELSE "none"
      <4>1. state'.received = Received([t \in Task |-> "none"])
        BY <2>3 DEF TypeInv, TypeOK, StateType, GoalState
      <4> QED
        BY <4>1, ReceivedOf
    <3>2. ASSUME NEW l \in SimpleLanes PROVE LaneCollected(l)'
      <4> DEFINE t == <<l, 0>>
      <4>1. t \in Task /\ <<l, used'[l]>> = t
        BY <2>1, TaskType, AttemptRange DEF Original
      <4>2. \A a \in Attempt : a > used'[l] => state'.received[<<l, a>>] = "none"
        <5> SUFFICES ASSUME NEW a \in Attempt, a > 0 PROVE state'.received[<<l, a>>] = "none"
          BY <2>1
        <5>1. <<l, a>> \notin Answered /\ <<l, a>> \in Task
          BY <2>1, TaskType DEF Answered, Original
        <5> QED
          BY <3>1, <5>1
      <4>3. ASSUME t \in Answered
            PROVE  /\ results'[t] # <<>> /\ OutcomeOf(t)' \in done'
                   /\ \E k \in 1 .. Len(results'[t]) :
                        state'.received[t] = VerdictOf(results'[t][k])
        <5>1. results[t] # <<>> /\ Len(results[t]) \in 1 .. Len(results[t])
          BY <4>3, AnsweredHasResults
        <5>2. OutcomeOf(t)' = OutcomeOf(t)
          BY <2>3 DEF OutcomeOf
        <5> QED
          BY <2>3, <3>1, <4>1, <4>3, <5>1, <5>2
      <4>4. t \notin Answered => state'.received[t] = "none"
        BY <3>1, <4>1
      <4>5. ASSUME NEW d \in done', d.lane = l, d.ok PROVE t \in Answered
        <5>1. PICK u \in Answered : d = OutcomeOf(u)
          BY <2>3, <4>5 DEF HookOutcome
        <5>2. u = t
          BY <2>1, <4>5, <5>1 DEF OutcomeOf, Answered, Original
        <5> QED
          BY <5>1, <5>2
      <4>6. t \in Answered => state'.received[t] # "none"
        BY <3>1, <4>1 DEF VerdictOf
      <4> QED
        BY <4>1, <4>2, <4>3, <4>4, <4>5, <4>6 DEF LaneCollected
    <3> QED
      BY <2>3, <3>2 DEF CollectedInv, AfterPolls
  <2> QED
    BY <1>7, <2>2, <2>3 DEF PollOriginals, ledgerVars
<1>8. CASE LoopHead
  <2>1. pc = "head" /\ UNCHANGED <<done, used>>
    BY <1>8 DEF LoopHead
  <2>2. CASE HeadCancelled \/ HeadAborted
    BY <2>1, <2>2 DEF HeadCancelled, HeadAborted, CollectedInv, AfterPolls
  <2>3. CASE HeadRecover
    BY <1>s, <2>1, <2>3 DEF HeadRecover, AfterPolls, Recovering
  <2> QED
    BY <1>8, <2>2, <2>3 DEF LoopHead
<1>9. CASE DispatchFallback
  BY <1>9, <1>s DEF DispatchFallback, AfterPolls, Recovering
<1>10. CASE DispatchRetry
  <2>1. NextLane \in todo /\ pc = "retry"
    BY <1>10 DEF DispatchRetry, NextLane, TypeInv, BatchOK
  <2>2. PICK n \in todo :
          /\ used' = [used EXCEPT ![n] = @ + 1] /\ pc' \in {"retry", "retryPoll"}
          /\ UNCHANGED <<state, done, stopped, results>>
    BY <1>10, <2>1 DEF DispatchRetry
  <2>3. /\ n \in SimpleLanes /\ mode[n].kind = "retry" /\ RedLane(n)
        /\ used[n] \in 0 .. MaxRetries /\ used'[n] = used[n] + 1
    BY <1>t, <2>1, <2>2 DEF RecoveryInv, OutcomesInv, WorkIsRed
  <2>4. ASSUME NEW l \in SimpleLanes, mode[l].kind = "retry", LaneCollected(l)
        PROVE  LaneCollected(l)'
    <3>1. CASE l # n
      <4>1. used'[l] = used[l]
        BY <1>t, <2>2, <3>1
      <4>2. /\ <<l, used'[l]>> = <<l, used[l]>>
            /\ OutcomeOf(<<l, used[l]>>)' = OutcomeOf(<<l, used[l]>>)
        BY <2>2, <4>1 DEF OutcomeOf
      <4> QED
        BY <2>2, <2>4, <4>1, <4>2 DEF LaneCollected
    <3>2. CASE l = n
      <4>1. \A d \in done : d.lane = n => ~d.ok
        BY <2>3 DEF OutcomesInv, OneOutcome, RedLane, Spent
      <4>2. used[n] + 1 \in Attempt /\ used[n] + 1 > used[n]
        BY <2>3, BoundsAssumption DEF Attempt
      <4>3. state'.received[<<n, used'[n]>>] = "none"
        BY <2>2, <2>3, <2>4, <3>2, <4>2 DEF LaneCollected
      <4>4. \A a \in Attempt : a > used'[n] => state'.received[<<n, a>>] = "none"
        BY <2>2, <2>3, <2>4, <3>2, BoundsAssumption DEF LaneCollected, Attempt
      <4> QED
        BY <2>2, <3>2, <4>1, <4>3, <4>4 DEF LaneCollected
    <3> QED
      BY <3>1, <3>2
  <2> QED
    BY <1>m, <2>1, <2>2, <2>4 DEF CollectedInv, AfterPolls, Recovering
<1>11. CASE PollFallback \/ PollRetry
  <2>1. /\ pc \in {"fallbackPoll", "retryPoll"} /\ done' = Merged
        /\ UNCHANGED <<used, stopped, results>>
        /\ pc' \in {"retry", "foldUsage", "head"}
    BY <1>11 DEF PollFallback, PollRetry, AfterPoll, ledgerVars
  <2>2. \A t \in Task : state'.received[t] =
          IF t \in Answered THEN VerdictOf(results[t][Len(results[t])]) ELSE state.received[t]
    <3>1. state'.received = Received(state.received)
      BY <1>11 DEF PollFallback, PollRetry, AfterPoll, TypeInv, TypeOK, StateType, GoalState
    <3> QED
      BY <3>1, ReceivedOf
  <2>3. ASSUME NEW l \in SimpleLanes, mode[l].kind = "retry", LaneCollected(l)
        PROVE  LaneCollected(l)'
    <3> DEFINE t == <<l, used[l]>>
    <3>1. ~Spent(l)
      BY <2>3 DEF Spent
    <3>2. /\ t \in Task /\ <<l, used'[l]>> = t /\ OutcomeOf(t)' = OutcomeOf(t)
          /\ OutcomeOf(t).lane = l
      BY <1>t, <2>1, TaskType, AttemptRange DEF OutcomeOf
    <3>3. CASE /\ \A u \in Answered : u[1] # l
               /\ \A d : d.lane = l => (d \in Merged <=> d \in done)
      <4>1. \A a \in Attempt : state'.received[<<l, a>>] = state.received[<<l, a>>]
        BY <2>2, <3>3, TaskType
      <4>2. state'.received[t] = state.received[t]
        BY <2>2, <3>2, <3>3
      <4> QED
        BY <2>1, <2>3, <3>2, <3>3, <4>1, <4>2 DEF LaneCollected
    <3>4. CASE /\ t \in Answered /\ pc = "retryPoll"
               /\ \A d : d.lane = l => (d \in Merged <=> d = OutcomeOf(t))
      <4>1. \A u \in Answered : u[1] = l => u[2] = used[l]
        BY <3>4 DEF OutcomesInv, BatchOfRound, Answered
      <4>2. \A a \in Attempt : a > used[l] => state'.received[<<l, a>>] = "none"
        <5> SUFFICES ASSUME NEW a \in Attempt, a > used[l]
                     PROVE  state'.received[<<l, a>>] = "none"
          OBVIOUS
        <5>1. <<l, a>> \notin Answered /\ <<l, a>> \in Task
          BY <1>t, <4>1, TaskType
        <5> QED
          BY <2>2, <2>3, <5>1 DEF LaneCollected
      <4>3. /\ results[t] # <<>> /\ OutcomeOf(t) \in Merged
            /\ Len(results[t]) \in 1 .. Len(results[t])
            /\ state'.received[t] = VerdictOf(results[t][Len(results[t])])
        BY <2>2, <3>2, <3>4, AnsweredHasResults
      <4>4. state'.received[t] # "none"
        BY <4>3 DEF VerdictOf
      <4> QED
        BY <2>1, <3>2, <4>2, <4>3, <4>4 DEF LaneCollected
    <3> QED
      BY <2>1, <3>1, <3>3, <3>4, MergedOfLane
  <2> QED
    BY <1>m, <2>1, <2>3 DEF CollectedInv, AfterPolls, Recovering
<1>12. CASE FoldUsage
  <2>1. /\ UNCHANGED <<done, used, stopped>> /\ pc = "foldUsage" /\ pc' = "finish"
        /\ state'.received = state.received
    BY <1>12 DEF FoldUsage, loopVars, TypeInv, TypeOK, StateType, GoalState
  <2> QED
    BY <1>s, <2>1 DEF AfterPolls
<1>13. CASE \/ ResumeFinished \/ CancelGoal \/ UNCHANGED vars
            \/ \E t \in Task, ok \in BOOLEAN : AgentResult(t, ok)
  BY <1>6, <1>13 DEF ResumeFinished, CancelGoal, AgentResult, vars
<1> QED
  BY <1>1, <1>2, <1>3, <1>4, <1>5, <1>7, <1>8, <1>9, <1>10, <1>11, <1>12, <1>13
  DEF Next, Orchestrator

LEMMA OnlyResult ==
  ASSUME NEW s \in Seq(BOOLEAN), s # <<>>, Len(s) <= 1
  PROVE  Len(s) = 1 /\ Head(s) = s[1]
<1>1. Len(s) \in Nat /\ Len(s) # 0
  OBVIOUS
<1>2. \A n \in Nat : n # 0 /\ n <= 1 => n = 1
  OBVIOUS
<1>3. Len(s) = 1
  BY <1>1, <1>2
<1>4. Head(s) = s[1]
  OBVIOUS
<1> QED
  BY <1>3, <1>4

\* When the loop ran to its end, a retry lane is green exactly when its last attempt
\* was collected as ok, if the ledger holds at most one result of that attempt.
THEOREM LastRetryDecidesLane == Spec => []LastRetryDecides
<1>1. TypeInv /\ OutcomesInv /\ CollectedInv => LastRetryDecides
  <2> SUFFICES ASSUME TypeInv, OutcomesInv, CollectedInv,
                      pc \in {"foldUsage", "finish"}, stopped = "no",
                      NEW l \in SimpleLanes, mode[l].kind = "retry",
                      Len(results[<<l, used[l]>>]) <= 1
               PROVE  SynthesizedLane(l) = "done" <=> state.received[<<l, used[l]>>] = "ok"
    BY DEF LastRetryDecides
  <2> DEFINE t == <<l, used[l]>>
  <2>1. LaneCollected(l)
    BY DEF CollectedInv, AfterPolls
  <2>2. t \in Task /\ results[t] \in Seq(BOOLEAN)
    BY TaskType, AttemptRange DEF TypeInv, TypeOK, LedgerType, LoopType
  <2>3. SynthesizedLane(l) = "done" <=> \E d \in done : d.lane = l /\ d.ok
    BY DEF SynthesizedLane
  <2>4. ASSUME state.received[t] # "none"
        PROVE  /\ OutcomeOf(t) \in done
               /\ state.received[t] = VerdictOf(Head(results[t]))
    <3>1. /\ results[t] # <<>> /\ OutcomeOf(t) \in done
          /\ \E k \in 1 .. Len(results[t]) : state.received[t] = VerdictOf(results[t][k])
      BY <2>1, <2>4 DEF LaneCollected
    <3>2. Len(results[t]) = 1 /\ Head(results[t]) = results[t][1]
      <4>1. results[t] \in Seq(BOOLEAN) /\ results[t] # <<>> /\ Len(results[t]) <= 1
        BY <2>2, <3>1
      <4> QED
        BY <4>1, OnlyResult
    <3> QED
      BY <3>1, <3>2
  <2>5. ASSUME NEW d \in done, d.lane = l, d.ok PROVE state.received[t] = "ok"
    <3>1. state.received[t] # "none"
      BY <2>1, <2>5 DEF LaneCollected
    <3>2. d = OutcomeOf(t)
      BY <2>4, <2>5, <3>1 DEF OutcomesInv, OneOutcome, Spent, OutcomeOf
    <3> QED
      <4>1. Head(results[t]) = d.ok
        BY <3>2 DEF OutcomeOf
      <4> QED
        BY <2>4, <2>5, <3>1, <4>1 DEF VerdictOf
  <2>6. ASSUME state.received[t] = "ok" PROVE \E d \in done : d.lane = l /\ d.ok
    BY <2>4, <2>6 DEF OutcomeOf, VerdictOf
  <2> QED
    BY <2>3, <2>5, <2>6
<1> QED
  BY <1>1, TypeInit, TypeStep, RecoveryInit, RecoveryStep, OutcomesInit, OutcomesStep,
     CollectedInit, CollectedStep, PTL DEF Spec
=============================================================================
