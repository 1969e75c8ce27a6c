------------------------------ MODULE GoalLoop ------------------------------
(***************************************************************************)
(* The life cycle of one goal under the orchestration harness              *)
(* (src/orchestrator/lib/goal-loop.js): runGoalLoop and runSimpleLanes     *)
(* dispatch the goal's lanes as task-claims on the blackboard ledger, wait *)
(* for results written by agents, apply every lane's failure_mode, and     *)
(* persist the goal state file that a later --resume starts from.  The     *)
(* orchestrator process may stop between any two of its steps, operators   *)
(* may cancel, resume or run the goal again under the same id, and agents  *)
(* answer at any time or never.                                            *)
(***************************************************************************)
EXTENDS Naturals, Sequences, FiniteSets

CONSTANTS
  Plans,        \* the failure_mode assignments of the goals considered
  SimpleLanes,  \* lanes without a pattern: one task-claim per attempt
  HookedLanes,  \* simple lanes an installed lane:dispatch hook may veto
  PatternLanes, \* lanes run by a coordinator of lib/coordination
  MaxRetries,   \* largest N of a retry-N failure_mode (the code clamps at 10)
  MaxRuns,      \* bound, per plan: invocations of the harness for this goal
  MaxStray      \* bound, per plan: tasks with more results than claims at a time

ASSUME LanesAssumption ==
  /\ IsFiniteSet(SimpleLanes) /\ SimpleLanes # {}
  /\ IsFiniteSet(PatternLanes)
  /\ SimpleLanes \cap PatternLanes = {}
  /\ HookedLanes \subseteq SimpleLanes
ASSUME BoundsAssumption == MaxRetries \in Nat \ {0} /\ MaxRuns \in [Plans -> Nat]
                           /\ MaxStray \in [Plans -> Nat]

----------------------------------------------------------------------------
(* Task ids: <goal>.<lane>, <goal>.<lane>.retry-k and                      *)
(* <goal>.<lane>.fallback-<role>, as a lane and an attempt.                *)

Original == 0
Fallback == MaxRetries + 1
Attempt  == 0 .. (MaxRetries + 1)
Task     == SimpleLanes \X Attempt

FailureMode ==
  [kind : {"abort", "continue", "fallback"}, retries : {0}]
    \cup [kind : {"retry"}, retries : 1 .. MaxRetries]

\* A goal as normalizeGoal leaves it; a pattern lane's failure_mode is never read.
Plan == [SimpleLanes -> FailureMode]

ASSUME PlansAssumption == Plans \subseteq Plan

Verdict == {"none", "ok", "failed"}
Status  == {"absent", "active", "done", "failed", "aborted", "cancelled"}

GoalState ==
  [status     : Status,
   dispatched : SUBSET Task,               \* dispatchedClaims
   received   : [Task -> Verdict],         \* last receivedResults entry per task
   pattern    : [PatternLanes -> Verdict]] \* patternLanes[].ok, cached

\* One element of pollOutcome.done.
Outcome == [lane : SimpleLanes, att : Attempt, ok : BOOLEAN, hookBlocked : BOOLEAN]

Phase == {"idle", "goalStart", "patterns", "preCancel", "laneHooks", "dispatch",
          "poll", "head", "fallback", "fallbackPoll", "retry",
          "retryPoll", "foldUsage", "finish"}

VARIABLES
  mode,       \* the failure_mode of each simple lane
  \* the blackboard ledger, projected on this goal
  claims,     \* number of task-claim records per task
  results,    \* result records per task, in ledger order (their ok fields)
  laneBlocked,\* lanes a lane:dispatch hook has blocked (history: the decision
              \* record of it is best-effort, and nothing reads it)
  cancelReq,  \* a cancel-request decision for the goal is on the ledger
  \* the disk
  file,       \* the goal state file
  \* the orchestrator process
  pc, state, resumed, blocked, todo, batch, done, failed, retriable,
  used, fbUsed, stopped,
  \* counters for the bounds and the properties
  runs,       \* invocations so far
  freshRuns,  \* those that were not a resume
  late        \* claims of this run written after the cancel-request, per lane

ledgerVars == <<claims, results, laneBlocked, cancelReq>>
loopVars == <<resumed, blocked, todo, batch, done, failed, retriable,
              used, fbUsed, stopped>>
vars == <<mode, ledgerVars, file, pc, state, loopVars, runs, freshRuns, late>>

----------------------------------------------------------------------------
Terminal == {"done", "failed", "aborted"}

NewState ==
  [status |-> "active", dispatched |-> {}, received |-> [t \in Task |-> "none"],
   pattern |-> [p \in PatternLanes |-> "none"]]

ClearLoop ==
  /\ resumed' = FALSE /\ blocked' = {} /\ todo' = {} /\ batch' = {} /\ done' = {}
  /\ failed' = {} /\ retriable' = {}
  /\ used' = [l \in SimpleLanes |-> 0] /\ fbUsed' = {} /\ stopped' = "no"

Init ==
  /\ mode \in Plans
  /\ claims = [t \in Task |-> 0]
  /\ results = [t \in Task |-> <<>>]
  /\ laneBlocked = {} /\ cancelReq = FALSE
  /\ state = NewState
  /\ file = [NewState EXCEPT !.status = "absent"]
  /\ pc = "idle" /\ resumed = FALSE /\ blocked = {} /\ todo = {} /\ batch = {}
  /\ done = {} /\ failed = {} /\ retriable = {}
  /\ used = [l \in SimpleLanes |-> 0] /\ fbUsed = {} /\ stopped = "no"
  /\ runs = 0 /\ freshRuns = 0
  /\ late = [l \in SimpleLanes |-> 0]

----------------------------------------------------------------------------
(* The end of an invocation, and starting one.                             *)

Return == pc' = "idle" /\ state' = NewState /\ ClearLoop

\* A run that is not a resume: a new state replaces whatever the file held.
StartFresh ==
  /\ pc = "idle" /\ runs < MaxRuns[mode]
  /\ runs' = runs + 1 /\ freshRuns' = freshRuns + 1
  /\ state' = NewState /\ file' = NewState
  /\ pc' = "goalStart"
  /\ late' = [l \in SimpleLanes |-> 0]
  /\ UNCHANGED <<mode, ledgerVars, loopVars>>

\* --resume of a finished goal answers from the state file: a trace with
\* ok = (status = "done").
ResumeFinished ==
  /\ pc = "idle" /\ runs < MaxRuns[mode]
  /\ file.status \in Terminal
  /\ runs' = runs + 1
  /\ UNCHANGED <<mode, ledgerVars, file, pc, state, loopVars, freshRuns, late>>

\* Mutation: --resume also reopens a finished goal.
ResumeAny ==
  /\ pc = "idle" /\ runs < MaxRuns[mode]
  /\ file.status # "absent"
  /\ runs' = runs + 1
  /\ state' = [file EXCEPT !.status = "active"]
  /\ resumed' = TRUE
  /\ pc' = "goalStart"
  /\ late' = [l \in SimpleLanes |-> 0]
  /\ UNCHANGED <<mode, ledgerVars, file, blocked, todo, batch, done,
                 failed, retriable, used, fbUsed, stopped, freshRuns>>

\* --resume of a goal left active (or cancelled) reuses its state.
ResumeActive ==
  /\ pc = "idle" /\ runs < MaxRuns[mode]
  /\ file.status \in {"active", "cancelled"}
  /\ runs' = runs + 1
  /\ state' = [file EXCEPT !.status = "active"]
  /\ resumed' = TRUE
  /\ pc' = "goalStart"
  /\ late' = [l \in SimpleLanes |-> 0]
  /\ UNCHANGED <<mode, ledgerVars, file, blocked, todo, batch, done,
                 failed, retriable, used, fbUsed, stopped, freshRuns>>

\* What runEventHook makes of a dispatch: hooks that are missing, fail or cannot be
\* read let the goal go on.
HookDecision == {"continue", "block"}

\* The goal:start hook lets the goal through, or aborts it before any dispatch.
GoalStartHook ==
  /\ pc = "goalStart"
  /\ \E decision \in HookDecision :
       \/ /\ decision = "continue" /\ pc' = "patterns"
          /\ UNCHANGED <<file, state, loopVars>>
       \/ /\ decision = "block" /\ file' = [state EXCEPT !.status = "aborted"]
          /\ Return
  /\ UNCHANGED <<mode, ledgerVars, runs, freshRuns, late>>

----------------------------------------------------------------------------
(* Pattern lanes come first, one after the other; a lane whose result the  *)
(* state file already holds is not run again.                              *)

\* What a coordinator's return is reduced to, of which only ok is ever read again:
\* a lane that timed out is as red as one that failed.
PatternVerdict == Verdict \ {"none"}

RunPatternLane(p) ==
  /\ pc = "patterns"
  /\ state.pattern[p] = "none"
  /\ \E s \in PatternVerdict :
       state' = [state EXCEPT !.pattern[p] = s]
  /\ file' = state'
  /\ UNCHANGED <<mode, ledgerVars, pc, loopVars, runs, freshRuns, late>>

PatternsDone ==
  /\ pc = "patterns"
  /\ \A p \in PatternLanes : state.pattern[p] # "none"
  /\ pc' = "preCancel"
  /\ UNCHANGED <<mode, ledgerVars, file, state, loopVars, runs, freshRuns, late>>

----------------------------------------------------------------------------
(* runSimpleLanes up to its first poll; checkCancelRequest comes first.     *)

PreCancelCheck ==
  /\ pc = "preCancel"
  /\ \/ /\ cancelReq
        /\ state' = [state EXCEPT !.status = "cancelled"]
        /\ file' = state'
        /\ stopped' = "undispatched" /\ pc' = "foldUsage"
     \/ /\ ~cancelReq /\ pc' = "laneHooks"
        /\ UNCHANGED <<file, state, stopped>>
  /\ UNCHANGED <<mode, ledgerVars, resumed, blocked, todo, batch, done,
                 failed, retriable, used, fbUsed, runs, freshRuns, late>>

\* The lane:dispatch hooks, one event per lane; a block decision takes the lane
\* out of the dispatch set, whether its decision record can be written or not.
LaneDispatchHooks ==
  /\ pc = "laneHooks"
  /\ \E b \in SUBSET HookedLanes :
       /\ blocked' = b /\ laneBlocked' = laneBlocked \cup b
       /\ todo' = SimpleLanes \ b
       /\ batch' = (SimpleLanes \ b) \X {Original}
  /\ pc' = "dispatch"
  /\ UNCHANGED <<mode, claims, results, cancelReq, file, state, resumed, done,
                  failed, retriable, used, fbUsed, stopped, runs,
                 freshRuns, late>>

\* The goal's lanes have a fixed order, which one does not matter here.
NextLane == CHOOSE l \in todo : TRUE

\* ledger.claimTask by the orchestrator.
Claim(t) ==
  /\ claims' = [claims EXCEPT ![t] = @ + 1]
  /\ late' = IF cancelReq THEN [late EXCEPT ![t[1]] = @ + 1] ELSE late

\* Mutation: a resumed run dispatches every lane again.
DispatchLaneAgain ==
  /\ pc = "dispatch" /\ todo # {}
  /\ LET l == NextLane IN todo' = todo \ {l} /\ Claim(<<l, Original>>)
  /\ pc' = IF todo' = {} THEN "poll" ELSE "dispatch"
  /\ UNCHANGED <<mode, results, laneBlocked, cancelReq, file, state, resumed,
                 blocked, batch, done, failed, retriable, used, fbUsed,
                 stopped, runs, freshRuns>>

\* dispatchLanes: a resumed run keeps the claims it finds on the ledger.
DispatchLane ==
  /\ pc = "dispatch" /\ todo # {}
  /\ LET l == NextLane IN
     /\ todo' = todo \ {l}
     /\ IF resumed /\ claims[<<l, Original>>] > 0
          THEN UNCHANGED <<claims, late>>
          ELSE Claim(<<l, Original>>)
  /\ pc' = IF todo' = {} THEN "poll" ELSE "dispatch"
  /\ UNCHANGED <<mode, results, laneBlocked, cancelReq, file, state, resumed,
                 blocked, batch, done, failed, retriable, used, fbUsed,
                 stopped, runs, freshRuns>>

DispatchNothing ==
  /\ pc = "dispatch" /\ todo = {}
  /\ pc' = "poll"
  /\ UNCHANGED <<mode, ledgerVars, file, state, loopVars, runs, freshRuns, late>>

----------------------------------------------------------------------------
(* pollForResults returns once every polled task has a result or once the  *)
(* wait budget is spent, so it may return at any moment.  Its verdict on a *)
(* task is that of the first result record it finds (snapshot.results.find).*)

Answered == {t \in batch : results[t] # <<>>}

OutcomeOf(t) ==
  [lane |-> t[1], att |-> t[2], ok |-> Head(results[t]), hookBlocked |-> FALSE]

HookOutcome(l) ==
  [lane |-> l, att |-> Original, ok |-> FALSE, hookBlocked |-> TRUE]

\* The raw records a poll returns; the last one of a task is what a map keyed
\* by task id keeps.
Received(old) ==
  [t \in Task |-> IF t \notin Answered THEN old[t]
                  ELSE IF results[t][Len(results[t])] THEN "ok" ELSE "failed"]

\* The poll for the original attempts, the cancel check that follows it and, for
\* a goal not cancelled, the fold of the blocked lanes into the outcomes as red
\* ones and the write of the state file.
PollOriginals ==
  /\ pc = "poll"
  /\ \/ /\ cancelReq
        /\ done' = {OutcomeOf(t) : t \in Answered}
        /\ state' = [state EXCEPT !.status = "cancelled"]
        /\ stopped' = "cancelled" /\ pc' = "foldUsage"
     \/ /\ ~cancelReq
        /\ done' = {OutcomeOf(t) : t \in Answered} \cup {HookOutcome(l) : l \in blocked}
        /\ state' = [state EXCEPT !.dispatched = batch,
                                  !.received = Received([t \in Task |-> "none"])]
        /\ pc' = "head" /\ UNCHANGED stopped
  /\ file' = state'
  /\ batch' = {}
  /\ UNCHANGED <<mode, ledgerVars, resumed, blocked, todo, failed, retriable, used,
                 fbUsed, runs, freshRuns, late>>

----------------------------------------------------------------------------
(* The recovery loop.                                                      *)

Red == {d \in done : ~d.ok}

\* Mutation: every retry lane is retried, not only the red ones.
RetriableLanesGreenToo ==
  {d.lane : d \in {e \in done : mode[e.lane].kind = "retry"
                                /\ used[e.lane] < mode[e.lane].retries}}

RetriableLanes ==
  {d.lane : d \in {e \in Red : mode[e.lane].kind = "retry"
                               /\ used[e.lane] < mode[e.lane].retries}}
FallbackLanes ==
  {d.lane : d \in {e \in Red : mode[e.lane].kind = "fallback"
                               /\ e.lane \notin fbUsed}}

\* Mutation: a hook-blocked lane does not abort the goal.
AbortersNotHooked ==
  {d \in Red : mode[d.lane].kind = "abort" /\ ~d.hookBlocked}

Aborters == {d \in Red : mode[d.lane].kind = "abort"}

HeadCancelled ==
  /\ state' = [state EXCEPT !.status = "cancelled"]
  /\ stopped' = "cancelled" /\ pc' = "foldUsage"
  /\ UNCHANGED <<file, todo>>

HeadAborted ==
  /\ stopped' = "aborted" /\ pc' = "foldUsage"
  /\ file' = state
  /\ UNCHANGED <<state, todo>>

\* Mutation: the loop continues instead of breaking when nothing is left to try.
HeadRecoverNoBreak ==
  /\ \/ FallbackLanes # {} /\ todo' = FallbackLanes /\ pc' = "fallback"
     \/ /\ FallbackLanes = {} /\ RetriableLanes # {}
        /\ todo' = RetriableLanes /\ pc' = "retry"
     \/ FallbackLanes = {} /\ RetriableLanes = {} /\ pc' = "head" /\ UNCHANGED todo
  /\ UNCHANGED <<file, state, stopped>>

HeadRecover ==
  /\ \/ FallbackLanes # {} /\ todo' = FallbackLanes /\ pc' = "fallback"
     \/ /\ FallbackLanes = {} /\ RetriableLanes # {}
        /\ todo' = RetriableLanes /\ pc' = "retry"
     \/ FallbackLanes = {} /\ RetriableLanes = {} /\ pc' = "foldUsage" /\ UNCHANGED todo
  /\ UNCHANGED <<file, state, stopped>>

\* Mutation: no cancel check at the head of the loop.
LoopHeadNoCancelCheck ==
  /\ pc = "head"
  /\ failed' = Red /\ retriable' = RetriableLanes
  /\ IF Aborters # {} THEN HeadAborted ELSE HeadRecover
  /\ UNCHANGED <<mode, ledgerVars, resumed, blocked, batch, done, used,
                 fbUsed, runs, freshRuns, late>>

LoopHead ==
  /\ pc = "head"
  /\ failed' = Red /\ retriable' = RetriableLanes
  /\ IF cancelReq THEN HeadCancelled
     ELSE IF Aborters # {} THEN HeadAborted ELSE HeadRecover
  /\ UNCHANGED <<mode, ledgerVars, resumed, blocked, batch, done, used,
                 fbUsed, runs, freshRuns, late>>

DispatchFallback ==
  /\ pc = "fallback"
  /\ LET l == NextLane IN
     /\ todo' = todo \ {l} /\ fbUsed' = fbUsed \cup {l}
     /\ Claim(<<l, Fallback>>)
     /\ batch' = batch \cup {<<l, Fallback>>}
  /\ pc' = IF todo' = {} THEN "fallbackPoll" ELSE "fallback"
  /\ UNCHANGED <<mode, results, laneBlocked, cancelReq, file, state, resumed,
                 blocked, done, failed, retriable, used, stopped,
                 runs, freshRuns>>

DispatchRetry ==
  /\ pc = "retry"
  /\ LET l == NextLane IN
     /\ todo' = todo \ {l} /\ used' = [used EXCEPT ![l] = @ + 1]
     /\ Claim(<<l, used[l] + 1>>)
     /\ batch' = batch \cup {<<l, used[l] + 1>>}
  /\ pc' = IF todo' = {} THEN "retryPoll" ELSE "retry"
  /\ UNCHANGED <<mode, results, laneBlocked, cancelReq, file, state, resumed,
                 blocked, done, failed, retriable, fbUsed, stopped,
                 runs, freshRuns>>

\* Mutation: the outcome of a recovery attempt is dropped.
ReplacedByNothing(d) == {d}

\* The new pollOutcome: the green outcomes of now, and for every outcome that was
\* red at the head of the loop its replacement, or itself when none came.
Replaced(d) ==
  LET new == {t \in Answered : t[1] = d.lane}
  IN  IF new = {} THEN {d} ELSE {OutcomeOf(t) : t \in new}

Merged == (done \ Red) \cup UNION {Replaced(d) : d \in failed}

StillFailed == {d \in failed : \E e \in Replaced(d) : ~e.ok}

AfterPoll ==
  /\ done' = Merged
  /\ state' = [state EXCEPT
       !.received = Received(@),
       !.dispatched = ((SimpleLanes \ blocked) \X {Original}) \cup batch]
  /\ file' = state'
  /\ batch' = {}

PollFallback ==
  /\ pc = "fallbackPoll"
  /\ AfterPoll
  /\ \/ /\ retriable # {}
        /\ todo' = retriable /\ pc' = "retry"
     \/ /\ retriable = {}
        /\ pc' = IF StillFailed = {} THEN "foldUsage" ELSE "head"
        /\ UNCHANGED todo
  /\ UNCHANGED <<mode, ledgerVars, resumed, blocked, failed, retriable, used,
                 fbUsed, stopped, runs, freshRuns, late>>

PollRetry ==
  /\ pc = "retryPoll"
  /\ AfterPoll
  /\ pc' = IF StillFailed = {} THEN "foldUsage" ELSE "head"
  /\ UNCHANGED <<mode, ledgerVars, resumed, blocked, todo, failed, retriable, used,
                 fbUsed, stopped, runs, freshRuns, late>>

----------------------------------------------------------------------------
(* Back in runGoalLoop: the usage facts are folded into the state, which   *)
(* is written, then the trace is synthesized and the final state written.  *)

\* The claims runSimpleLanes returned; none when it stopped before dispatch.
ReturnedClaims ==
  IF stopped = "undispatched" THEN {} ELSE (SimpleLanes \ blocked) \X {Original}

FoldUsage ==
  /\ pc = "foldUsage"
  /\ state' = [state EXCEPT !.dispatched = ReturnedClaims]
  /\ file' = state'
  /\ pc' = "finish"
  /\ UNCHANGED <<mode, ledgerVars, loopVars, runs, freshRuns, late>>

\* synthesize: the first outcome of the lane decides, green outcomes are first.
SynthesizedLane(l) ==
  LET outs == {d \in done : d.lane = l}
  IN  CASE \E d \in outs : d.ok                          -> "done"
        [] outs # {} /\ (\A d \in outs : ~d.ok)          -> "failed"
        [] OTHER                                         -> "pending"

\* Mutation: a lane without a red outcome counts as done.
OverallOkWhenNotRed ==
  /\ stopped = "no"
  /\ \A l \in SimpleLanes : SynthesizedLane(l) # "failed"
  /\ \A p \in PatternLanes : state.pattern[p] = "ok"

OverallOk ==
  /\ stopped = "no"
  /\ \A l \in SimpleLanes : SynthesizedLane(l) = "done"
  /\ \A p \in PatternLanes : state.pattern[p] = "ok"

Synthesize ==
  /\ pc = "finish"
  /\ file' = [state EXCEPT
       !.status = CASE stopped \in {"cancelled", "undispatched"} -> "cancelled"
                    [] OverallOk                                -> "done"
                    [] stopped = "aborted"                      -> "aborted"
                    [] stopped = "no" /\ ~OverallOk             -> "failed"]
  /\ Return
  /\ UNCHANGED <<mode, ledgerVars, runs, freshRuns, late>>

----------------------------------------------------------------------------
(* The environment of the orchestrator.                                    *)

\* Tasks with a result that no claim of theirs is left for: it was there before
\* the claim, or a second daemon answered the same claim.
Stray == {t \in Task : Len(results[t]) > claims[t]}

\* The task ids that the goal can claim; a result for any other is never read.
Claimable ==
  {t \in Task : \/ t[2] <= mode[t[1]].retries
               \/ (t[2] = Fallback /\ mode[t[1]].kind = "fallback")}

\* An agent, or the harness in the agents' place (--mock-agents), answers task t.
AgentResult(t, ok) ==
  /\ \/ Len(results[t]) < claims[t]
     \/ (t \in Claimable \ Stray /\ Cardinality(Stray) < MaxStray[mode])
  /\ results' = [results EXCEPT ![t] = Append(@, ok)]
  /\ UNCHANGED <<mode, claims, laneBlocked, cancelReq, file, pc, state, loopVars,
                  runs, freshRuns, late>>

\* openclaw goal --cancel
CancelGoal ==
  /\ ~cancelReq
  /\ cancelReq' = TRUE
  /\ UNCHANGED <<mode, claims, results, laneBlocked, file, pc, state, loopVars,
                  runs, freshRuns, late>>

\* The process is killed, or a ledger or state write throws out of runGoalLoop.
Crash ==
  /\ pc # "idle"
  /\ pc' = "idle" /\ state' = NewState /\ ClearLoop
  /\ UNCHANGED <<mode, ledgerVars, file, runs, freshRuns, late>>

Orchestrator ==
  \/ GoalStartHook
  \/ \E p \in PatternLanes : RunPatternLane(p)
  \/ PatternsDone
  \/ PreCancelCheck
  \/ LaneDispatchHooks
  \/ DispatchLane
  \/ DispatchNothing
  \/ PollOriginals
  \/ LoopHead
  \/ DispatchFallback
  \/ DispatchRetry
  \/ PollFallback
  \/ PollRetry
  \/ FoldUsage
  \/ Synthesize

Next ==
  \/ StartFresh
  \/ ResumeFinished
  \/ ResumeActive
  \/ Orchestrator
  \/ \E t \in Task, ok \in BOOLEAN : AgentResult(t, ok)
  \/ CancelGoal
  \/ Crash

\* The harness keeps stepping until it returns: its waits are bounded by
\* maxWaitMs.  Operators, agents and crashes owe nothing.
Spec == Init /\ [][Next]_vars /\ WF_vars(Orchestrator)

----------------------------------------------------------------------------
(* Properties.  First the types of the ledger, of the state file and of    *)
(* the control state, of the working sets, and of the counters.            *)

LedgerType ==
  /\ mode \in [SimpleLanes -> FailureMode]
  /\ claims \in [Task -> Nat]
  /\ results \in [Task -> Seq(BOOLEAN)]
  /\ laneBlocked \in SUBSET SimpleLanes /\ cancelReq \in BOOLEAN
StateType ==
  /\ file \in GoalState /\ state \in GoalState /\ pc \in Phase
  /\ resumed \in BOOLEAN
  /\ stopped \in {"no", "aborted", "cancelled", "undispatched"}
LoopType ==
  /\ blocked \in SUBSET SimpleLanes
  /\ todo \in SUBSET SimpleLanes /\ batch \in SUBSET Task
  /\ done \in SUBSET Outcome
  /\ failed \in SUBSET Outcome /\ retriable \in SUBSET SimpleLanes
  /\ used \in [SimpleLanes -> 0 .. MaxRetries]
  /\ fbUsed \in SUBSET SimpleLanes
CounterType ==
  /\ runs \in Nat /\ freshRuns \in Nat
  /\ late \in [SimpleLanes -> Nat]

TypeOK == LedgerType /\ StateType /\ LoopType /\ CounterType

\* A goal is recorded as done only if every simple lane has an attempt that was
\* claimed on the ledger and whose first result record is ok, and every pattern
\* lane is done: no recovery path, cancel, crash or resume turns a red lane green.
GreenIsEarned ==
  file.status = "done" =>
    /\ \A l \in SimpleLanes : \E a \in Attempt :
         /\ claims[<<l, a>>] > 0
         /\ results[<<l, a>>] # <<>> /\ Head(results[<<l, a>>])
    /\ \A p \in PatternLanes : file.pattern[p] = "ok"

\* Recovery attempts exist only where the lane's failure_mode asks for them, in
\* order, within its budget, and after the attempt they recover from failed (or a
\* hook blocked the lane): whatever was crashed, resumed or run again before.
RecoveryIsJustified ==
  \A l \in SimpleLanes, a \in Attempt \ {Original} :
    claims[<<l, a>>] > 0 =>
      /\ \/ l \in laneBlocked
         \/ results[<<l, Original>>] # <<>> /\ ~Head(results[<<l, Original>>])
      /\ IF a = Fallback THEN mode[l].kind = "fallback"
         ELSE /\ mode[l].kind = "retry" /\ a <= mode[l].retries
              /\ a > 1 => claims[<<l, a - 1>>] > 0

\* The original claim of a lane is written once per run that is not a resume: a
\* crash between two lanes' claims followed by --resume duplicates none.
OriginalClaimedOnce ==
  \A l \in SimpleLanes : claims[<<l, Original>>] <= freshRuns

\* A recovery attempt of a lane is never dispatched while the run holds a green
\* outcome for that lane, though the loop works on the red set of its head.
GreenLaneNotRedispatched ==
  [][\A l \in SimpleLanes, a \in Attempt \ {Original} :
       claims'[<<l, a>>] > claims[<<l, a>>] =>
         ~ \E d \in done : d.lane = l /\ d.ok]_vars

\* "The most recent retry decides the lane verdict" (docs/orchestration.md): when
\* the recovery loop ran to its end, a retry lane is green exactly when its last
\* dispatched attempt was collected as ok, provided the ledger holds at most one
\* result for that attempt.  It ties the verdict to the persisted results through
\* every merge of outcomes, retries and timeouts of the other lanes included.
LastRetryDecides ==
  pc \in {"foldUsage", "finish"} /\ stopped = "no" =>
    \A l \in SimpleLanes :
      LET t == <<l, used[l]>>
      IN  mode[l].kind = "retry" /\ Len(results[t]) <= 1 =>
            (SynthesizedLane(l) = "done" <=> state.received[t] = "ok")

\* After a cancel request is on the ledger a run writes at most one more claim per
\* simple lane: the batch it was dispatching when the request arrived.
CancelBoundsDispatch ==
  \A l \in SimpleLanes : late[l] <= 1

\* The recorded status of a finished goal changes only when the goal is run again
\* from scratch: no resume, crash, late result or cancel rewrites the state file.
FinishedStateIsFinal ==
  [][file.status \in Terminal /\ freshRuns' = freshRuns => file' = file]_vars

\* A run that was not cancelled ends as aborted exactly when some lane whose
\* failure_mode is abort holds a red outcome, one vetoed by a hook included: no
\* merge of fallback and retry outcomes drops it or brings one back.
AbortDecided ==
  pc = "finish" /\ stopped \in {"no", "aborted"} =>
    (stopped = "aborted" <=> \E d \in done : ~d.ok /\ mode[d.lane].kind = "abort")

\* An invocation returns: retries and fallbacks are finite and every wait is
\* bounded by its budget, whatever the agents do.
RunReturns == (pc # "idle") ~> (pc = "idle")

----------------------------------------------------------------------------
(* What the documentation and the comments say, and the code does not do:  *)
(* TLC refutes each of these.                                              *)

\* docs/orchestration.md: a goal may be run again under the same id because "the
\* ledger is append-only and the most recent result wins per taskId": what a poll
\* concludes about a task is its most recent result.
MostRecentResultWins ==
  [][pc = "poll" =>
       \A d \in done' : ~d.hookBlocked =>
         LET rs == results[<<d.lane, d.att>>] IN d.ok = rs[Len(rs)]]_vars

\* goal-loop.js on lanes vetoed by a lane:dispatch hook: "they cannot be retried
\* (the hook is the authority)": the run writes no claim for such a lane.
VetoedLaneNotDispatched ==
  [][\A l \in blocked, a \in Attempt : claims'[<<l, a>>] = claims[<<l, a>>]]_vars
=============================================================================
