------------------------------ MODULE Subagent -------------------------------
(***************************************************************************)
(* subagentFanOut: a parent claims one task per child for a role, runs the  *)
(* children as worker threads or as processes of openclaw-agent, each under *)
(* a timer, and reads their results off the ledger.  The call throws when   *)
(* one of them cannot be claimed or started; the others run on.             *)
(***************************************************************************)
EXTENDS Blackboard

CONSTANTS
  Fanned,     \* the number of tasks of the call
  ChildTask,  \* their task ids
  ChildRole,  \* the role of all of them
  Modes       \* the modes the call may be made in

ASSUME ChildrenAssumption ==
  /\ Fanned \in Nat \ {0}
  /\ ChildTask \in [1 .. Fanned -> Tasks]   \* buildChildTaskId puts the index in
  /\ \A k, l \in 1 .. Fanned : k # l => ChildTask[k] # ChildTask[l]
  /\ ChildRole \in Roles
  /\ Modes \subseteq {"workers", "processes"}

Children == 1 .. Fanned

VARIABLES
  mode,
  claimed,  \* children whose task is claimed
  child,    \* per child: where it is, or how it settled
  exit,     \* per child: the exit code of its process, or -1
  verdict   \* ok of the returned trace, "threw", or "none"

subVars == <<mode, claimed, child, exit, verdict>>

Settled == {"done", "failed", "timed-out"}

SubInit ==
  /\ mode \in Modes
  /\ claimed = {}
  /\ child = [k \in Children |-> "new"]
  /\ exit = [k \in Children |-> -1]
  /\ verdict = "none"

\* claimTask with forRole: a live daemon of the role may take the task too.
ClaimChild(k) ==
  /\ verdict = "none" /\ k \notin claimed /\ \A i \in Children : i < k => i \in claimed
  /\ Write(ClaimFor(ChildTask[k], ChildRole))
  /\ claimed' = claimed \cup {k}
  /\ UNCHANGED <<mode, child, exit, verdict>>

\* A task has no id, or the append throws: the call ends, what it claimed stays.
ClaimThrows ==
  /\ verdict = "none" /\ claimed # Children
  /\ verdict' = "threw"
  /\ UNCHANGED <<log, mode, claimed, child, exit>>

\* The children start when all the tasks are claimed.  A task that cannot be cloned
\* into its worker, or an argument spawn refuses, is thrown out of the promise.
Spawn ==
  /\ claimed = Children /\ \A k \in Children : child[k] = "new"
  /\ child' \in [Children -> {"running", "unstarted"}]
  /\ UNCHANGED <<log, mode, claimed, exit, verdict>>

Settle(k, how) == child' = [child EXCEPT ![k] = how]

----------------------------------------------------------------------------
(* Workers.  The first of message, error, exit and timer settles the child; *)
(* the worker is terminated and the others are ignored.                     *)

\* Mutation: a worker is not terminated when it is settled.
WorkerAnswersLate(k, ok) ==
  /\ mode = "workers" /\ child[k] # "new"
  /\ Write(ResultBy(Caller, ChildTask[k], ChildRole, ok))
  /\ Settle(k, IF child[k] # "running" THEN child[k] ELSE IF ok THEN "done" ELSE "failed")
  /\ UNCHANGED <<mode, claimed, exit, verdict>>

\* The parent writes the child's result, through the adapter of its scope.
WorkerAnswers(k, ok) ==
  /\ mode = "workers" /\ child[k] = "running"
  /\ \/ /\ Write(ResultBy(Caller, ChildTask[k], ChildRole, ok))
        /\ Settle(k, IF ok THEN "done" ELSE "failed")
     \/ UNCHANGED log /\ Settle(k, "failed")   \* the write throws
  /\ UNCHANGED <<mode, claimed, exit, verdict>>

\* The handler throws, or the worker dies before it posts a message.
WorkerFails(k) ==
  /\ mode = "workers" /\ child[k] = "running"
  /\ Settle(k, "failed")
  /\ UNCHANGED <<log, mode, claimed, exit, verdict>>

TimeOut(k) ==
  /\ child[k] = "running"
  /\ Settle(k, "timed-out")
  /\ UNCHANGED <<log, mode, claimed, exit, verdict>>

----------------------------------------------------------------------------
(* Processes: openclaw-agent with the arguments of runProcess.              *)

SpawnArgs == {"--role", "--task-id", "--scope", "--blackboard", "--once"}

KnownArgs ==
  {"--role", "--blackboard", "--poll-interval", "--model", "--endpoint",
   "--api-format", "--max-tasks", "--dry-run", "--once", "--identity-key",
   "--quiet", "--help"}

\* parseArgs leaves with 2 at the first argument it does not know.
ExitCodes == IF SpawnArgs \subseteq KnownArgs THEN {0, 1} ELSE {2}

\* The process is gone; after an exit with 0 its result is looked up.
ProcessExits(k) ==
  /\ mode = "processes" /\ child[k] = "running"
  /\ \E code \in ExitCodes :
       /\ exit' = [exit EXCEPT ![k] = code]
       /\ Settle(k, IF code = 0 /\ Answered(ChildTask[k])
                         /\ FirstResult(ChildTask[k]).ok
                    THEN "done" ELSE "failed")
  /\ UNCHANGED <<log, mode, claimed, verdict>>

----------------------------------------------------------------------------
\* Promise.all rejects at once, and nobody waits for the other children any more,
\* which go on as before; or the read of the results throws.
ParentThrows ==
  /\ verdict = "none"
  /\ \/ \E k \in Children : child[k] = "unstarted"
     \/ /\ \A k \in Children : child[k] \in Settled
        /\ \E k \in Children : child[k] = "done"
  /\ verdict' = "threw"
  /\ UNCHANGED <<log, mode, claimed, child, exit>>

\* Promise.all: the trace reads the first result of every child that is done.
ParentReturns ==
  /\ verdict = "none" /\ \A k \in Children : child[k] \in Settled
  /\ verdict' = IF \A k \in Children :
                     /\ child[k] = "done"
                     /\ Answered(ChildTask[k]) => FirstResult(ChildTask[k]).ok
                THEN "ok" ELSE "not ok"
  /\ UNCHANGED <<log, mode, claimed, child, exit>>

SubStep ==
  \/ \E k \in Children :
       \/ ClaimChild(k)
       \/ \E ok \in BOOLEAN : WorkerAnswers(k, ok)
       \/ WorkerFails(k) \/ TimeOut(k) \/ ProcessExits(k)
  \/ ClaimThrows \/ Spawn \/ ParentThrows \/ ParentReturns
=============================================================================
