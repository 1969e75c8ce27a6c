------------------------------- MODULE Agent --------------------------------
(***************************************************************************)
(* The daemons of openclaw-agent: each polls the ledger for the claims that *)
(* are routed to its role, runs a model call for each one it read, and      *)
(* appends a usage fact and a result, or a blocked decision.                *)
(***************************************************************************)
EXTENDS Blackboard

CONSTANTS
  RoleOf,     \* --role of each daemon
  Once,       \* the daemons started with --once
  Dry,        \* the daemons started with --dry-run
  Signing,    \* the daemons started with --identity-key
  MaxTasks,   \* --max-tasks
  MaxStarts,  \* bound: how often each daemon is started
  NoTask

ASSUME DaemonsAssumption ==
  /\ RoleOf \in [Daemons -> Roles]
  /\ MaxTasks \in Nat \ {0} /\ MaxStarts \in [Daemons -> Nat]
  /\ NoTask \notin Tasks

VARIABLES
  apc,        \* where each daemon is
  todo,       \* pending: the claims of the last read it has not taken yet
  task,       \* the claim handleClaim works on
  processed,  \* the tasks this process will not take again
  handled,    \* tasksHandled
  readAt,     \* history: the length of the ledger in the last read
  stop,       \* stopRequested
  starts

agentVars == <<apc, todo, task, processed, handled, readAt, stop, starts>>

AgentPc == {"down", "poll", "take", "call", "result", "sign"}

AgentInit ==
  /\ apc = [d \in Daemons |-> "down"]
  /\ todo = [d \in Daemons |-> {}]
  /\ task = [d \in Daemons |-> NoTask]
  /\ processed = [d \in Daemons |-> {}]
  /\ handled = [d \in Daemons |-> 0]
  /\ readAt = [d \in Daemons |-> 0]
  /\ stop = [d \in Daemons |-> FALSE]
  /\ starts = [d \in Daemons |-> 0]

\* Mutation: an answered task stays pending.
PendingOrAnswered(r) == {t \in Tasks : ClaimsOf(t, r) # {}}

\* findPendingClaims: whoever answered it, an answered task is not pending.
Pending(r) == {t \in Tasks : ClaimsOf(t, r) # {} /\ ~Answered(t)}

\* The results of the role seed processed on every read.
OwnAnswers(r) == {t \in Tasks : \E i \in ResultsOf(t) : log[i].role = r}

\* The Map of pending claims is read in the order of the tasks' first claims.
Earlier(t, u, r) == \E i \in ClaimsOf(t, r) : \A j \in ClaimsOf(u, r) : i <= j

\* The loop goes on: not stopped, and below --max-tasks.
MayTake(d) == ~stop[d] /\ handled[d] < MaxTasks

----------------------------------------------------------------------------
\* The process is gone, with all that it remembered.
Gone(d) ==
  /\ apc' = [apc EXCEPT ![d] = "down"]
  /\ todo' = [todo EXCEPT ![d] = {}]
  /\ task' = [task EXCEPT ![d] = NoTask]
  /\ processed' = [processed EXCEPT ![d] = {}]
  /\ handled' = [handled EXCEPT ![d] = 0]
  /\ readAt' = [readAt EXCEPT ![d] = 0]
  /\ stop' = [stop EXCEPT ![d] = FALSE]

\* main() up to the loop
StartDaemon(d) ==
  /\ apc[d] = "down" /\ starts[d] < MaxStarts[d]
  /\ apc' = [apc EXCEPT ![d] = "poll"]
  /\ starts' = [starts EXCEPT ![d] = @ + 1]
  /\ UNCHANGED <<log, todo, task, processed, handled, readAt, stop>>

\* One read of the ledger that finds claims of the role.
Poll(d) ==
  LET seeded == processed[d] \cup OwnAnswers(RoleOf[d])
      found  == Pending(RoleOf[d]) \ seeded
  IN /\ apc[d] = "poll" /\ MayTake(d)
     /\ found # {}
     /\ processed' = [processed EXCEPT ![d] = seeded]
     /\ todo' = [todo EXCEPT ![d] = found]
     /\ readAt' = [readAt EXCEPT ![d] = Len(log)]
     /\ apc' = [apc EXCEPT ![d] = "take"]
     /\ UNCHANGED <<log, task, handled, stop, starts>>

\* Nothing is pending, or readRecords throws: --once leaves, and the others
\* sleep and poll again, which changes nothing.
PollInVain(d) ==
  /\ apc[d] = "poll" /\ MayTake(d) /\ d \in Once
  /\ Gone(d)
  /\ UNCHANGED <<log, starts>>

\* Mutation: a claim taken is not marked processed.
TakeForgetting(d) ==
  /\ apc[d] = "take" /\ MayTake(d)
  /\ \E t \in todo[d] :
       /\ \A u \in todo[d] : Earlier(t, u, RoleOf[d])
       /\ todo' = [todo EXCEPT ![d] = @ \ {t}]
       /\ task' = [task EXCEPT ![d] = IF d \in Dry THEN NoTask ELSE t]
  /\ handled' = [handled EXCEPT ![d] = @ + 1]
  /\ apc' = [apc EXCEPT ![d] = IF d \in Dry THEN "take" ELSE "call"]
  /\ stop' = [stop EXCEPT ![d] = @ \/ (d \in Dry /\ d \in Once)]
  /\ UNCHANGED <<log, processed, readAt, starts>>

\* The next claim of the read, which may be answered by now; a dry run goes
\* straight on to the one after it.
Take(d) ==
  /\ apc[d] = "take" /\ MayTake(d)
  /\ \E t \in todo[d] :
       /\ \A u \in todo[d] : Earlier(t, u, RoleOf[d])
       /\ todo' = [todo EXCEPT ![d] = @ \ {t}]
       /\ processed' = [processed EXCEPT ![d] = @ \cup {t}]
       /\ task' = [task EXCEPT ![d] = IF d \in Dry THEN NoTask ELSE t]
  /\ handled' = [handled EXCEPT ![d] = @ + 1]
  /\ apc' = [apc EXCEPT ![d] = IF d \in Dry THEN "take" ELSE "call"]
  /\ stop' = [stop EXCEPT ![d] = @ \/ (d \in Dry /\ d \in Once)]
  /\ UNCHANGED <<log, readAt, starts>>

\* The for loop over the read is over, or broken off.
EndPass(d) ==
  /\ apc[d] = "take" /\ (todo[d] = {} \/ ~MayTake(d))
  /\ todo' = [todo EXCEPT ![d] = {}]
  /\ apc' = [apc EXCEPT ![d] = "poll"]
  /\ UNCHANGED <<log, task, processed, handled, readAt, stop, starts>>

\* daemon-stop
Leave(d) ==
  /\ apc[d] = "poll" /\ ~MayTake(d)
  /\ Gone(d)
  /\ UNCHANGED <<log, starts>>

----------------------------------------------------------------------------
(* handleClaim.  Every append is best effort: its failure is logged and     *)
(* changes nothing else.                                                    *)

AgentRecord(d, kind) ==
  [kind |-> kind, task |-> task[d], role |-> RoleOf[d], ok |-> TRUE,
   proc |-> d, life |-> starts[d], read |-> readAt[d]]

\* handleClaim returns; --once stops after it.
Finish(d) ==
  /\ task' = [task EXCEPT ![d] = NoTask]
  /\ apc' = [apc EXCEPT ![d] = "take"]
  /\ stop' = [stop EXCEPT ![d] = @ \/ d \in Once]

\* A decision or a result, whose detached signature is a second record.
WriteOutcome(d, kind) ==
  \/ /\ Write(AgentRecord(d, kind)) /\ d \in Signing
     /\ apc' = [apc EXCEPT ![d] = "sign"]
     /\ UNCHANGED <<task, stop>>
  \/ Write(AgentRecord(d, kind)) /\ d \notin Signing /\ Finish(d)
  \/ UNCHANGED log /\ Finish(d)

\* The model call failed or its output broke a hard rule: no result.
Block(d) ==
  /\ apc[d] = "call"
  /\ WriteOutcome(d, "blocked")
  /\ UNCHANGED <<todo, processed, handled, readAt, starts>>

\* The model call succeeded: the usage fact, if the backend reported usage.
CountUsage(d) ==
  /\ apc[d] = "call"
  /\ Write(AgentRecord(d, "usage")) \/ UNCHANGED log
  /\ apc' = [apc EXCEPT ![d] = "result"]
  /\ UNCHANGED <<todo, task, processed, handled, readAt, stop, starts>>

\* recordResult: a daemon only ever writes green results.
Answer(d) ==
  /\ apc[d] = "result"
  /\ WriteOutcome(d, "result")
  /\ UNCHANGED <<todo, processed, handled, readAt, starts>>

Sign(d) ==
  /\ apc[d] = "sign"
  /\ Write(AgentRecord(d, "signature")) \/ UNCHANGED log
  /\ Finish(d)
  /\ UNCHANGED <<todo, processed, handled, readAt, starts>>

\* SIGINT or SIGTERM
Signal(d) ==
  /\ apc[d] # "down" /\ ~stop[d]
  /\ stop' = [stop EXCEPT ![d] = TRUE]
  /\ UNCHANGED <<log, apc, todo, task, processed, handled, readAt, starts>>

\* The process dies wherever it is.
CrashDaemon(d) ==
  /\ apc[d] # "down"
  /\ Gone(d)
  /\ UNCHANGED <<log, starts>>

AgentStep(d) ==
  \/ Poll(d) \/ PollInVain(d) \/ Take(d) \/ EndPass(d) \/ Leave(d)
  \/ Block(d) \/ CountUsage(d) \/ Answer(d) \/ Sign(d)

----------------------------------------------------------------------------
AgentTypeOK ==
  /\ log \in Seq(Record)
  /\ apc \in [Daemons -> AgentPc]
  /\ todo \in [Daemons -> SUBSET Tasks]
  /\ task \in [Daemons -> Tasks \cup {NoTask}]
  /\ processed \in [Daemons -> SUBSET Tasks]
  /\ handled \in [Daemons -> Nat]
  /\ readAt \in [Daemons -> Nat]
  /\ stop \in [Daemons -> BOOLEAN]
  /\ starts \in [Daemons -> Nat]
=============================================================================
