------------------------------ MODULE Taskflow --------------------------------
(***************************************************************************)
(* The TaskFlow runtime: a log of events that only grows, and a snapshot    *)
(* that is computed from the whole log each time it is asked for.  Two      *)
(* programs have it, taskflow.js and the crate openclaw-taskflow.           *)
(***************************************************************************)
EXTENDS Naturals, Sequences

CONSTANTS
  Ids, Agents, NoAgent,
  Inherited,  \* the ids that name a property every JavaScript object has,
              \* like "constructor"; none of them for the crate
  MaxEvents   \* bound: the length of the log

ASSUME InheritedAssumption == Inherited \subseteq Ids
ASSUME AgentAssumption == NoAgent \notin Agents
ASSUME BoundAssumption == MaxEvents \in Nat

VARIABLE events

Event ==
  [kind : {"task-created", "task-claimed", "task-waiting", "task-blocked", "task-result"},
   task : Ids, agent : Agents \cup {NoAgent},
   state : {"queued", "claimed", "waiting", "done", "failed", "blocked"}]

TaskflowInit == events = <<>>

----------------------------------------------------------------------------
(* snapshot()                                                               *)

\* The events of t in the log; those before its creation change nothing.
EventsOf(t) == {i \in DOMAIN events : events[i].task = t}

Exists(t) == \E i \in EventsOf(t) : events[i].kind = "task-created"

Latest(t) == events[CHOOSE i \in EventsOf(t) : \A j \in EventsOf(t) : j <= i]

\* An event of an inherited id that was not created is applied to what every
\* object inherits under that name, which has no history to push to.
SnapshotThrows ==
  \E t \in Inherited : \E i \in EventsOf(t) :
    \A j \in EventsOf(t) : j <= i => events[j].kind # "task-created"

\* No task has a state where there is no snapshot.
StateOf(t) ==
  IF SnapshotThrows THEN "lost" ELSE IF Exists(t) THEN Latest(t).state ELSE "absent"

AgentOf(t) == IF ~SnapshotThrows /\ Exists(t) THEN Latest(t).agent ELSE NoAgent

----------------------------------------------------------------------------
\* append of what passes the validation and the scan
Log(kind, t, a, s) ==
  /\ Len(events) < MaxEvents
  /\ events' = Append(events, [kind |-> kind, task |-> t, agent |-> a, state |-> s])

\* A known id is created again like a new one.
CreateTask(t) == Log("task-created", t, NoAgent, "queued")

\* if (!task) throw
Found(t) == ~SnapshotThrows /\ (Exists(t) \/ t \in Inherited)

\* Mutation: a failed task can be claimed again.
ClaimUndone(t, a) ==
  /\ Found(t) /\ StateOf(t) # "done"
  /\ Log("task-claimed", t, a, "claimed")

ClaimTask(t, a) ==
  /\ Found(t) /\ StateOf(t) \notin {"done", "failed"}
  /\ Log("task-claimed", t, a, "claimed")

\* waitTask and blockTask look at nothing: not whether there is such a task,
\* and not whether it is done.
WaitTask(t, a) == Log("task-waiting", t, a, "waiting")

BlockTask(t, a) == Log("task-blocked", t, a, "blocked")

ResultStates == {"ok", "failed", "blocked"}

CompleteTask(t, a, status) ==
  /\ Found(t)
  /\ Log("task-result", t, a, IF status = "ok" THEN "done" ELSE status)

TaskflowNext ==
  \E t \in Ids :
    \/ CreateTask(t)
    \/ \E a \in Agents :
         \/ ClaimTask(t, a) \/ WaitTask(t, a) \/ BlockTask(t, a)
         \/ \E status \in ResultStates : CompleteTask(t, a, status)

TaskflowSpec == TaskflowInit /\ [][TaskflowNext]_events

----------------------------------------------------------------------------
TaskflowTypeOK == events \in Seq(Event)

\* The snapshot, as the map of TaskMap; lost where snapshot() throws.
StateMap == [t \in Ids |-> StateOf(t)]
AgentMap == [t \in Ids |-> AgentOf(t)]

Map == INSTANCE TaskMap WITH state <- StateMap, agent <- AgentMap

\* The log and its snapshot behave like a map from ids to a state and an agent,
\* until an inherited id has an event before it is created: an event of one task
\* never disturbs another, a claim never reopens a finished task, events of a task
\* that is not there are as good as none, and nothing but such an id takes the
\* snapshot away, for ever (taskflow.js:140, lib.rs:346).
ActsAsMap == Map!Spec
=============================================================================
