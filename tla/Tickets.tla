------------------------------ MODULE Tickets -------------------------------
(***************************************************************************)
(* The ticket store (src/tickets/lib/ticket-store.js).  The store is an    *)
(* append-only file of events; every operation takes the store's lock,     *)
(* replays the file, checks the ticket and appends one event.  The two     *)
(* operations that append several events under one lock, the               *)
(* reconciliation of a finished goal and the bulk transition, are jobs:    *)
(* their events are separate steps, and the process may die between them.  *)
(*                                                                         *)
(* The variables are the replayed snapshot.  That the lock excludes is the *)
(* subject of module Ledger, whose lock this store copies.                 *)
(***************************************************************************)
EXTENDS Naturals, FiniteSets

CONSTANTS
  Tickets,   \* ticket ids
  Agents,    \* agent ids
  Goals,     \* goal ids
  None       \* no agent, no goal, no ticket

\* What requireString and the validators of ids let through.
Ids == Tickets \cup Agents \cup Goals

ASSUME NoneAssumption == None \notin Ids

States == {"open", "in-progress", "review", "done", "archived"}

Transitions ==
  [ s \in States |->
      CASE s = "open"        -> {"in-progress", "archived"}
        [] s = "in-progress" -> {"review", "archived"}
        [] s = "review"      -> {"in-progress", "done"}
        [] s = "done"        -> {"in-progress", "archived"}
        [] s = "archived"    -> {"in-progress"} ]

VARIABLES
  state,        \* per ticket: its state, or "absent" before it is opened
  deps,         \* per ticket: dependsOn
  assignees,    \* per ticket: the set of its assignees
  primary,      \* per ticket: assignedTo, or None
  goal,         \* per ticket: the goal it is bound to, or None
  goalBlocked,  \* per ticket: goalBlockReason is set
  job           \* the operation of several events that holds the lock

vars == <<state, deps, assignees, primary, goal, goalBlocked, job>>

\* The optional texts of bulkTransition; an event that lacks its text fails.
Texts == {"comment", "reason", "resolution"}

\* The snapshot a job works through: the tickets left, with their states then.
Snapshots == UNION {[S -> States] : S \in SUBSET Tickets}

Job == [kind  : {"none", "done", "failed", "bulk"},  \* done, failed: a goal's end
        goal  : Goals \cup {None},
        to    : States,
        by    : Agents \cup {None},
        texts : SUBSET Texts,
        todo  : Snapshots,
        half  : Tickets \cup {None}]  \* in review, its reconciled event to come

NoJob == [kind |-> "none", goal |-> None, to |-> "open", by |-> None,
          texts |-> {}, todo |-> [t \in {} |-> "open"], half |-> None]

Existing == {t \in Tickets : state[t] # "absent"}

\* The states of the tickets of S, as a job's snapshot holds them.
StatesOf(S) == [t \in S |-> state[t]]

Left == DOMAIN job.todo

\* The snapshot without ticket t.
Without(t) == [u \in Left \ {t} |-> job.todo[u]]

\* S is closed under the dependencies D.
Closed(D, S) == \A t \in S : D[t] \subseteq S

\* The search from dep visits the smallest closed set that contains dep; the new
\* edge closes a cycle when start is in it.
WouldCycle(D, start, dep) ==
  \A S \in SUBSET Tickets : dep \in S /\ Closed(D, S) => start \in S

Init ==
  /\ state = [t \in Tickets |-> "absent"]
  /\ deps = [t \in Tickets |-> {}]
  /\ assignees = [t \in Tickets |-> {}]
  /\ primary = [t \in Tickets |-> None]
  /\ goal = [t \in Tickets |-> None]
  /\ goalBlocked = [t \in Tickets |-> FALSE]
  /\ job = NoJob
----------------------------------------------------------------------------
(* Operations of one event.                                                *)

Free == job.kind = "none"

Move(t, s) == state' = [state EXCEPT ![t] = s]

\* assertTransition
CanMove(t, s) == t \in Existing /\ s \in Transitions[state[t]]

\* Agent a is t's primary assignee from now on.
Appoint(t, a) ==
  /\ primary' = [primary EXCEPT ![t] = a]
  /\ assignees' = [assignees EXCEPT ![t] = @ \cup {a}]

\* The id must be new and every dependency must exist.
Open(t) ==
  /\ Free /\ t \notin Existing
  /\ \E D \in SUBSET Existing, a \in Agents \cup {None}, g \in Goals \cup {None} :
       /\ deps' = [deps EXCEPT ![t] = D]
       /\ primary' = [primary EXCEPT ![t] = a]
       /\ assignees' = [assignees EXCEPT ![t] = {a} \ {None}]
       /\ goal' = [goal EXCEPT ![t] = g]
  /\ Move(t, "open")
  /\ UNCHANGED <<goalBlocked, job>>

Assign(t, a) ==
  /\ Free /\ t \in Existing /\ state[t] # "archived"
  /\ Appoint(t, a)
  /\ UNCHANGED <<state, deps, goal, goalBlocked, job>>

Claim(t, a) ==
  /\ Free /\ state[t] = "open"
  /\ Move(t, "in-progress") /\ Appoint(t, a)
  /\ UNCHANGED <<deps, goal, goalBlocked, job>>

RequestReview(t) ==
  /\ Free /\ CanMove(t, "review")
  /\ Move(t, "review")
  /\ UNCHANGED <<deps, assignees, primary, goal, goalBlocked, job>>

ApproveReview(t) ==
  /\ Free /\ CanMove(t, "done")
  /\ Move(t, "done")
  /\ UNCHANGED <<deps, assignees, primary, goal, goalBlocked, job>>

RequestChanges(t) ==
  /\ Free /\ state[t] = "review"
  /\ Move(t, "in-progress")
  /\ UNCHANGED <<deps, assignees, primary, goal, goalBlocked, job>>

Close(t) ==
  /\ Free /\ CanMove(t, "archived")
  /\ Move(t, "archived")
  /\ UNCHANGED <<deps, assignees, primary, goal, goalBlocked, job>>

Reopen(t) ==
  /\ Free /\ state[t] \in {"done", "archived"}
  /\ Move(t, "in-progress")
  /\ UNCHANGED <<deps, assignees, primary, goal, goalBlocked, job>>

\* Mutation: the search looks for the edge in the other direction.
AddDependencySwapped(t, d) ==
  /\ Free /\ t # d /\ {t, d} \subseteq Existing
  /\ d \notin deps[t] /\ ~WouldCycle(deps, d, t)
  /\ deps' = [deps EXCEPT ![t] = @ \cup {d}]
  /\ UNCHANGED <<state, assignees, primary, goal, goalBlocked, job>>

AddDependency(t, d) ==
  /\ Free /\ t # d /\ {t, d} \subseteq Existing
  /\ d \notin deps[t] /\ ~WouldCycle(deps, t, d)
  /\ deps' = [deps EXCEPT ![t] = @ \cup {d}]
  /\ UNCHANGED <<state, assignees, primary, goal, goalBlocked, job>>

RemoveDependency(t, d) ==
  /\ Free /\ d \in deps[t]
  /\ deps' = [deps EXCEPT ![t] = @ \ {d}]
  /\ UNCHANGED <<state, assignees, primary, goal, goalBlocked, job>>

\* The first assignee of a ticket without one becomes its primary.
AddAssignee(t, a) ==
  /\ Free /\ t \in Existing /\ state[t] # "archived" /\ a \notin assignees[t]
  /\ assignees' = [assignees EXCEPT ![t] = @ \cup {a}]
  /\ primary' = [primary EXCEPT ![t] = IF @ = None THEN a ELSE @]
  /\ UNCHANGED <<state, deps, goal, goalBlocked, job>>

\* Mutation: the primary is left as it is.
RemoveAssigneeOnly(t, a) ==
  /\ Free /\ a \in assignees[t]
  /\ assignees' = [assignees EXCEPT ![t] = @ \ {a}]
  /\ UNCHANGED <<state, deps, primary, goal, goalBlocked, job>>

\* The primary's place goes to the assignee first in the list, here to any.
RemoveAssignee(t, a) ==
  /\ Free /\ a \in assignees[t]
  /\ assignees' = [assignees EXCEPT ![t] = @ \ {a}]
  /\ \/ primary[t] # a /\ UNCHANGED primary
     \/ primary[t] = a /\ \E b \in assignees[t] \ {a} :
                             primary' = [primary EXCEPT ![t] = b]
     \/ primary[t] = a /\ assignees[t] = {a} /\ primary' = [primary EXCEPT ![t] = None]
  /\ UNCHANGED <<state, deps, goal, goalBlocked, job>>

BindGoal(t, g) ==
  /\ Free /\ t \in Existing /\ goal[t] = None
  /\ goal' = [goal EXCEPT ![t] = g]
  /\ UNCHANGED <<state, deps, assignees, primary, goalBlocked, job>>

\* Mutation: the block of the goal goes with the goal.
UnbindGoalAndBlock(t) ==
  /\ Free /\ goal[t] # None
  /\ goal' = [goal EXCEPT ![t] = None]
  /\ goalBlocked' = [goalBlocked EXCEPT ![t] = FALSE]
  /\ UNCHANGED <<state, deps, assignees, primary, job>>

\* goalBlockReason stays.
UnbindGoal(t) ==
  /\ Free /\ goal[t] # None
  /\ goal' = [goal EXCEPT ![t] = None]
  /\ UNCHANGED <<state, deps, assignees, primary, goalBlocked, job>>

----------------------------------------------------------------------------
(* reconcileGoalCompletion: one or two events for each ticket of the goal. *)

ReconcileStart(g, verdict) ==
  /\ Free
  /\ job' = [NoJob EXCEPT !.kind = verdict, !.goal = g,
                          !.todo = StatesOf({t \in Existing : goal[t] = g})]
  /\ UNCHANGED <<state, deps, assignees, primary, goal, goalBlocked>>

\* Mutation: review is requested whatever the ticket's state.
ReconcileReviewAny(t) ==
  /\ job.kind = "done" /\ job.half = None /\ t \in Left
  /\ Move(t, "review") /\ job' = [job EXCEPT !.half = t]
  /\ UNCHANGED <<deps, assignees, primary, goal, goalBlocked>>

\* The first of the two events of a ticket in progress.
ReconcileReview(t) ==
  /\ job.kind = "done" /\ job.half = None /\ t \in Left
  /\ job.todo[t] = "in-progress"
  /\ Move(t, "review") /\ job' = [job EXCEPT !.half = t]
  /\ UNCHANGED <<deps, assignees, primary, goal, goalBlocked>>

\* Mutation: no event for a ticket that is not in progress.
ReconcileRecordTransitionsOnly(t) ==
  /\ job.kind \in {"done", "failed"} /\ t \in Left
  /\ job.kind = "done" =>
       job.half = t \/ (job.half = None /\ job.todo[t] # "in-progress")
  /\ goalBlocked' = IF job.kind = "done" /\ job.half = None THEN goalBlocked
                    ELSE [goalBlocked EXCEPT ![t] = (job.kind = "failed")]
  /\ job' = [job EXCEPT !.todo = Without(t), !.half = None]
  /\ UNCHANGED <<state, deps, assignees, primary, goal>>

\* The reconciled event; its replay sets or clears goalBlockReason.
ReconcileRecord(t) ==
  /\ job.kind \in {"done", "failed"} /\ t \in Left
  /\ job.kind = "done" =>
       job.half = t \/ (job.half = None /\ job.todo[t] # "in-progress")
  /\ goalBlocked' = [goalBlocked EXCEPT ![t] = (job.kind = "failed")]
  /\ job' = [job EXCEPT !.todo = Without(t), !.half = None]
  /\ UNCHANGED <<state, deps, assignees, primary, goal>>

----------------------------------------------------------------------------
(* bulkTransition: one event for each ticket of the filter, or a failure.  *)

\* The texts the events from state s to the target need.
Needed(s, to) ==
  CASE to = "in-progress" /\ s = "review"               -> {"comment"}
    [] to = "in-progress" /\ s \in {"done", "archived"} -> {"reason"}
    [] to = "archived"                                  -> {"resolution"}
    [] OTHER                                            -> {}

\* list(filter): status, assignee, priority, goal, age and blocked choose tickets.
Lists == SUBSET Existing

\* Texts that no event to the target needs are ignored.
BulkStart(to, by, texts) ==
  /\ Free
  /\ \E S \in Lists :
       job' = [NoJob EXCEPT !.kind = "bulk", !.to = to, !.by = by, !.texts = texts,
                            !.todo = StatesOf(S)]
  /\ UNCHANGED <<state, deps, assignees, primary, goal, goalBlocked>>

TextsFor(to) == UNION {Needed(s, to) : s \in States}

BulkAllowed(t) ==
  /\ job.to \in Transitions[job.todo[t]]
  /\ Needed(job.todo[t], job.to) \subseteq job.texts

BulkMove(t) ==
  /\ job.kind = "bulk" /\ t \in Left /\ BulkAllowed(t)
  /\ Move(t, job.to)
  /\ IF job.todo[t] = "open" /\ job.to = "in-progress"
     THEN Appoint(t, job.by) ELSE UNCHANGED <<assignees, primary>>
  /\ job' = [job EXCEPT !.todo = Without(t)]
  /\ UNCHANGED <<deps, goal, goalBlocked>>

\* The ticket is not allowed to move, or its append throws; either way it is
\* reported in the failed list and the others are gone on with.
BulkFail(t) ==
  /\ job.kind = "bulk" /\ t \in Left
  /\ job' = [job EXCEPT !.todo = Without(t)]
  /\ UNCHANGED <<state, deps, assignees, primary, goal, goalBlocked>>

\* The job returns and releases the lock.
JobReturns ==
  /\ ~Free /\ Left = {}
  /\ job' = NoJob
  /\ UNCHANGED <<state, deps, assignees, primary, goal, goalBlocked>>

\* A reconciliation's append throws, or the process dies and its lock is broken.
JobDies ==
  /\ ~Free
  /\ job' = NoJob
  /\ UNCHANGED <<state, deps, assignees, primary, goal, goalBlocked>>

----------------------------------------------------------------------------
Next ==
  \/ \E t \in Tickets :
       \/ Open(t) \/ RequestReview(t) \/ ApproveReview(t) \/ RequestChanges(t)
       \/ Close(t) \/ Reopen(t) \/ UnbindGoal(t)
       \/ ReconcileReview(t) \/ ReconcileRecord(t) \/ BulkMove(t) \/ BulkFail(t)
  \/ \E t \in Tickets, a \in Agents :
       Assign(t, a) \/ Claim(t, a) \/ AddAssignee(t, a) \/ RemoveAssignee(t, a)
  \/ \E t, d \in Tickets : AddDependency(t, d) \/ RemoveDependency(t, d)
  \/ \E t \in Tickets, g \in Goals : BindGoal(t, g)
  \/ \E g \in Goals, verdict \in {"done", "failed"} : ReconcileStart(g, verdict)
  \/ \E to \in States, by \in Agents : \E texts \in SUBSET TextsFor(to) : BulkStart(to, by, texts)
  \/ JobReturns \/ JobDies

Spec == Init /\ [][Next]_vars

----------------------------------------------------------------------------
(* Properties.                                                             *)

TypeOK ==
  /\ state \in [Tickets -> States \cup {"absent"}]
  /\ deps \in [Tickets -> SUBSET Existing]
  /\ assignees \in [Tickets -> SUBSET Agents]
  /\ primary \in [Tickets -> Agents \cup {None}]
  /\ goal \in [Tickets -> Goals \cup {None}]
  /\ goalBlocked \in [Tickets -> BOOLEAN]
  /\ job \in Job

\* Every nonempty set of tickets has one that depends on none of the set.
Acyclic(D) == \A S \in SUBSET Tickets : S # {} => \E t \in S : D[t] \cap S = {}

\* "Cycles" are rejected (docs/ticketing.md): however dependencies are given at
\* open, added and removed, the dependency graph has no cycle of any length.
DependenciesAcyclic == Acyclic(deps)

\* A ticket with assignees has one of them as its primary, a ticket without has
\* none, whatever mix of assign, claim, bulk claim, add and remove led there.
PrimaryIsAssignee ==
  \A t \in Tickets : IF assignees[t] = {} THEN primary[t] = None
                                          ELSE primary[t] \in assignees[t]

\* No operation, the reconciliation of a goal and the bulk transition included,
\* moves a ticket along an edge that is not in TRANSITIONS.
FollowsTransitions ==
  [][\A t \in Tickets :
       state'[t] # state[t] =>
         IF t \in Existing THEN state'[t] \in Transitions[state[t]]
                           ELSE state'[t] = "open"]_vars

\* When the reconciliation of a done goal has gone through its tickets, every one
\* of them is out of progress and unblocked by goals, also those a reconciliation
\* that died half way had left in review with an old goalBlockReason.
GoalDoneSettles ==
  job.kind = "done" /\ Left = {} =>
    \A t \in Existing :
      goal[t] = job.goal => state[t] # "in-progress" /\ ~goalBlocked[t]

\* goalBlockReason is set and cleared by the reconciliation of the goal the ticket
\* is bound to at that very time: no edit of the ticket lifts it, an unbound ticket
\* keeps it, and the end of a goal the ticket has left does not touch it.
GoalBlockOfTheBound ==
  [][\A t \in Tickets :
       goalBlocked'[t] # goalBlocked[t] =>
         /\ job.kind = IF goalBlocked[t] THEN "done" ELSE "failed"
         /\ goal[t] = job.goal /\ goal'[t] = job.goal]_vars
=============================================================================
