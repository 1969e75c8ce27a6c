----------------------------- MODULE Blackboard ------------------------------
(***************************************************************************)
(* The records of the shared ledger as its readers see them: an append-only *)
(* sequence of task claims, results, decisions and usage facts.  Every      *)
(* append is one atomic step here; Ledger.tla checks the lock behind it.    *)
(***************************************************************************)
EXTENDS Integers, Sequences

CONSTANTS
  Tasks,     \* task ids
  Roles,     \* agent roles
  Daemons,   \* processes of openclaw-agent
  Caller,    \* a coordinator or a parent of subagents, as a writer
  External   \* any other writer of the ledger

\* The role the coordinators sign their claims with.
CONSTANT Orchestrator

ASSUME WritersAssumption ==
  Caller \notin Daemons /\ External \notin Daemons /\ Caller # External
ASSUME RolesAssumption == Orchestrator \in Roles

VARIABLE log

(***************************************************************************)
(* role: where a claim is routed, or the agent of any other record.         *)
(* proc, life, read: history; the process that wrote the record, how often  *)
(* it was started, and the length of the ledger in the read it acted on.    *)
(***************************************************************************)
Record ==
  [kind : {"task-claim", "result", "blocked", "usage", "signature"},
   task : Tasks, role : Roles, ok : BOOLEAN,
   proc : Daemons \cup {Caller, External}, life : Nat, read : Nat]

\* A claim is routed to its forRole, or to the agent that wrote it.
ClaimFor(t, r) ==
  [kind |-> "task-claim", task |-> t, role |-> r, ok |-> TRUE,
   proc |-> External, life |-> 0, read |-> 0]

ResultBy(who, t, r, ok) ==
  [kind |-> "result", task |-> t, role |-> r, ok |-> ok,
   proc |-> who, life |-> 0, read |-> 0]

Write(rec) == log' = Append(log, rec)

\* snapshot().results that belong to t, as places of the log.
ResultsOf(t) == {i \in DOMAIN log : log[i].kind = "result" /\ log[i].task = t}

Answered(t) == ResultsOf(t) # {}

\* results.find(...)
FirstResult(t) == log[CHOOSE i \in ResultsOf(t) : \A j \in ResultsOf(t) : i <= j]

\* seen.set(...) over the results in order
LastResult(t) == log[CHOOSE i \in ResultsOf(t) : \A j \in ResultsOf(t) : j <= i]

ClaimsOf(t, r) ==
  {i \in DOMAIN log : log[i].kind = "task-claim" /\ log[i].task = t
                        /\ log[i].role = r}
=============================================================================
