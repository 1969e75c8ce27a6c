------------------------------- MODULE Ledger -------------------------------
(***************************************************************************)
(* The append-only blackboard ledger (src/blackboard/lib/ledger.js and its *)
(* twin crates/openclaw-blackboard): several processes append to one file  *)
(* under a directory lock, and path-claims are checked against a snapshot  *)
(* of the file before they are appended.  A process may die at any point;  *)
(* a lock whose directory is older than staleLockMs is removed by whoever  *)
(* waits for it.                                                           *)
(***************************************************************************)
EXTENDS Naturals, Sequences, FiniteSets

CONSTANTS
  Procs,      \* the processes that open the ledger
  Holders,    \* the (agent, taskId) pairs claims are made for
  Paths,      \* the normalized paths
  Nobody,     \* no holder, no process
  MaxCalls,   \* bound: calls per process
  MaxCrashes  \* bound: processes that die

ASSUME NobodyAssumption == Nobody \notin Holders /\ Nobody \notin Procs
ASSUME RecordAssumption == Holders # {} /\ Paths # {}

Record == [kind : {"path-claim", "path-release"}, who : Holders, path : Paths]

Pc == {"idle", "try", "break", "owner", "locked", "append", "unlock"}

VARIABLES
  log,      \* the records of the file
  lock,     \* the lock directory: the process that made it, or Nobody
  stale,    \* the directory is older than staleLockMs
  pc, call, \* per process: where it is, and the record it wants to append
  expired,  \* per process: it has waited longer than lockTimeoutMs
  calls, dead

vars == <<log, lock, stale, pc, call, expired, calls, dead>>

----------------------------------------------------------------------------
(* snapshot(): a claim replaces whatever claim the path had; a release      *)
(* removes the claim it names, and nothing if the path has another one.     *)

ClaimsIn(s, q) == {i \in DOMAIN s : s[i].kind = "path-claim" /\ s[i].path = q}

IsLastClaim(s, q, i) == i \in ClaimsIn(s, q) /\ \A j \in ClaimsIn(s, q) : j <= i

IsReleased(s, q, i) ==
  \E j \in DOMAIN s :
    j > i /\ s[j] = [kind |-> "path-release", who |-> s[i].who, path |-> q]

\* pathClaims[q] of the snapshot of a file with the records s.
HolderIn(s, q) ==
  IF \E i \in DOMAIN s : IsLastClaim(s, q, i) /\ ~IsReleased(s, q, i)
  THEN s[CHOOSE i \in DOMAIN s : IsLastClaim(s, q, i)].who
  ELSE Nobody

HolderOf(q) == HolderIn(log, q)

Init ==
  /\ log = <<>> /\ lock = Nobody /\ stale = FALSE
  /\ pc = [p \in Procs |-> "idle"]
  /\ call \in [Procs -> {CHOOSE r \in Record : TRUE}]
  /\ expired = [p \in Procs |-> FALSE]
  /\ calls = [p \in Procs |-> 0] /\ dead = {}

----------------------------------------------------------------------------
(* withLedgerLock                                                          *)

Goto(p, l) == pc' = [pc EXCEPT ![p] = l]

At(p, l) == pc[p] = l /\ p \notin dead

\* claimPath or releasePath is called.
Call(p) ==
  /\ At(p, "idle") /\ calls[p] < MaxCalls
  /\ \E r \in Record : call' = [call EXCEPT ![p] = r]
  /\ calls' = [calls EXCEPT ![p] = @ + 1]
  /\ expired' = [expired EXCEPT ![p] = FALSE]
  /\ Goto(p, "try")
  /\ UNCHANGED <<log, lock, stale, dead>>

\* mkdir succeeds.
TakeLock(p) ==
  /\ At(p, "try") /\ lock = Nobody
  /\ lock' = p /\ stale' = FALSE
  /\ Goto(p, "owner")
  /\ UNCHANGED <<log, call, expired, calls, dead>>

\* mkdir fails with EEXIST and stat shows a directory older than staleLockMs.
SeeStale(p) ==
  /\ At(p, "try") /\ lock # Nobody /\ stale
  /\ Goto(p, "break")
  /\ UNCHANGED <<log, lock, stale, call, expired, calls, dead>>

\* Mutation: the removal of the stale directory fails and is ignored.
BreakNothing(p) ==
  /\ At(p, "break")
  /\ Goto(p, "try")
  /\ UNCHANGED <<log, lock, stale, call, expired, calls, dead>>

\* The directory there is by now is removed, and the loop tries mkdir again.
Break(p) ==
  /\ At(p, "break")
  /\ lock' = Nobody /\ stale' = FALSE
  /\ Goto(p, "try")
  /\ UNCHANGED <<log, call, expired, calls, dead>>

\* Mutation: a waiter whose time is over breaks the lock instead of throwing.
GiveUpByBreaking(p) ==
  /\ At(p, "try") /\ lock # Nobody /\ ~stale /\ expired[p]
  /\ Goto(p, "break")
  /\ UNCHANGED <<log, lock, stale, call, expired, calls, dead>>

\* mkdir fails, the lock is not stale and lockTimeoutMs is over.
GiveUp(p) ==
  /\ At(p, "try") /\ lock # Nobody /\ ~stale /\ expired[p]
  /\ Goto(p, "idle")
  /\ UNCHANGED <<log, lock, stale, call, expired, calls, dead>>

\* owner.json is written into the directory; it throws if the directory is gone.
WriteOwner(p) ==
  /\ At(p, "owner")
  /\ Goto(p, IF lock = Nobody THEN "idle" ELSE "locked")
  /\ UNCHANGED <<log, lock, stale, call, expired, calls, dead>>

\* Mutation: claimPath is a plain append.
CheckNothing(p) ==
  /\ At(p, "locked")
  /\ Goto(p, "append")
  /\ UNCHANGED <<log, lock, stale, call, expired, calls, dead>>

\* claimPath reads a snapshot and throws if another holder has the path; the
\* callers that only append go straight on.
CheckClaim(p) ==
  /\ At(p, "locked")
  /\ Goto(p, IF /\ call[p].kind = "path-claim"
                /\ HolderOf(call[p].path) \notin {Nobody, call[p].who}
             THEN "unlock" ELSE "append")
  /\ UNCHANGED <<log, lock, stale, call, expired, calls, dead>>

\* appendUnlocked: one write to a file opened for appending.
AppendRecord(p) ==
  /\ At(p, "append")
  /\ log' = Append(log, call[p])
  /\ Goto(p, "unlock")
  /\ UNCHANGED <<lock, stale, call, expired, calls, dead>>

\* The finally clause removes the lock directory, whosever it is.
Unlock(p) ==
  /\ At(p, "unlock")
  /\ lock' = Nobody /\ stale' = FALSE
  /\ Goto(p, "idle")
  /\ UNCHANGED <<log, call, expired, calls, dead>>

----------------------------------------------------------------------------
(* Time and crashes.  A live process is out of the critical section, a few  *)
(* file operations, long before staleLockMs (30 s) is over: only the lock   *)
(* of a dead process grows stale.                                           *)

Expire(p) ==
  /\ At(p, "try") /\ ~expired[p]
  /\ expired' = [expired EXCEPT ![p] = TRUE]
  /\ UNCHANGED <<log, lock, stale, pc, call, calls, dead>>

GrowStale ==
  /\ lock \in dead /\ ~stale
  /\ stale' = TRUE
  /\ UNCHANGED <<log, lock, pc, call, expired, calls, dead>>

Crash(p) ==
  /\ p \notin dead /\ Cardinality(dead) < MaxCrashes
  /\ dead' = dead \cup {p}
  /\ Goto(p, "idle")
  /\ UNCHANGED <<log, lock, stale, call, expired, calls>>

Step(p) ==
  \/ TakeLock(p) \/ SeeStale(p) \/ Break(p) \/ GiveUp(p)
  \/ WriteOwner(p) \/ CheckClaim(p) \/ AppendRecord(p) \/ Unlock(p)

Next ==
  \/ \E p \in Procs : Call(p) \/ Step(p) \/ Expire(p) \/ Crash(p)
  \/ GrowStale

\* A live process keeps running its call, and the clock keeps running.
Fairness == \A p \in Procs : WF_vars(Step(p)) /\ WF_vars(Expire(p))

Spec == Init /\ [][Next]_vars /\ Fairness

----------------------------------------------------------------------------
(* Properties.                                                             *)

TypeOK ==
  /\ log \in Seq(Record)
  /\ lock \in Procs \cup {Nobody} /\ stale \in BOOLEAN
  /\ pc \in [Procs -> Pc] /\ call \in [Procs -> Record]
  /\ expired \in [Procs -> BOOLEAN]
  /\ calls \in [Procs -> Nat]
  /\ dead \in SUBSET Procs

InLock == {"locked", "append", "unlock"}

\* "Mutual exclusion is provided by an atomic mkdir lock"
\* (crates/openclaw-blackboard/src/lib.rs): two processes are never both between
\* the acquisition of the ledger lock and its release.
MutualExclusion ==
  \A p, q \in Procs : pc[p] \in InLock /\ pc[q] \in InLock => p = q

\* The lock excludes as long as no process has died: a lock directory is removed
\* only by the process that made it, however many processes contend and whatever
\* timeouts fire.
ExclusionUntilCrash == dead = {} => MutualExclusion

\* The claims of the file, as the locks of PathLocks.
Owner == [q \in Paths |-> HolderOf(q)]

PL == INSTANCE PathLocks WITH owner <- Owner

\* Until a process dies the path-claims of the file behave as exclusive locks: a
\* claim is appended only for a path that is free or already the claimant's, and a
\* path becomes free only by its holder's release, though check and append are
\* separate steps and other processes call, wait and time out in between.
PathLocksUntilCrash == PL!Init /\ [][dead = {} => PL!Next]_Owner

\* Every call returns, with a record, a conflict or a timeout, unless its process
\* dies: a lock left by a dead process blocks nobody for ever.
CallReturns ==
  \A p \in Procs : (pc[p] # "idle") ~> (pc[p] = "idle")
=============================================================================
