-------------------------------- MODULE Cron --------------------------------
(***************************************************************************)
(* The cron daemon (bin/openclaw-cron) and its scheduler                   *)
(* (cron/lib/scheduler.js).  A daemon loads the last-run map once, when it *)
(* starts; each of its ticks takes the tick lock, computes the due jobs,   *)
(* appends a claim and a fact for each to the ledger, and saves the map.   *)
(* Appends may fail, daemons stop, die at any step and are started again.  *)
(*                                                                         *)
(* Time is counted in minutes from 1, the grain of a schedule; ticks come  *)
(* at any minutes.  A lock left by a dead daemon becomes stale; a tick     *)
(* itself is taken to last less than STALE_LOCK_MS, five minutes.          *)
(***************************************************************************)
EXTENDS Naturals

CONSTANTS
  Daemons,      \* the processes that run openclaw-cron on one state file
  Jobs,         \* the jobs of jobs.json
  Schedule,     \* per job: the minutes that match its schedule
  Nobody,       \* no daemon, no job
  MaxTime,      \* bound: the last minute
  MaxCrashes,   \* bound: daemons that die in a tick
  MaxStops,     \* bound: daemons that stop between two ticks
  MaxFailures   \* bound: writes that fail

Minutes == 1 .. MaxTime

ASSUME NobodyAssumption == Nobody \notin Daemons \cup Jobs
\* A cron expression that parses stands for the minutes it matches.
Schedules == [Jobs -> SUBSET Minutes]

ASSUME ScheduleAssumption == MaxTime \in Nat \ {0} /\ Schedule \in Schedules

Pc == {"down", "idle", "break", "dispatch", "fact", "save", "release"}

Never == 0  \* no entry in a last-run map

VARIABLES
  now,         \* the minute of the wall clock
  pc,          \* per daemon: where it is
  lastRun,     \* per daemon: its lastRunMap
  due,         \* per daemon: the due jobs it has not gone through, with dueAt
  cur,         \* per daemon: the job whose claim has been appended, or Nobody
  dispatched,  \* per daemon: the jobs dispatched by this tick, with dueAt
  file,        \* the state file .last-run.json
  lock,        \* the tick lock: the daemon that made it, or Nobody
  stale,       \* the lock is older than STALE_LOCK_MS
  claims,      \* ledger: the number of claims of a job's slot
  facts,       \* ledger: per job, the slots that have their fact
  crashes, stops, failures

ledger == <<claims, facts>>
counts == <<crashes, stops, failures>>
vars == <<now, pc, lastRun, due, cur, dispatched, file, lock, stale, ledger, counts>>

LastRuns == [Jobs -> 0 .. MaxTime]

\* Lists of jobs with their dueAt.
DueLists == UNION {[S -> Minutes] : S \in SUBSET Jobs}

Empty == [j \in {} |-> 1]

----------------------------------------------------------------------------
(* scheduler.js                                                            *)

\* nextRun: s is the first slot of job j after minute m.
IsNextRun(j, m, s) ==
  /\ s \in Schedule[j] /\ s > m
  /\ \A u \in Schedule[j] : u > m => s <= u

\* Mutation: always one minute back.
SinceOneMinute(map, j) == now - 1

\* A job that never ran is treated as if it had run one minute ago.
Since(map, j) == IF map[j] = Never THEN now - 1 ELSE map[j]

IsDue(map, j, s) == IsNextRun(j, Since(map, j), s) /\ s <= now

\* tick: at most one slot of each job, the earliest it has not run.
DueJobs(map) ==
  LET J == {j \in Jobs : \E s \in Minutes : IsDue(map, j, s)}
  IN  [j \in J |-> CHOOSE s \in Minutes : IsDue(map, j, s)]

----------------------------------------------------------------------------
Init ==
  /\ now = 1
  /\ pc = [p \in Daemons |-> "down"]
  /\ lastRun = [p \in Daemons |-> [j \in Jobs |-> Never]]
  /\ due = [p \in Daemons |-> Empty]
  /\ cur = [p \in Daemons |-> Nobody]
  /\ dispatched = [p \in Daemons |-> Empty]
  /\ file = [j \in Jobs |-> Never]
  /\ lock = Nobody /\ stale = FALSE
  /\ claims = [j \in Jobs |-> [s \in Minutes |-> 0]]
  /\ facts = [j \in Jobs |-> {}]
  /\ crashes = 0 /\ stops = 0 /\ failures = 0

Goto(p, l) == pc' = [pc EXCEPT ![p] = l]

\* loadState, before the first tick and outside the lock.
Start(p) ==
  /\ pc[p] = "down"
  /\ lastRun' = [lastRun EXCEPT ![p] = file]
  /\ Goto(p, "idle")
  /\ UNCHANGED <<now, due, cur, dispatched, file, lock, stale, ledger, counts>>

\* mkdir succeeds, and the due jobs are computed.  (A tick that finds a lock that
\* is not stale is skipped and changes nothing.)
BeginTick(p) ==
  /\ pc[p] = "idle" /\ lock = Nobody
  /\ lock' = p /\ stale' = FALSE
  /\ due' = [due EXCEPT ![p] = DueJobs(lastRun[p])]
  /\ Goto(p, "dispatch")
  /\ UNCHANGED <<now, lastRun, cur, dispatched, file, ledger, counts>>

\* mkdir fails with EEXIST, and stat shows a lock older than STALE_LOCK_MS.
SeeStale(p) ==
  /\ pc[p] = "idle" /\ lock # Nobody /\ stale
  /\ Goto(p, "break")
  /\ UNCHANGED <<now, lastRun, due, cur, dispatched, file, lock, stale, ledger, counts>>

\* Mutation: the stale lock stays.
BreakNothing(p) ==
  /\ pc[p] = "break"
  /\ Goto(p, "idle")
  /\ UNCHANGED <<now, lastRun, due, cur, dispatched, file, lock, stale, ledger, counts>>

\* The lock directory is removed, and mkdir is tried again.
Break(p) ==
  /\ pc[p] = "break"
  /\ lock' = Nobody /\ stale' = FALSE
  /\ Goto(p, "idle")
  /\ UNCHANGED <<now, lastRun, due, cur, dispatched, file, ledger, counts>>

----------------------------------------------------------------------------
(* dispatchDue: a claim and a fact for each due job.                       *)

\* The due list of p without job j.
DueWithout(p, j) == [i \in DOMAIN due[p] \ {j} |-> due[p][i]]

Fails == failures < MaxFailures /\ failures' = failures + 1

Claim(p) ==
  /\ pc[p] = "dispatch"
  /\ \E j \in DOMAIN due[p] :
       /\ cur' = [cur EXCEPT ![p] = j]
       /\ claims' = [claims EXCEPT ![j][due[p][j]] = @ + 1]
  /\ Goto(p, "fact")
  /\ UNCHANGED <<now, lastRun, due, dispatched, file, lock, stale, facts, counts>>

\* claimTask throws; the job is left for a later tick.
ClaimFails(p) ==
  /\ pc[p] = "dispatch" /\ Fails
  /\ \E j \in DOMAIN due[p] : due' = [due EXCEPT ![p] = DueWithout(p, j)]
  /\ UNCHANGED <<now, pc, lastRun, cur, dispatched, file, lock, stale, ledger, crashes, stops>>

Fact(p) ==
  /\ pc[p] = "fact"
  /\ LET j == cur[p]  s == due[p][j] IN
       /\ facts' = [facts EXCEPT ![j] = @ \cup {s}]
       /\ dispatched' = [dispatched EXCEPT ![p] =
                           [i \in DOMAIN @ \cup {j} |-> IF i = j THEN s ELSE @[i]]]
       /\ due' = [due EXCEPT ![p] = DueWithout(p, j)]
  /\ cur' = [cur EXCEPT ![p] = Nobody]
  /\ Goto(p, "dispatch")
  /\ UNCHANGED <<now, lastRun, file, lock, stale, claims, counts>>

\* recordFact throws after the claim was appended; the job is not dispatched.
FactFails(p) ==
  /\ pc[p] = "fact" /\ Fails
  /\ due' = [due EXCEPT ![p] = DueWithout(p, cur[p])]
  /\ cur' = [cur EXCEPT ![p] = Nobody]
  /\ Goto(p, "dispatch")
  /\ UNCHANGED <<now, lastRun, dispatched, file, lock, stale, ledger, crashes, stops>>

----------------------------------------------------------------------------
(* The end of a tick.                                                      *)

\* Mutation: the map in memory is left as it was loaded.
RecordNothing(p) ==
  /\ pc[p] = "dispatch" /\ DOMAIN due[p] = {}
  /\ Goto(p, "save")
  /\ UNCHANGED <<now, lastRun, due, cur, dispatched, file, lock, stale, ledger, counts>>

\* lastRunMap.set for what was dispatched.
Record(p) ==
  /\ pc[p] = "dispatch" /\ DOMAIN due[p] = {}
  /\ lastRun' = [lastRun EXCEPT ![p] =
                   [j \in Jobs |-> IF j \in DOMAIN dispatched[p] THEN dispatched[p][j]
                                   ELSE @[j]]]
  /\ Goto(p, "save")
  /\ UNCHANGED <<now, due, cur, dispatched, file, lock, stale, ledger, counts>>

\* saveState, atomic by rename; a failure is logged and forgotten.
Save(p) ==
  /\ pc[p] = "save"
  /\ \/ file' = lastRun[p] /\ UNCHANGED failures
     \/ Fails /\ UNCHANGED file
  /\ Goto(p, "release")
  /\ UNCHANGED <<now, lastRun, due, cur, dispatched, lock, stale, ledger, crashes, stops>>

\* releaseLock removes whatever lock there is.
Release(p) ==
  /\ pc[p] = "release"
  /\ lock' = Nobody /\ stale' = FALSE
  /\ dispatched' = [dispatched EXCEPT ![p] = Empty]
  /\ Goto(p, "idle")
  /\ UNCHANGED <<now, lastRun, due, cur, file, ledger, counts>>

----------------------------------------------------------------------------
(* The environment.                                                        *)

\* A signal between two ticks, or the end of a --once process.
Stop(p) ==
  /\ pc[p] = "idle" /\ stops < MaxStops
  /\ stops' = stops + 1
  /\ Goto(p, "down")
  /\ UNCHANGED <<now, lastRun, due, cur, dispatched, file, lock, stale, ledger, crashes, failures>>

\* A daemon dies in its tick; its lock stays.
Crash(p) ==
  /\ pc[p] \notin {"down", "idle"} /\ crashes < MaxCrashes
  /\ crashes' = crashes + 1
  /\ due' = [due EXCEPT ![p] = Empty]
  /\ cur' = [cur EXCEPT ![p] = Nobody]
  /\ dispatched' = [dispatched EXCEPT ![p] = Empty]
  /\ Goto(p, "down")
  /\ UNCHANGED <<now, lastRun, file, lock, stale, ledger, stops, failures>>

\* Nobody is in the tick the lock was made for.
LockIsLeft == lock # Nobody /\ pc[lock] \in {"down", "idle", "break"}

GrowStale ==
  /\ LockIsLeft /\ ~stale
  /\ stale' = TRUE
  /\ UNCHANGED <<now, pc, lastRun, due, cur, dispatched, file, lock, ledger, counts>>

PassTime ==
  /\ now < MaxTime
  /\ now' = now + 1
  /\ UNCHANGED <<pc, lastRun, due, cur, dispatched, file, lock, stale, ledger, counts>>

Step(p) ==
  \/ Start(p) \/ BeginTick(p) \/ SeeStale(p) \/ Break(p)
  \/ Claim(p) \/ ClaimFails(p) \/ Fact(p) \/ FactFails(p)
  \/ Record(p) \/ Save(p) \/ Release(p)

Next ==
  \/ \E p \in Daemons : Step(p) \/ Stop(p) \/ Crash(p)
  \/ GrowStale \/ PassTime

\* The supervisor starts a daemon again and its loop goes on ticking; time passes.
\* Nothing makes daemons stop or die.
Fairness ==
  /\ \A p \in Daemons : WF_vars(Step(p))
  /\ WF_vars(GrowStale) /\ WF_vars(PassTime)

Spec == Init /\ [][Next]_vars /\ Fairness

----------------------------------------------------------------------------
(* Properties.                                                             *)

\* What is recorded as run is a slot of the job's schedule, never another minute.
TypeOK ==
  /\ now \in Minutes /\ pc \in [Daemons -> Pc]
  /\ lastRun \in [Daemons -> LastRuns] /\ file \in LastRuns
  /\ \A p \in Daemons, j \in Jobs :
       {lastRun[p][j], file[j]} \subseteq Schedule[j] \cup {Never}
  /\ due \in [Daemons -> DueLists] /\ dispatched \in [Daemons -> DueLists]
  /\ cur \in [Daemons -> Jobs \cup {Nobody}]
  /\ lock \in Daemons \cup {Nobody} /\ stale \in BOOLEAN
  /\ claims \in [Jobs -> [Minutes -> Nat]] /\ facts \in [Jobs -> SUBSET Minutes]
  /\ crashes \in Nat /\ stops \in Nat /\ failures \in Nat

\* With one daemon a slot is claimed once, and once more at most for each death in
\* a tick and each failed write: neither clean restarts nor a backlog of missed
\* slots fire a slot twice.
DuplicatesAreCaused ==
  \A j \in Jobs, s \in Minutes : claims[j][s] <= 1 + crashes + failures

\* A slot that the state file has recorded has both of its records on the ledger:
\* no claim is left without the fact that carries its body.
RecordedSlotIsComplete ==
  \A j \in Jobs : file[j] # Never => claims[j][file[j]] > 0 /\ file[j] \in facts[j]

\* With one daemon the state file never goes back and skips no slot: those it
\* passes all have their facts, over crashes, restarts and failed writes.
StateFileSkipsNothing ==
  [][\A j \in Jobs :
       file[j] # Never =>
         /\ file'[j] >= file[j]
         /\ {s \in Schedule[j] : file[j] < s /\ s <= file'[j]} \subseteq facts[j]]_file

\* Once a job has a record, every later slot of its schedule is dispatched sooner
\* or later, also those missed while the daemon was down.
CatchesUp ==
  \A j \in Jobs : \A s \in Schedule[j] :
    (file[j] # Never /\ file[j] < s) ~> file[j] >= s

\* "Two concurrent tickers cannot double-fire a job" (bin/openclaw-cron:14).
TickersNeverDoubleFire == \A j \in Jobs, s \in Minutes : claims[j][s] <= 1
=============================================================================
