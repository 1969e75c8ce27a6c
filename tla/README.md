# TLA+ specifications of the OpenClaw frontier stack

The stack runs *goals*: an orchestrator splits a goal into lanes, writes one
claim per lane on a shared append-only ledger (the blackboard), agents answer
the claims with results, and the orchestrator applies each lane's failure policy
until it can call the goal done, failed, aborted or cancelled. Around it stand
the coordination patterns, a ticket store, a cron daemon, a webhook, event
hooks, a signed message bus, an installer and a release gate. All of them are
separate operating-system processes that share files and little else. These
modules specify that machinery, check it with TLC on small instances, and prove
the main results with TLAPS for every value of the constants.

`PROJECT.json` lists the components, the runs with their properties, the mutants
that show each property can fail, the source lines behind every definition, the
hazards and the theorems. Paths below are relative to the repository root; G is
`src/orchestrator/lib/goal-loop.js`.

## Inventory

| component | source | state it keeps | operations | modelled |
|---|---|---|---|---|
| goal loop, goal state | `src/orchestrator/lib/` | in memory: outcomes, retry counts, fallbacks used; on disk: `goals/<id>.json` | run, resume, dispatch, poll, retry, fallback, abort, cancel, synthesize | all but read-only reports |
| sub-goals, cost | the same files | `goals/sub/<parent>/<id>.json`, the goal's `costEvents` | run each sub-goal, record it, fold usage facts | yes |
| ledger | `src/blackboard/lib/ledger.js`, `crates/openclaw-blackboard` | one JSONL file, a lock directory | claim, result, fact, decision, path-claims, snapshot | all but the public-safety scan |
| agent daemon | `bin/openclaw-agent` | processed task ids, in memory | poll, call the model, usage fact, result, signature or blocked decision | yes |
| coordination | `lib/coordination/` | none but the ledger | fan-out, fan-in, chain, voting, subagents | yes |
| tickets | `src/tickets/lib/ticket-store.js` | one JSONL file, a lock directory | life cycle, dependencies, assignees, goals, bulk moves, service clock | all but watchers, attachments |
| cron | `bin/openclaw-cron`, `cron/lib/scheduler.js` | last-run map in memory and on disk, a lock directory | tick, dispatch, save | yes |
| webhook | `bin/openclaw-webhook`, `webhook/lib/` | requests in flight, the ledger | match, verify, transform, claim, fact, answer, stop | yes |
| event hooks | `lib/hooks/` | allowlist and configuration files | dispatch, consent, spawn, time out, edit | yes |
| taskflow | `src/taskflow/lib/taskflow.js`, `crates/openclaw-taskflow` | event list | create, claim, wait, block, complete, snapshot | yes |
| signed bus | `src/signed-bus/lib/`, `crates/openclaw-envelope*` | seen ids, key caches, consumers | sign, publish, subscribe, verify, acknowledge | yes; key encodings are not |
| installer | `integration/agent-host/lib/install-lib.js` | an agent host's home: links, copies, shims, manifest, key | install, uninstall | yes |
| mutation sweep | `lib/grading/mutation-runner.js`, `mutations.js` | the working tree, snapshots in memory | apply, verify, revert, check the hash | yes |
| the rest | see "Not modelled" | | | no |

How they interact: the goal loop, cron, the webhook and the coordinators write
task-claims; agents poll the ledger and write results, facts and decisions; the
CLI writes cancel-requests; the goal loop asks hooks before it starts a goal or
dispatches a lane; the ticket store is told when a goal it is bound to ends.
Nothing is pushed except on the signed bus: everything else is a poll of a file
under a directory lock.

What is hard, and what makes each component right:

- *Goal loop.* Crashes between any two writes, resumes, reruns under one id,
  results that come late, twice or never, vetoes, a cancel at any moment,
  retries and fallbacks of several lanes in one loop. Green is earned, recovery
  is justified and bounded, the last attempt decides, a finished state is final.
- *Sub-goals.* Deaths between three files, refused claims and names, a cost that
  is folded again by every resume, two sub-goals of one id. Entries are complete and
  true, a call is charged once.
- *Ledger.* Contention, timeouts, dead lock holders, check-then-append.
  Exclusion, exclusive path-claims, no waiter stuck for ever.
- *Agents and coordination.* Two daemons of a role, restarts between fact and
  result, results of several writers in any order, late children. An answer is
  given twice only when two processes overlapped, the model runs only for tasks
  the ledger asks for, a verdict rests on results.
- *Tickets.* Several agents' dependencies, reconciliations that die half-way, a
  clock computed from overlapping pauses.
- *Cron.* A crash between dispatch and save, a lock left behind, two daemons.
- *Webhook.* Two appends per delivery, a stop with requests in flight. What the
  sender was told is what the ledger holds.
- *Hooks.* Checks and edits of the allowlist and of the executables interleave; a
  hook may never end, or close its input.
- *Bus.* Redelivery, a throwing handler, the bounded memory of ids, envelopes
  without one, rotations, three implementations of one signature.
- *Installer, mutation sweep.* A run that dies leaves the file system between
  two states, and later runs and the operator's edits start from there.

## Modules

| modules | model |
|---|---|
| `GoalLoop`; `MCGoalLoop` | one goal under `runGoalLoop`, its claims on the ledger, its state file, agents and operator |
| `SubGoals` | the sub-goals of one goal, their files, and the cost |
| `Ledger`, `PathLocks`; `MCLedger` | `withLedgerLock` and path-claims of processes that may die; abstractly: an owner per path |
| `Blackboard`, `Agent`, `Coordination`, `Subagent`, composed by `Swarm`; `MCSwarm` | the ledger as its readers see it, the daemons, the four patterns, a parent of subagents, and other writers |
| `Tickets`, `TicketClock`; `MCTickets` | the ticket store; the service clock of a ticket |
| `Cron`; `MCCron` | the cron daemon and its scheduler |
| `Envelope`, `Bus` | signatures of three implementations; stream, consumers, loops and seen ids |
| `Webhook`, `Hooks` | the HTTP daemon; the dispatcher of hooks and its allowlist |
| `Taskflow`, `TaskMap` | the event log with its snapshot; abstractly: a map from ids to a state and an agent |
| `Installer`, `MutationSweep` | the home of an agent host; the tree under the release gate's sweep |
| `MCPeriphery` | `Bus`, `Taskflow`, `Webhook` and `Hooks` side by side |
| `MCFiles` | `GoalLoop`, `SubGoals`, `TicketClock`, `Installer` and `MutationSweep` side by side |
| `GoalLoopProofs`, `GoalLoopRecoveryProofs`, `SwarmProofs`, `LedgerProofs`, `TicketsProofs`, `CronProofs`, `FilesProofs`, `PeripheryProofs` | theorems |

`MCPeriphery` and `MCFiles` put components that share no state into one run; in
each behaviour one of them moves, so that they are not multiplied with each
other. `Swarm`, on the other hand, is a composition: its components meet in
`log`. `Tickets`, `Cron`, `Blackboard` and `Webhook` take from `Ledger` that an
operation under the directory lock is atomic as long as no lock is broken early.
A definition whose comment begins with "Mutation:" is a bug that might be made
there; it is part of no specification.

### GoalLoop

`state` is the in-memory goal state, `file` the state file; a step that assigns
`file' = state'` calls `writeStateAtomic` (a rename, so the file is never half
written). `claims` counts the task-claims per task id, `results` is the sequence
of the `ok` fields of the results per task id. A task id is a pair of a lane and
an attempt: 0 for `<goal>.<lane>`, k for `.retry-k`, `MaxRetries + 1` for
`.fallback-<role>`. `done`, `failed`, `retriable`, `used` and `fbUsed` are the
loop's own variables (`pollOutcome.done`, `failedLanes`, `retriable`,
`retryCounts`, `fallbackUsed`); `pc` is the place between two awaits or ledger
writes where another process can come in or this one can die. A poll may return
at any moment with the results that are there, which is what a poll bounded by
`maxWaitMs` can do. Results may be there before their claim, and more of them
than claims (`MaxStray`): a second daemon, or an earlier goal of the same id,
wrote them. It takes a task's first result, while the state file ends up with
the last. The recovery loop keeps its stale sets: the retry poll merges against
the red outcomes of the head of the loop, the fallback poll in between
notwithstanding. Pattern lanes are one step with any verdict; hooks decide
freely.

### SubGoals

A run works through the sub-goals one by one: `sub` (claim, own file), `poll`,
`close` (own file), `record` (the goal's `subGoalResults`), then `fold` and
`finish`. `mem` is the run's copy of the goal's state, `goalFile` what is on
disk. `stray` is the copy that a sub-goal's lanes write among the top-level
files. `SubOrder` may name an id twice, since a plan may choose the ids, and an
entry of `results` is a place in it. An entry that cannot be written is followed by
a failed one for the same place (`RecordUnwritten`). Usage facts arrive at any time
(`usage`), for the goal's tasks and for those of other goals, and the fold charges
those whose task id is the goal's or begins with it and a dot (`Chargeable`), that
`counted` lacks; or it fails, is swallowed, and leaves `costed` false. A sub-goal's
lanes are one step with any outcome: `GoalLoop` details that loop.

### Ledger

One action per system call that another process can observe: `mkdir`, the stat
of a lock, its removal, the write of `owner.json`, the snapshot, the append, the
release. `stale` is the age of the lock against `staleLockMs`; only a dead
process's lock grows stale, the code's timing assumption (a live holder does a
few file operations in 30 s). A crashed process does not come back; a restart is
another process.

### Swarm

`log` is a sequence of records with history fields: who wrote it, in which life,
and how long the log was in the read it acted on. A daemon (`Agent`) reads, takes
the claims of its read one by one, and appends usage fact, result and signature
as separate steps; the model call is any outcome, and it may die between any two
steps, with all it remembered. A call (`Coordination`) appends its claims one by
one, waits and reads; the poll that ends the wait may be the last of the budget.
Its steps may also throw: an append that times out at the ledger's lock, a read that
fails, or a later step without id or role (`broken`). The votes of a call are those
of its `voteFromResult`, the default one or any (`ownVotes`). The TaskFlow mirror of
a call is best effort and never read, and left out.
The parent (`Subagent`) settles each child by the first of message, error, exit
and timer, or throws while it claims or waits; a worker's intermediate facts are
best effort and left out. Its processes mode checks the child's arguments against those
`openclaw-agent` knows, and they do not fit (finding `swarm_spawn`). `Other`
stands for every other writer, of claims or results, for any task at any time.

### Tickets, TicketClock

The variables of `Tickets` are the snapshot replayed from the event file. An
operation is one action: it takes the store's lock, replays, checks and appends
one event. `reconcileGoalCompletion` and `bulkTransition` append many events:
they are jobs with the snapshot they took first, every event is a step, and the
process may die between any two. `half` is the ticket whose review-requested
event is written and whose reconciled event is not. `WouldCycle` states by
closed sets what the breadth-first search of `wouldCycle` finds; `MCTickets`
writes the search out, and `SearchAssumption` compares the two on all 512 graphs
of three tickets. `assignees` is a set: the successor of a removed primary is
any of the others. The flag `blocked` of a ticket is derived when it is read,
and no operation looks at it, so it is no part of the model. `TicketClock` keeps
the pause windows of one ticket and computes paused time by the sort and the
loop of `pausedHours`; `paused` is the history it is compared with.

### Cron

Each daemon has a copy of the last-run map, loaded once. A tick is `BeginTick`
(mkdir and `tick()`), for each due job `Claim` then `Fact`, `Record`, `Save`,
`Release`; either append or the save may fail and the daemon may die anywhere.
`SeeStale` and `Break` are the takeover of an old lock. Time is in minutes and a
schedule is the set of minutes it matches. Only a lock that nobody works under
grows stale: a tick takes far less than the five minutes of `STALE_LOCK_MS`.

### Bus, Envelope

A signature is a key and the canonical bytes: the message's id, sender and body,
how the language prints the body's numbers, and the order in which it lists the
body's keys. A body says where the languages differ: `keys`, with their places in
the orders by UTF-16 units and by UTF-8 bytes and their numbers if they look like
array indexes; `numbers`, printed alike or not; `flagged`, which of the two scanners
finds something in it. An id may be missing (`NoId`): `createEnvelope` gives one, but
`publish` signs whatever it is handed, and so does the crate. `Bus` has
the messages of the stream, a queue and a loop per subscribe call, and one set
of seen ids for all of them, in insertion order. JetStream is not part of the
repository and is modelled from how the client uses it: it stores a message and
delivers it until it is acknowledged, again after a nak or after `ack_wait`.
Private and public key files change one by one, and both sides cache keys.

### Webhook, Hooks, Taskflow

A request of `Webhook` moves through `attempt[a].status`, from waiting for its
body to an HTTP code; Node runs one handler at a time (`handling`), and between
its two appends the daemon may die. `Hooks` separates the reading of the
allowlist, the hash check and the spawn; operators load, change and save the
allowlist without a lock, and replace executables. `checked` is what was hashed,
`running` what was started. A hook that closes its input can take the process down
with it (`PipeBreaks`): the error comes later, as an event nobody listens to.
`Taskflow` computes state and agent of a task from the log; names that every
JavaScript object inherits are ids of their own kind (`Inherited`), and an event of
such an id before its creation makes `snapshot()` throw from then on
(`SnapshotThrows`). `StateMap` and `AgentMap` are the refinement mapping to
`TaskMap`: the map from ids to state and agent that the snapshot is, which an
inherited id can lose as a whole (`Lose`), and which lets a finished task be reopened
by everything but a claim, as both programs do.

### Installer, MutationSweep

`Installer` goes through skills, shims, manifest and key, and back in an
uninstall. Copies, shims and keys can be cut off by a death; checkouts are
updated, moved and left. `MutationSweep` keeps a file in memory, reads it, writes
it with the mutation in it, each a step of its own, runs the verifier, reverts from
memory and compares hashes; a content is the operator's last edit with the mutations
in it, and an edit always leaves new content. `alone` has the mutations that were
verified in the tree the sweep found, with nothing beside them from the write to the
end of the verification; `touched` those whose own file was edited under them, which
the revert undoes and no hash sees; both are history, as are `late` and `stuck`.

## Runs

| run | result | what it shows |
|---|---|---|
| `goal_recovery` | passes | two simple lanes with veto hooks and a pattern lane, all pairs of failure modes up to the lanes' names with up to two retries, one invocation, two when both lanes continue on failure, and results without a claim where a lane does not recover: `RecoveryIsJustified`, `LastRetryDecides`, `CancelBoundsDispatch`, `AbortDecided`, `GreenLaneNotRedispatched`, `RunReturns` |
| `files` | passes | two invocations of a goal, resumed or fresh, with a crash: `GreenIsEarned`, `OriginalClaimedOnce`, `FinishedStateIsFinal`; its sub-goals: `CallsCountedOnce`, `SubGoalsAccountedFor`; the clock: `ElapsedIsUnpaused`; installs: `InstalledIsServed`, `UninstallReverses`; sweeps: `OkIsEarned`, `EditsSurvive` |
| `ledger` | passes | three processes, two holders, one crash: `ExclusionUntilCrash`, `PathLocksUntilCrash` (refinement of `PathLocks`), `CallReturns` |
| `tickets` | passes | three tickets under the dependency operations, or two under all, with jobs that die: `DependenciesAcyclic`, `PrimaryIsAssignee`, `GoalDoneSettles`, `FollowsTransitions`, `GoalBlockOfTheBound` |
| `cron` | passes | one daemon, two jobs, two deaths, a stop, a failed write: `DuplicatesAreCaused`, `StateFileSkipsNothing`, `CatchesUp` |
| `swarm` | passes | daemons, calls and a parent in one ledger: `DuplicatesOverlap`, `RunOncePerLife`, `RunsAreAskedFor`, `VerdictIsWitnessed`, `TimedOutStaysSilent` |
| `periphery` | passes | bus: `RepeatNeedsEviction`, `AckedWasCalled`, `ArmsAgree`; webhook: `LedgerMatchesAnswers`, `OnceEnds`; hooks: `OnlyGrantedBytesRun`, `DispatchEnds`; taskflow: `ActsAsMap` (refinement of `TaskMap`) |
| `goal_rerun` | violated | a poll decides by the first result of a task id; `docs/orchestration.md:737` says the most recent one wins |
| `goal_veto` | violated | a vetoed lane with `retry-1` is dispatched by the recovery loop; the comment at G:1416 says it cannot be |
| `ledger_stale` | violated | two waiters break a stale lock one after the other, and two processes end up inside |
| `cron_two` | violated | two daemons whose ticks take turns fire the same slot; the header at `bin/openclaw-cron:14` says they cannot |
| `swarm_spawn` | violated | a child of processes mode exits with 2 at its arguments; the comment at `lib/coordination/subagent.js:203` says how it runs |

### Bounds

Every bound is a constant of its module, named in the guards. Two lanes are
enough for the recovery loop: it treats lanes one by one and couples them through
the sets computed at its head and the abort and break decisions; two retries show
an attempt that is neither first nor last. Two invocations cover crash then
resume, finish then resume and finish then rerun, for a goal and for its
sub-goals; there one lane recovers at most, since what a crash and a resume can do
to the merge of two recoveries is left to the theorems. Of the sub-goals' ids one comes twice and one cannot be written; one
usage fact, of any of them or of another goal, is enough to be folded before a
death and again after it. One task with more results than claims (`MaxStray`)
shows results that are there before the claim, and a second answer to one; it is
given to plans in which at most one lane recovers, and the rest is left to the
theorems. That a goal is run again from scratch with retries in its plan is not in
`goal_recovery` either; `RecoveryJustified` covers it. The
ledger's race needs the dead process and two waiters. `WideOrDeep` keeps
`Tickets` to dependencies among three tickets for one agent, or to everything
among two tickets: a cycle needs three to be hidden from the dependencies of the
new dependency, and the goal properties relate one ticket to one job. Three
minutes give a slot before, at and after a gap, and a backlog of two. A clock of
six units with three windows gives windows that overlap, nest and touch.

In `swarm` a scene chooses who takes part, because all at once exceeds TLC: two
daemons of one role, one of them restarted; a daemon and two tasks; a call of
each pattern with a daemon; two calls on the same tasks; a parent with a daemon
of its children's role; each with one or two records of other writers. The
hazards are all between two of these. In `periphery` the seen set holds one id,
so that an eviction happens with two envelopes, over two subscriptions of both
policies. The bus is two parts of the run: in `bus` one sender sends two bodies with
one key, ids missing or not, and the receiver does all it can; in `signing` senders
of all three arms send bodies of every kind of difference under two keys, and
nobody receives. `ArmsAgree` asks every arm about every message of the stream, so it
needs no receiver; the webhook gets two requests in two lives; two operators make two
edits. One checkout of the installer is updated once, one run dies, and the
sweep has two mutations in one file, two sweeps, a kill and an edit.

Symmetry: tickets, agents and goals in `tickets`, which checks safety only and
names none of them; the envelope ids in `periphery`, which only the bus has,
while the liveness properties are about the webhook and the hooks. Deadlock
checking is off where a bound or the program ends the behaviour (calls,
invocations, lives or records used up); it is on in `tickets` and the cron runs,
which never end.

### Fairness

- `GoalLoop`: the loop's steps are weakly fair together, since every await of it
  is bounded by a timer; agents, operators and crashes owe nothing.
- `Ledger`: a live process keeps executing its call and its clock runs.
- `Cron`: a supervisor restarts the daemon, its loop ticks, a left lock gets old
  and time passes; stops, deaths and failed writes are bounded.
- `Webhook`: the handler that runs, and the exit after a stop, which is the
  closing of all connections or the timer of two seconds. That timer is unref'd,
  which matters only when nothing else keeps the process alive. Bodies may never
  come.
- `Hooks`: the dispatcher, whose timer kills a hook that does not end.
- `Swarm`, `Bus`, `Taskflow`, `Tickets` and the other files: safety only. That a
  coordination call ends is not checked: it ends when its own clock says so, which
  the model does not have, and it may throw before.

## Proofs

The theorems hold for every value of the constants that satisfies the named
assumptions of the modules. The induction is over steps, but for the loop of the
service clock; what follows says what each invariant adds to the property, and
why.

- `GoalLoopProofs`. `TypeCorrect` needs that a lane in `todo` at a retry has
  budget left and that a polled batch holds real attempts (`TypeInv`).
  `FinishedIsFinal` from `ControlInv`: during an invocation the file is in no
  terminal status. `GreenEarned` from `EarnInv`: every ok outcome stands for a
  claimed task with an ok first result, and the ledger only grows.
- `GoalLoopRecoveryProofs`: `OriginalOnce`, `RecoveryJustified`, `CancelBounds`,
  `AbortIsDecided`, from invariants that tie `todo`, `used`, `fbUsed` and
  `retriable` to the ledger at each place of the loop.
  `GreenStaysGreen` from `OutcomesInv`: the run holds one outcome per lane, except
  of a lane whose fallback came in a round that went on to retries, because there
  the merge brings the lane's old red outcome back (`Spent`); the loop's stale
  `failed` is right about every other lane. `LastRetryDecidesLane` adds
  `CollectedInv`: the attempt a retry lane is at has been collected only if its
  outcome is the one held, and no later attempt has.
- `SwarmProofs`: `SwarmTypeCorrect`, `DuplicatesOnlyOverlap`, `RunsOncePerLife`,
  `RunsWereAskedFor`, `VerdictsAreWitnessed` and `TimedOutAreSilent`, from
  `SwarmInv`. No step takes a record back, so what a step has
  read stays true, and the invariant says what each process has not written yet.
  `DaemonOK`: the claim a daemon works on was unanswered where its read ended, so
  that every answer comes after that, none of them its own, and of this life it
  has written nothing for a claim it has still to take (`Fresh`, `ThisLife`). A
  second answer is then one of a daemon that read before the first.
  `CallInv`: what a call took for green is green on the ledger, and a chain has
  passed every step before its place. `ChildInv`: a child's own result is written
  by the step that settles the child with a message, and only while it runs.
- `FilesProofs`, sub-goals: `CostsAreCounted` and `SubGoalsAreAccountedFor` from
  `SubGoalsInv`. What the file of an ended goal says was put together in memory
  by its last run, so the invariant says of `mem` at each place of the run what
  its last entries are (`Through`), that they are answered, and that at `finish`
  every call behind them is charged (`Paid`); and that no file of an ended goal
  is left while a run is under way (`OpenWhileRun`). `Through` leads from place to
  place of `SubOrder`, with room for the failed entry behind one that could not be
  written. The sum is the cardinality
  of the counted facts, by the theorems on finite sets.
- `FilesProofs`, installer: `InstallsWhatItReports` and `UninstallLeavesNothing`
  from `InstallInv`, which says of each step of a run what the steps before it
  made sure of, and nothing but types of what earlier runs left.
- `FilesProofs`, mutation sweep: `EditsOutliveSweeps` from `SavedInv`: a snapshot
  belongs to the mutation the sweep is at or to one whose revert failed, and of
  two contents of a file, one of them saved, the younger came late, while the
  sweep was at that file. `OkSweepsAreEarned` from `FoundInv`: as long as nothing
  failed, every file is what the sweep found, once the current mutation is
  thought away (`Before`), or holds a later edit; so the last hash, which finds
  no edit, finds no mutation either, and each mutation was verified alone, unless
  the file it is in was edited while it was there.
- `FilesProofs`, service clock: `ClockIsRight` from `ClockInv`, by which `paused`
  is what some window covers. For the reader's computation the spans cover the
  paused units up to the moment asked about (`SpanFacts`), and after each span the
  loop's total counts the units covered so far that come before the current span,
  which covers the rest (`Holds`). That the sort has a result follows from the
  number of windows earlier than each (`OrderExists`). The loop is a recursive
  function over the spans; the induction that shows it defined and right
  (`SetInduction`) is over sets of numbers, from a theorem of the library on
  well-founded relations.
- `LedgerProofs`: `LockExcludes` from `LockInv`: until somebody dies the lock is
  never stale, nobody is about to break it, and who is past `mkdir` owns it.
  `ClaimsAreLocks`: `Ledger` implements `PathLocks` until somebody dies, since
  whoever is about to append a claim still finds the path free (`ClaimInv`).
- `TicketsProofs`: `GraphStaysAcyclic`, with acyclicity as "every non-empty set
  of tickets has one that depends on none of the set"; had a new dependency
  destroyed that, the closed set that witnesses `~WouldCycle` cut with the
  offending set would have done so before. `BlocksAreOfTheBound` holds step by
  step, from a job's tickets being bound to its goal. `ReconciliationSettles`
  and `MovesFollowTable` from `JobOK`: a job's snapshot stays current for the
  tickets it has left. `PrimaryStaysAssignee` is inductive with the types.
- `CronProofs`: `RecordedIsComplete` and `TypeCorrect`: what the file records
  comes from a daemon's map, that from its dispatched list, which grows only
  behind a claim and a fact. `RecordedSlotIsComplete` and the modules' `TypeOK`
  are proved, so no run spends time on them. `OneDaemonCausesDuplicates` and
  `OneDaemonSkipsNothing` assume `SingleDaemon` (`cron_two` shows they need it)
  and follow from `Alone`: the file is behind the daemon's map and all slots in
  between are complete; and a slot ahead of the file that the current tick has
  not claimed was claimed only by ticks that died or failed, each of which is
  counted. That is why a claim, which is always ahead of the file and new to its
  tick, adds one to a number that the counts already bound.
- `PeripheryProofs`: `AnswersAreTrue` from `WebhookInv`, which ties each status
  to the records on the ledger (`Told`) and lets only the running handler be
  between two appends. `LogIsAMap`: every event appended to the log is a step of
  the map, because it is the latest of its task and of no other, or the one that
  loses the map, or one more after it was lost (`Throwing`).
  `RepeatsAreEvictions` and `NoSilentAck` from `BusInv`: the seen set is a window
  on the history of calls, all of it while shorter than `DedupeMax` and its last
  `DedupeMax` entries afterwards (`Window`), and whatever a loop works on or has
  acknowledged was called (`LoopsOK`). `ArmsAreAlike`: the canonical bytes of the
  implementations are equal exactly where they print the numbers alike and list the
  keys in one order (`CanonicalAlike`), and a signature over one of two different
  sequences of bytes is none over the other. `HooksAreGranted` from `HooksInv`:
  every list of bytes, on disk, in an operator's hands or with the dispatcher,
  holds only what was granted once (`Granted`), so that edits which lose each
  other never make up an entry; and an executable that differs from what was checked
  was installed since.

Only model-checked:

- Liveness: `RunReturns`, `CallReturns`, `CatchesUp`, `OnceEnds`,
  `DispatchEnds`; the prover does not reason about fairness.
- That `MCTickets!Search`, a recursive operator, computes `WouldCycle`.

Assumptions on the constants, each named in its module and evaluated by TLC: the
constants of one kind are distinct from those that stand for nobody
(`NobodyAssumption`, `NoneAssumption`, `AgentAssumption`, `WritersAssumption`);
plans are what normalization lets through (`PlansAssumption` of `GoalLoop`; in
`Coordination` the patterns refuse an empty list of tasks); two children of a
parent have two task ids (`ChildrenAssumption`: the id holds the child's index);
a call that plays its agents itself answers its own tasks only, none of which is
a child's (`MocksAssumption`); schedules and subscriptions are those the parsers
accept; two keys of a body have two places in either order of strings
(`OrderAssumption`); a sub-goal has not the id of its goal (`SubGoalsAssumption`).
The reads of the ledger in `checkCancelRequest` do not fail: the code takes a failed
read for no request (G:1291). `SingleDaemon` is a hypothesis of two theorems, as above.

## Not modelled

Components: the cost estimate and goal templates (arithmetic and substitution
without state), remote approval (builds and hashes one packet in one call),
doctor, grading and the verification scripts (read-only reports), adapters
(mocks), and the commands of `bin/openclaw` that print. Within modelled
components: the public-safety scan of the ledger, a
last line of a JSONL file torn by a crash, `owner.json` on a full disk
(`ledger.js:199`), the cron expression grammar, the transforms' wording, key
encodings, watchers, attachments and reviewers of tickets.

Hazards that no property covers, because nothing says what should happen:

- A holder of the ledger's lock that lives but stalls for longer than `staleLockMs`
  (`ledger.js:214`); the tickets' jobs would then meet other writers.
- The lane:dispatch decision of a veto is recorded best effort (G:1330); a failure
  is swallowed and changes nothing the loop looks at.
- A pattern lane that timed out is cached with `done: true` (G:803).
- Task ids are concatenations, so that a lane named `a.retry-1` shares its task
  id with lane a's first retry (G:506).
- Path-claims of a process that died are never released (`ledger.js:310`).
- `dispatchedClaims` is written once more at the end of a dispatch (G:1195).
- Two overlapping edits of the hook allowlist lose one of them
  (`lib/hooks/consent.js:119`); `OnlyGrantedBytesRun` holds nevertheless.

Places where the code does something else than a comment or document suggests,
which the models follow and no run singles out:

- `--resume` of a finished goal rebuilds its trace without the recovery records
  (G:1744).
- `envelope-loader.js:23` wants the native and the JavaScript arm without any
  behavioural difference, and `lib.rs:286` equal bytes. They differ for keys that
  look like array indexes, for keys beyond U+FFFF next to keys from U+E000 on
  (UTF-16 against UTF-8) and for numbers, which `lib.rs:382` concedes; the scanner of
  the crate differs from the JavaScript one (`lib.rs:491`). Where bytes differ the
  loader refuses what it has signed itself. `ArmsAgree` says where they agree.
- `signed-bus-client.js:150` says that verified envelopes are passed to the handler;
  one without an id is acknowledged as a duplicate and passed to none (line 64).
- `lib/hooks/consent.js:13` and `dispatcher.js:288` have every executable that runs
  on the allowlist with its bytes; bytes installed between the check and the spawn
  run without (line 317). `OnlyGrantedBytesRun` says what is left of it.
- `dispatcher.js:260` calls errors of the hook's pipe non-fatal; the error of a pipe
  whose reader is gone comes as an event after the `try`, has no listener, and ends
  the process (`PipeBreaks`).
- `crates/openclaw-taskflow/src/lib.rs:59` says that no further transitions are
  allowed from done and failed; of both programs' operations only a claim looks.
- `snapshot()` promises the tasks of the log; an event of a task called like an
  inherited property, say `constructor`, makes it throw for ever
  (`taskflow.js:156`).
- `ticket-store.js:30` says that an archived dependency counts only when it was
  approved, not cancelled; the code lets every archived one through (line 578), as
  its comment at line 569 and `docs/ticketing.md:169` have it.
- `docs/orchestration.md:434` speaks of per-goal cost; the prefix rule of G:1188
  charges the calls of a goal `v1.1` to the goal `v1`, too. `CallsCountedOnce` says
  so.
- `lib/cost/index.js:37` wants a wrong cost table to fail loud; the fold swallows the
  error with every other (G:1191), and the goal ends without its cost.
- An entry of a sub-goal that cannot be written is entered a second time, as failed
  (G:1167), and both stay.
- An edit of the file that a mutation is in, made while the verifier runs, is undone
  by the revert, and the sweep can be called ok (`mutation-runner.js:183`).
- `lib/hooks/dispatcher.js:123` calls a non-zero exit malformed and skips the
  hook; the code looks at the exit code only when the hook printed nothing.
- `openclaw dispatch <role>` claims as orchestrator without `forRole`
  (`bin/openclaw:613`), so that no agent of the role takes the task; nor do
  agents take the claims of the coordinators, which have no `forRole` either.
- A sub-goal's state is also written among the top-level files (G:1717), where
  `CHANGELOG.md:47` promises it only under `sub/`.
- `CHANGELOG.md:46` says that a cancelled goal releases its path-claims; the loop
  takes none and releases none.
- The comment at G:376 says that the ids of sub-goals are forced and cannot
  collide; `spec.id ||` lets a plan choose them, two alike or one that is
  charged nowhere, because it does not begin with the goal's. Its entry's own
  usd and callCount are always 0.
- `scheduler.js:195` says that a job with several missed slots is given the most
  recent one; `tick` gives it the earliest after its last run, one per tick.
- The installer's `README.md:107` asks to run it again after an update; skills
  that were copied stay as they are (`install-lib.js:141`). A manifest that
  cannot be read is replaced, with the entries of other installers in it
  (`install-lib.js:290`), which is why `UninstallReverses` speaks of readable
  ones.
- The header of `mutation-runner.js` says that a failed revert aborts the sweep
  as `mutation-rollback-failed`; the loop goes on in the mutated tree (lines 183
  to 202). `OkIsEarned` therefore speaks
  of processes in which no revert failed, and `EditsSurvive` tells which edits a
  stale snapshot may take back.

## What could follow

The watchers and attachments of the ticket store; the breadth-first search as a recursive
function, for a proof that it computes `WouldCycle`.
