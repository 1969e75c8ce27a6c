------------------------------ MODULE SubGoals ------------------------------
(* The sub-goals of one goal and the cost of its calls                       *)
(* (src/orchestrator/lib/goal-loop.js, goal-state.js).  After its own lanes  *)
(* a run works through the sub-goals, one at a time, each with a state file  *)
(* of its own, and then folds the usage facts of the ledger into the goal's  *)
(* state.  The process may die between any two writes, and the goal may be   *)
(* resumed or run afresh.  The goal's own lanes, which module GoalLoop       *)
(* details, are one step with any outcome; agents answer a sub-goal's task   *)
(* at any time or never, and report its calls before or after; other goals   *)
(* report calls of their own.  A write that fails outside the loop over the  *)
(* sub-goals is thrown out of the run, and ends it as a death does.          *)
EXTENDS Naturals, Sequences, FiniteSets, SequencesExt

CONSTANTS
  SubOrder,    \* the ids of the sub-goals in their order; one may come twice
  Others,      \* other goals of the ledger
  Under,       \* the ids that begin with the goal's own and a dot
  Unwritable,  \* those whose id no file can have: a colon is a legal id
  TheGoal,     \* the id of the goal
  MaxFacts,    \* bound: usage facts
  MaxGoalRuns  \* bound: runs of the goal

Subs == ToSet(SubOrder)

ASSUME SubGoalsAssumption == SubOrder \in Seq(Subs) /\ TheGoal \notin Subs

VARIABLES
  at,        \* where the run is; "idle" between runs
  mem,       \* the run's copy of the goal's state
  verdict,   \* whether its own lanes ended or were cancelled
  next,      \* the sub-goal it is at
  out,       \* how that one ended
  goalFile,  \* the goal's state file
  subFile,   \* per sub-goal: the status in sub/<goal>/<sub>.json
  stray,     \* per sub-goal: that in a file beside the goal's own
  answer,    \* per sub-goal: the first result of its task on the ledger
  behind,    \* per sub-goal: how many usage facts came before that result
  usage,     \* the usage facts on the ledger: whose task the call was for
  cancels,   \* the goals with a cancel-request on the ledger
  goalRuns   \* counter for the bound

ledgerPart == <<answer, behind, usage, cancels>>
subGoalVars == <<at, mem, verdict, next, out, goalFile, subFile, stray,
                 ledgerPart, goalRuns>>

\* results: subGoalResults, with the place of each in the order; counted: the
\* facts in costEvents; calls: the cost's callCount; costed: the last fold went
\* through; vetoed: a start hook stopped the goal.
Fresh  == [status |-> "active", results |-> <<>>, counted |-> {}, calls |-> 0,
           costed |-> FALSE, vetoed |-> FALSE]
Absent == [Fresh EXCEPT !.status = "absent"]

Ended == {"done", "failed", "aborted"}

SubGoalsInit ==
  /\ at = "idle" /\ mem = Absent /\ verdict = "none" /\ next = 1 /\ out = "none"
  /\ goalFile = Absent
  /\ subFile = [s \in Subs |-> "absent"] /\ stray = [s \in Subs |-> "absent"]
  /\ answer = [s \in Subs |-> "none"] /\ behind = [s \in Subs |-> 0]
  /\ usage = <<>> /\ cancels = {}
  /\ goalRuns = 0

\* The process ends and forgets.
Leave == at' = "idle" /\ mem' = Absent /\ verdict' = "none" /\ next' = 1 /\ out' = "none"

\* The goal's state changes and is written.
Persist(state) == mem' = state /\ goalFile' = state
----------------------------------------------------------------------------
(* One run.                                                                *)

\* A run that is not a resume replaces the file.
RunGoal ==
  /\ at = "idle" /\ goalRuns < MaxGoalRuns
  /\ Persist(Fresh) /\ at' = "lanes" /\ goalRuns' = goalRuns + 1
  /\ UNCHANGED <<verdict, next, out, subFile, stray, ledgerPart>>

\* A goal that has ended is not run again.
ResumeGoal ==
  /\ at = "idle" /\ goalRuns < MaxGoalRuns
  /\ goalFile.status \in {"active", "cancelled"}
  /\ mem' = [goalFile EXCEPT !.status = "active"]
  /\ at' = "lanes" /\ goalRuns' = goalRuns + 1
  /\ UNCHANGED <<verdict, next, out, goalFile, subFile, stray, ledgerPart>>

Veto ==
  /\ at = "lanes"
  /\ goalFile' = [mem EXCEPT !.status = "aborted", !.vetoed = TRUE]
  /\ Leave
  /\ UNCHANGED <<subFile, stray, ledgerPart, goalRuns>>

\* The goal's own lanes end, or are cancelled.  Lanes that failed or aborted do
\* not keep the sub-goals from running, cancelled ones do.
Lanes(v) ==
  /\ at = "lanes"
  /\ v = "cancelled" => TheGoal \in cancels
  /\ \E s \in {"active"} \cup ({v} \cap {"cancelled"}) :
       Persist([mem EXCEPT !.status = s])
  /\ verdict' = v
  /\ at' = IF v = "cancelled" THEN "fold" ELSE "sub"
  /\ UNCHANGED <<next, out, subFile, stray, ledgerPart, goalRuns>>

Sub == SubOrder[next]

\* The sub-goal's file is written before its task is claimed.
OpenSub ==
  /\ at = "sub" /\ next <= Len(SubOrder) /\ Sub \notin Unwritable
  /\ subFile' = [subFile EXCEPT ![Sub] = "active"]
  /\ at' = "poll"
  /\ UNCHANGED <<mem, verdict, next, out, goalFile, stray, ledgerPart, goalRuns>>

\* Its lanes end: cancelled, answered, or out of time.  The code they share with
\* the goal's own lanes writes the state among the top-level files, and no later
\* step touches that copy.
PollSub ==
  /\ at = "poll"
  /\ \E o \in {"done", "failed", "cancelled"}, copy \in {"active", "cancelled"} :
       /\ o = "cancelled" => Sub \in cancels
       /\ o = "done" => answer[Sub] = "ok"
       /\ copy = "cancelled" => o = "cancelled"
       /\ out' = o
       /\ stray' = [stray EXCEPT ![Sub] = copy]
  /\ at' = "close"
  /\ UNCHANGED <<mem, verdict, next, goalFile, subFile, ledgerPart, goalRuns>>

\* Mutation: the file is left as it was opened.
CloseSubInMemory ==
  /\ at = "close"
  /\ at' = "record"
  /\ UNCHANGED <<mem, verdict, next, out, goalFile, subFile, stray, ledgerPart,
                 goalRuns>>

CloseSub ==
  /\ at = "close"
  /\ subFile' = [subFile EXCEPT ![Sub] = out]
  /\ at' = "record"
  /\ UNCHANGED <<mem, verdict, next, out, goalFile, stray, ledgerPart, goalRuns>>

\* The goal's state with an entry for the current sub-goal.
Entered(ok) == [mem EXCEPT !.results = Append(@, [place |-> next, ok |-> ok])]

\* The entry is made and written, and the next sub-goal is up.
Enter(ok) ==
  /\ Persist(Entered(ok))
  /\ at' = "sub" /\ next' = next + 1 /\ out' = "none"
  /\ UNCHANGED <<verdict, subFile, stray, ledgerPart, goalRuns>>

RecordSub == at = "record" /\ Enter(out = "done")

\* The entry is made, and the write throws: into the catch clause.
RecordUnwritten ==
  /\ at = "record"
  /\ mem' = Entered(out = "done") /\ at' = "again"
  /\ UNCHANGED <<verdict, next, out, goalFile, subFile, stray, ledgerPart, goalRuns>>

\* The catch clause, after a write of either file or a claim that threw: it makes
\* a failed entry, a second one if there is one already.
SubThrows ==
  /\ \/ at = "sub" /\ next <= Len(SubOrder)
     \/ at \in {"poll", "close", "again"}
  /\ Enter(FALSE)

SubsDone ==
  /\ at = "sub" /\ next > Len(SubOrder)
  /\ at' = "fold"
  /\ UNCHANGED <<mem, verdict, next, out, goalFile, subFile, stray, ledgerPart,
                 goalRuns>>

\* The usage facts of the goal's own tasks, and of every task of an id under its
\* own: a sub-goal's, or another goal's.
Chargeable == {i \in DOMAIN usage : usage[i] \in Under \cup {TheGoal}}

\* Mutation: facts that a former run has counted are counted again.
FoldAll ==
  /\ at = "fold"
  /\ Persist([mem EXCEPT !.calls = @ + Cardinality(Chargeable),
                         !.counted = @ \cup Chargeable, !.costed = TRUE])
  /\ at' = "finish"
  /\ UNCHANGED <<verdict, next, out, subFile, stray, ledgerPart, goalRuns>>

\* The fold is best-effort: when the ledger or the cost table cannot be read, the
\* run goes on without it.
Fold ==
  /\ at = "fold"
  /\ \/ Persist([mem EXCEPT !.calls = @ + Cardinality(Chargeable \ mem.counted),
                            !.counted = @ \cup Chargeable, !.costed = TRUE])
     \/ Persist([mem EXCEPT !.costed = FALSE])
  /\ at' = "finish"
  /\ UNCHANGED <<verdict, next, out, subFile, stray, ledgerPart, goalRuns>>

\* As the goal's own lanes went, whatever became of the sub-goals.
Finish ==
  /\ at = "finish"
  /\ \E s \in IF verdict = "cancelled" THEN {verdict} ELSE Ended :
       goalFile' = [mem EXCEPT !.status = s]
  /\ Leave
  /\ UNCHANGED <<subFile, stray, ledgerPart, goalRuns>>

Kill ==
  /\ at # "idle"
  /\ Leave
  /\ UNCHANGED <<goalFile, subFile, stray, ledgerPart, goalRuns>>
----------------------------------------------------------------------------
(* The ledger.                                                             *)

\* An agent reports a call for a task that was claimed, whether answered or not
\* (a second agent may be at it), or for a task of another goal.
ReportCall(task) ==
  /\ Len(usage) < MaxFacts
  /\ task = TheGoal => goalRuns > 0
  /\ task \in Subs => subFile[task] # "absent"
  /\ usage' = Append(usage, task)
  /\ UNCHANGED <<at, mem, verdict, next, out, goalFile, subFile, stray, answer,
                 behind, cancels, goalRuns>>

AnswerSub(s, a) ==
  /\ subFile[s] # "absent" /\ answer[s] = "none"
  /\ answer' = [answer EXCEPT ![s] = a]
  /\ behind' = [behind EXCEPT ![s] = Len(usage)]
  /\ UNCHANGED <<at, mem, verdict, next, out, goalFile, subFile, stray, usage,
                 cancels, goalRuns>>

\* Of a running goal: one that is not running is cancelled when it runs again.
RequestCancel(g) ==
  /\ at # "idle" /\ g \notin cancels
  /\ cancels' = cancels \cup {g}
  /\ UNCHANGED <<at, mem, verdict, next, out, goalFile, subFile, stray, answer,
                 behind, usage, goalRuns>>

SubGoalsNext ==
  \/ RunGoal \/ ResumeGoal \/ Veto
  \/ \E v \in {"ended", "cancelled"} : Lanes(v)
  \/ OpenSub \/ PollSub \/ CloseSub \/ RecordSub \/ RecordUnwritten
  \/ SubThrows \/ SubsDone
  \/ Fold \/ Finish \/ Kill
  \/ \E task \in Subs \cup Others \cup {TheGoal} : ReportCall(task)
  \/ \E s \in Subs, a \in {"ok", "failed"} : AnswerSub(s, a)
  \/ \E g \in Subs \cup {TheGoal} : RequestCancel(g)

SubGoalsSpec == SubGoalsInit /\ [][SubGoalsNext]_subGoalVars
----------------------------------------------------------------------------
(* However often the goal is killed, resumed or run afresh, its state file   *)
(* charges no call twice, and none but those of tasks whose ids are its own  *)
(* or begin with it and a dot, be it another goal's.  When it ended and its  *)
(* last fold went through, it charges of every sub-goal it found done, under *)
(* its id, all the calls reported before the answer.                         *)
CallsCountedOnce ==
  LET ended == goalFile.status \in Ended /\ ~goalFile.vetoed
      relied == {SubOrder[goalFile.results[i].place] :
                   i \in {j \in DOMAIN goalFile.results : goalFile.results[j].ok}}
  IN  /\ goalFile.calls = Cardinality(goalFile.counted)
      /\ goalFile.counted \subseteq Chargeable
      /\ ended /\ goalFile.costed =>
           \A s \in relied \cap Under :
             {i \in 1 .. behind[s] : usage[i] = s} \subseteq goalFile.counted

\* The place of the i-th entry, when those of the run come after the first k.
PlaceOf(results, k, i) == IF i = k THEN 0 ELSE results[i].place

\* No later sub-goal has the id of the one at this place, nor its file.
HasOwnFile(place) ==
  \A q \in place + 1 .. Len(SubOrder) : SubOrder[q] # SubOrder[place]

(* The last entries of a goal that ran to its end lead through the sub-goals *)
(* in order and leave none out, those whose run threw included; more than    *)
(* one of a sub-goal are failed ones after the first, when that could not be *)
(* written.  One that counts as done was answered, and its own file says so, *)
(* whichever run wrote it, unless a later sub-goal has the same id.          *)
SubGoalsAccountedFor ==
  goalFile.status \in Ended /\ ~goalFile.vetoed =>
    LET entry == goalFile.results IN
    \E k \in 0 .. Len(entry) :
      /\ PlaceOf(entry, k, Len(entry)) = Len(SubOrder)
      /\ \A i \in k + 1 .. Len(entry) :
           LET before == PlaceOf(entry, k, i - 1)
               sub    == SubOrder[entry[i].place]
           IN  /\ \/ entry[i].place = before + 1
                  \/ entry[i].place = before /\ ~entry[i].ok
               /\ entry[i].ok =>
                    /\ answer[sub] = "ok"
                    /\ HasOwnFile(entry[i].place) => subFile[sub] = "done"
=============================================================================
