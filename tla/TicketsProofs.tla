--------------------------- MODULE TicketsProofs ----------------------------
(***************************************************************************)
(* Proofs about the ticket store, for any tickets, agents and goals: the   *)
(* dependency graph stays acyclic, the primary assignee is an assignee, no *)
(* job leaves the table of transitions, the reconciliation of a done goal  *)
(* settles it, and only that of the goal bound sets or lifts a block.      *)
(***************************************************************************)
EXTENDS Tickets, TLAPS

----------------------------------------------------------------------------
(* Snapshots and jobs.                                                     *)

LEMMA StatesOfType ==
  ASSUME TypeOK, NEW S \in SUBSET Existing
  PROVE  /\ StatesOf(S) \in Snapshots /\ DOMAIN StatesOf(S) = S
         /\ \A t \in S : StatesOf(S)[t] = state[t]
<1>1. \A t \in S : state[t] \in States
  BY DEF TypeOK, Existing
<1>2. StatesOf(S) \in [S -> States]
  BY <1>1 DEF StatesOf
<1>3. S \in SUBSET Tickets
  BY DEF Existing
<1> QED
  BY <1>2, <1>3 DEF StatesOf, Snapshots

LEMMA LeftType ==
  ASSUME TypeOK
  PROVE  /\ Left \in SUBSET Tickets /\ job.todo \in [Left -> States]
         /\ \A t \in Left : job.todo[t] \in States
<1>1. job.todo \in Snapshots
  BY DEF TypeOK, Job
<1>2. PICK S \in SUBSET Tickets : job.todo \in [S -> States]
  BY <1>1 DEF Snapshots
<1> QED
  BY <1>2 DEF Left

LEMMA WithoutType ==
  ASSUME TypeOK, NEW t \in Left
  PROVE  /\ Without(t) \in Snapshots /\ DOMAIN Without(t) = Left \ {t}
         /\ \A u \in Left \ {t} : Without(t)[u] = job.todo[u]
<1>1. \A u \in Left : job.todo[u] \in States
  BY LeftType
<1>2. Without(t) \in [Left \ {t} -> States]
  BY <1>1 DEF Without
<1>3. Left \ {t} \in SUBSET Tickets
  BY LeftType
<1> QED
  BY <1>2, <1>3 DEF Without, Snapshots

LEMMA NoJobType == NoJob \in Job /\ DOMAIN NoJob.todo = {} /\ NoJob.kind = "none"
<1>1. NoJob.todo \in [{} -> States]
  BY DEF NoJob, States
<1>2. NoJob.todo \in Snapshots
  BY <1>1 DEF Snapshots
<1> QED
  BY <1>1, <1>2 DEF NoJob, Job, States

----------------------------------------------------------------------------
(* Types.                                                                  *)

LEMMA InitType == Init => TypeOK
  BY NoJobType DEF Init, TypeOK, Existing

LEMMA TransitionsType ==
  ASSUME NEW s \in States
  PROVE  Transitions[s] \in SUBSET States
  BY DEF Transitions, States

LEMMA ReconcileStartType ==
  ASSUME TypeOK, NEW g \in Goals, NEW verdict \in {"done", "failed"},
         ReconcileStart(g, verdict)
  PROVE  /\ job' \in Job /\ job'.kind = verdict /\ job'.goal = g
         /\ job'.half = None /\ Left' = {t \in Existing : goal[t] = g}
         /\ \A t \in Left' : job'.todo[t] = state[t]
<1> DEFINE S == {t \in Existing : goal[t] = g}
<1>1. /\ StatesOf(S) \in Snapshots /\ DOMAIN StatesOf(S) = S
      /\ \A t \in S : StatesOf(S)[t] = state[t]
  BY StatesOfType
<1>2. job' = [NoJob EXCEPT !.kind = verdict, !.goal = g, !.todo = StatesOf(S)]
  BY DEF ReconcileStart
<1> HIDE DEF S
<1>3. /\ job'.kind = verdict /\ job'.goal = g /\ job'.half = None
      /\ job'.todo = StatesOf(S) /\ job' \in Job
  BY <1>1, <1>2, NoJobType DEF NoJob, Job
<1> QED
  BY <1>1, <1>3 DEF Left, S

LEMMA BulkStartType ==
  ASSUME TypeOK, NEW to \in States, NEW by \in Agents, NEW texts \in SUBSET TextsFor(to),
         BulkStart(to, by, texts)
  PROVE  /\ job' \in Job /\ job'.kind = "bulk" /\ job'.by \in Agents
         /\ job'.half = None /\ Left' \subseteq Existing
         /\ \A t \in Left' : job'.todo[t] = state[t]
<1>1. PICK S \in SUBSET Existing :
        job' = [NoJob EXCEPT !.kind = "bulk", !.to = to, !.by = by, !.texts = texts,
                             !.todo = StatesOf(S)]
  BY DEF BulkStart, Lists
<1>2. /\ StatesOf(S) \in Snapshots /\ DOMAIN StatesOf(S) = S
      /\ \A t \in S : StatesOf(S)[t] = state[t]
  BY StatesOfType
<1>3. texts \in SUBSET Texts
  BY DEF TextsFor, Needed, Texts
<1>4. /\ job'.kind = "bulk" /\ job'.by = by /\ job'.half = None
      /\ job'.todo = StatesOf(S) /\ job' \in Job
  BY <1>1, <1>2, <1>3, NoJobType DEF NoJob, Job
<1> QED
  BY <1>2, <1>4 DEF Left

\* A step of a job takes ticket t off its snapshot.
LEMMA TakeOffType ==
  ASSUME TypeOK, NEW t \in Left, NEW h \in Tickets \cup {None},
         job' = [job EXCEPT !.todo = Without(t), !.half = h]
  PROVE  /\ job' \in Job /\ job'.kind = job.kind /\ job'.goal = job.goal
         /\ job'.by = job.by /\ job'.half = h /\ Left' = Left \ {t}
         /\ \A u \in Left' : job'.todo[u] = job.todo[u]
<1>1. /\ Without(t) \in Snapshots /\ DOMAIN Without(t) = Left \ {t}
      /\ \A u \in Left \ {t} : Without(t)[u] = job.todo[u]
  BY WithoutType
<1>2. job \in Job
  BY DEF TypeOK
<1>3. /\ job'.kind = job.kind /\ job'.goal = job.goal /\ job'.by = job.by
      /\ job'.half = h /\ job'.todo = Without(t) /\ job' \in Job
  BY <1>1, <1>2 DEF Job
<1> QED
  BY <1>1, <1>3 DEF Left

\* The same for a step of a bulk transition, which leaves half alone.
LEMMA BulkTakeOffType ==
  ASSUME TypeOK, NEW t \in Left, job' = [job EXCEPT !.todo = Without(t)]
  PROVE  /\ job' \in Job /\ job'.kind = job.kind /\ job'.by = job.by
         /\ job'.half = job.half /\ Left' = Left \ {t}
         /\ \A u \in Left' : job'.todo[u] = job.todo[u]
<1>1. /\ Without(t) \in Snapshots /\ DOMAIN Without(t) = Left \ {t}
      /\ \A u \in Left \ {t} : Without(t)[u] = job.todo[u]
  BY WithoutType
<1>2. job \in Job
  BY DEF TypeOK
<1>3. /\ job'.kind = job.kind /\ job'.by = job.by
      /\ job'.half = job.half /\ job'.todo = Without(t) /\ job' \in Job
  BY <1>1, <1>2 DEF Job
<1> QED
  BY <1>1, <1>3 DEF Left

\* A ticket moved to a state exists from then on, and no other ticket moves.
LEMMA MoveType ==
  ASSUME TypeOK, NEW t \in Tickets, NEW s \in States, Move(t, s)
  PROVE  /\ state' \in [Tickets -> States \cup {"absent"}]
         /\ Existing' = Existing \cup {t} /\ state'[t] = s
         /\ \A u \in Tickets \ {t} : state'[u] = state[u]
<1>1. s # "absent"
  BY DEF States
<1> QED
  BY <1>1 DEF TypeOK, Move, Existing

LEMMA TypeMove ==
  ASSUME TypeOK, NEW t \in Tickets, NEW s \in States, Move(t, s),
         UNCHANGED <<deps, assignees, primary, goal, goalBlocked>>, job' \in Job
  PROVE  TypeOK'
<1>1. state' \in [Tickets -> States \cup {"absent"}] /\ Existing \subseteq Existing'
  BY MoveType
<1> QED
  BY <1>1 DEF TypeOK

----------------------------------------------------------------------------
(* The snapshot of a job is what the tickets are, but for the ticket whose  *)
(* review has just been requested; tickets of a done goal that are off the  *)
(* snapshot are settled.                                                    *)

SnapshotIsCurrent ==
  \A t \in Left :
    /\ t \in Existing
    /\ state[t] = IF t = job.half THEN "review" ELSE job.todo[t]

HalfIsLeft ==
  job.half # None => /\ job.kind = "done" /\ job.half \in Left
                     /\ job.todo[job.half] = "in-progress"

SettledSoFar ==
  job.kind = "done" =>
    \A t \in Existing \ Left :
      goal[t] = job.goal => state[t] # "in-progress" /\ ~goalBlocked[t]

LeftAreBound ==
  job.kind \in {"done", "failed"} => \A t \in Left : goal[t] = job.goal

JobOK ==
  /\ SnapshotIsCurrent /\ HalfIsLeft /\ SettledSoFar /\ LeftAreBound
  /\ job.kind = "bulk" => job.by \in Agents
  /\ job.kind = "none" => Left = {}

Inv == TypeOK /\ JobOK

LEMMA InitJob == Init => JobOK
<1> SUFFICES ASSUME Init PROVE JobOK
  OBVIOUS
<1>1. Left = {} /\ job.kind = "none" /\ job.half = None
  BY DEF Init, NoJob, Left
<1> QED
  BY <1>1 DEF JobOK, SnapshotIsCurrent, HalfIsLeft, SettledSoFar, LeftAreBound

\* Operations of one event need the lock, and then there is no job to disturb.
LEMMA FreeJob ==
  ASSUME Inv, Free, job' = job
  PROVE  JobOK' /\ job' \in Job
<1>1. job.kind = "none" /\ Left = {} /\ job.half = None
  BY DEF Inv, JobOK, HalfIsLeft, Free
<1>2. Left' = {} /\ job'.kind = "none" /\ job'.half = None
  BY <1>1 DEF Left
<1>3. JobOK'
  BY <1>2 DEF JobOK, SnapshotIsCurrent, HalfIsLeft, SettledSoFar, LeftAreBound
<1> QED
  BY <1>3 DEF Inv, TypeOK

LEMMA NoJobNext ==
  ASSUME Inv, job' = NoJob,
         UNCHANGED <<state, deps, assignees, primary, goal, goalBlocked>>
  PROVE  Inv'
<1>1. Left' = {} /\ job'.kind = "none" /\ job'.half = None /\ job' \in Job
  BY NoJobType DEF Left, NoJob
<1>2. JobOK'
  BY <1>1 DEF JobOK, SnapshotIsCurrent, HalfIsLeft, SettledSoFar, LeftAreBound
<1>3. TypeOK'
  BY <1>1 DEF Inv, TypeOK, Existing
<1> QED
  BY <1>2, <1>3 DEF Inv

LEMMA MoveOnly ==
  ASSUME Inv, Free, NEW t \in Tickets, NEW s \in States, Move(t, s),
         UNCHANGED <<deps, assignees, primary, goal, goalBlocked, job>>
  PROVE  Inv'
  BY FreeJob, TypeMove DEF Inv

\* Every operation of one event keeps the types and the jobs.
LEMMA OpenStep ==
  ASSUME Inv, NEW t \in Tickets, Open(t)
  PROVE  Inv'
<1>1. JobOK' /\ job' \in Job
  BY FreeJob DEF Open
<1>2. Move(t, "open") /\ "open" \in States
  BY DEF Open, States
<1>3. /\ state' \in [Tickets -> States \cup {"absent"}]
      /\ Existing' = Existing \cup {t}
  BY <1>2, MoveType DEF Inv
<1>4. PICK D \in SUBSET Existing, a \in Agents \cup {None}, g \in Goals \cup {None} :
        /\ deps' = [deps EXCEPT ![t] = D]
        /\ primary' = [primary EXCEPT ![t] = a]
        /\ assignees' = [assignees EXCEPT ![t] = {a} \ {None}]
        /\ goal' = [goal EXCEPT ![t] = g]
  BY DEF Open
<1>5. deps' \in [Tickets -> SUBSET Existing']
  BY <1>3, <1>4 DEF Inv, TypeOK
<1>6. assignees' \in [Tickets -> SUBSET Agents]
  BY <1>4 DEF Inv, TypeOK
<1>7. primary' \in [Tickets -> Agents \cup {None}] /\ goal' \in [Tickets -> Goals \cup {None}]
  BY <1>4 DEF Inv, TypeOK
<1> QED
  BY <1>1, <1>3, <1>5, <1>6, <1>7 DEF Inv, TypeOK, Open

LEMMA AppointType ==
  ASSUME TypeOK, NEW t \in Tickets, NEW a \in Agents, Appoint(t, a)
  PROVE  assignees' \in [Tickets -> SUBSET Agents] /\ primary' \in [Tickets -> Agents \cup {None}]
  BY DEF Appoint, TypeOK

LEMMA AgentStep ==
  ASSUME Inv, NEW t \in Tickets, NEW a \in Agents,
         Assign(t, a) \/ Claim(t, a) \/ AddAssignee(t, a) \/ RemoveAssignee(t, a)
  PROVE  Inv'
<1>1. JobOK' /\ job' \in Job
  BY FreeJob DEF Assign, Claim, AddAssignee, RemoveAssignee
<1>2. CASE Assign(t, a)
  <2>1. assignees' \in [Tickets -> SUBSET Agents] /\ primary' \in [Tickets -> Agents \cup {None}]
    BY <1>2, AppointType DEF Inv, Assign
  <2> QED
    BY <1>1, <1>2, <2>1 DEF Inv, TypeOK, Assign, Existing
<1>3. CASE Claim(t, a)
  <2>1. assignees' \in [Tickets -> SUBSET Agents] /\ primary' \in [Tickets -> Agents \cup {None}]
    BY <1>3, AppointType DEF Inv, Claim
  <2>2. Move(t, "in-progress") /\ "in-progress" \in States
    BY <1>3 DEF Claim, States
  <2>3. state' \in [Tickets -> States \cup {"absent"}] /\ Existing \subseteq Existing'
    BY <2>2, MoveType DEF Inv
  <2> QED
    BY <1>1, <1>3, <2>1, <2>3 DEF Inv, TypeOK, Claim
<1>4. CASE AddAssignee(t, a)
  BY <1>1, <1>4 DEF Inv, TypeOK, AddAssignee, Existing
<1>5. CASE RemoveAssignee(t, a)
  <2>1. primary' \in [Tickets -> Agents \cup {None}]
    BY <1>5 DEF Inv, TypeOK, RemoveAssignee
  <2>2. assignees' \in [Tickets -> SUBSET Agents]
    BY <1>5 DEF Inv, TypeOK, RemoveAssignee
  <2> QED
    BY <1>1, <1>5, <2>1, <2>2 DEF Inv, TypeOK, RemoveAssignee, Existing
<1> QED
  BY <1>2, <1>3, <1>4, <1>5

LEMMA DependencyStep ==
  ASSUME Inv, NEW t \in Tickets, NEW d \in Tickets,
         AddDependency(t, d) \/ RemoveDependency(t, d)
  PROVE  Inv'
<1>1. JobOK' /\ job' \in Job
  BY FreeJob DEF AddDependency, RemoveDependency
<1>2. deps' \in [Tickets -> SUBSET Existing]
  BY DEF Inv, TypeOK, AddDependency, RemoveDependency
<1> QED
  BY <1>1, <1>2 DEF Inv, TypeOK, AddDependency, RemoveDependency, Existing

LEMMA BindStep ==
  ASSUME Inv, NEW t \in Tickets,
         UnbindGoal(t) \/ \E g \in Goals : BindGoal(t, g)
  PROVE  Inv'
<1>1. JobOK' /\ job' \in Job
  BY FreeJob DEF UnbindGoal, BindGoal
<1> QED
  BY <1>1 DEF Inv, TypeOK, UnbindGoal, BindGoal, Existing

----------------------------------------------------------------------------
(* The steps of the jobs.                                                  *)

LEMMA ReconcileStartStep ==
  ASSUME Inv, NEW g \in Goals, NEW verdict \in {"done", "failed"},
         ReconcileStart(g, verdict)
  PROVE  Inv'
<1>1. /\ job' \in Job /\ job'.kind = verdict /\ job'.goal = g
      /\ job'.half = None /\ Left' = {t \in Existing : goal[t] = g}
      /\ \A t \in Left' : job'.todo[t] = state[t]
  BY ReconcileStartType DEF Inv
<1>2. /\ UNCHANGED <<state, deps, assignees, primary, goal, goalBlocked>>
      /\ Existing' = Existing
  BY DEF ReconcileStart, Existing
<1>3. TypeOK'
  BY <1>1, <1>2 DEF Inv, TypeOK
<1>4. None \notin Tickets
  BY NoneAssumption DEF Ids
<1>5. SnapshotIsCurrent'
  BY <1>1, <1>2, <1>4 DEF SnapshotIsCurrent, Existing
<1>6. SettledSoFar' /\ LeftAreBound'
  BY <1>1, <1>2 DEF SettledSoFar, LeftAreBound
<1> QED
  BY <1>1, <1>3, <1>5, <1>6 DEF Inv, JobOK, HalfIsLeft

LEMMA BulkStartStep ==
  ASSUME Inv, NEW to \in States, NEW by \in Agents, NEW texts \in SUBSET TextsFor(to),
         BulkStart(to, by, texts)
  PROVE  Inv'
<1>1. /\ job' \in Job /\ job'.kind = "bulk" /\ job'.by \in Agents
      /\ job'.half = None /\ Left' \subseteq Existing
      /\ \A t \in Left' : job'.todo[t] = state[t]
  BY BulkStartType DEF Inv
<1>2. /\ UNCHANGED <<state, deps, assignees, primary, goal, goalBlocked>>
      /\ Existing' = Existing
  BY DEF BulkStart, Existing
<1>3. TypeOK'
  BY <1>1, <1>2 DEF Inv, TypeOK
<1>4. None \notin Tickets
  BY NoneAssumption DEF Ids
<1>5. SnapshotIsCurrent'
  BY <1>1, <1>2, <1>4 DEF SnapshotIsCurrent, Existing
<1> QED
  BY <1>1, <1>3, <1>5 DEF Inv, JobOK, HalfIsLeft, SettledSoFar, LeftAreBound

LEMMA ReconcileReviewStep ==
  ASSUME Inv, NEW t \in Tickets, ReconcileReview(t)
  PROVE  Inv' /\ state[t] = "in-progress" /\ t \in Existing
<1>1. /\ job.kind = "done" /\ job.half = None /\ t \in Left
      /\ job.todo[t] = "in-progress" /\ Move(t, "review")
      /\ job' = [job EXCEPT !.half = t]
      /\ UNCHANGED <<deps, assignees, primary, goal, goalBlocked>>
  BY DEF ReconcileReview
<1>2. None \notin Tickets /\ "review" \in States /\ job \in Job
  BY NoneAssumption DEF Ids, States, Inv, TypeOK
<1>3. t \in Existing /\ state[t] = "in-progress"
  BY <1>1, <1>2 DEF Inv, JobOK, SnapshotIsCurrent
<1>4. /\ job' \in Job /\ job'.kind = "done" /\ job'.half = t
      /\ job'.goal = job.goal /\ job'.todo = job.todo
  BY <1>1, <1>2 DEF Job
<1>5. Left' = Left
  BY <1>4 DEF Left
<1>6. /\ Existing' = Existing /\ state'[t] = "review"
      /\ \A u \in Tickets \ {t} : state'[u] = state[u]
  <2>1. /\ Existing' = Existing \cup {t} /\ state'[t] = "review"
        /\ \A u \in Tickets \ {t} : state'[u] = state[u]
    <3>1. TypeOK /\ Move(t, "review") /\ "review" \in States
      BY <1>1, <1>2 DEF Inv
    <3> QED
      BY <3>1, MoveType
  <2>2. Existing \cup {t} = Existing
    BY <1>3
  <2> QED
    BY <2>1, <2>2
<1>7. TypeOK'
  BY <1>1, <1>2, <1>4, TypeMove DEF Inv
<1>8. Left \subseteq Tickets
  BY LeftType DEF Inv
<1>9. SnapshotIsCurrent'
  BY <1>1, <1>2, <1>4, <1>5, <1>6, <1>8 DEF SnapshotIsCurrent, Inv, JobOK
<1>10. SettledSoFar'
  <2> SUFFICES ASSUME NEW u \in Existing \ Left, goal[u] = job.goal
               PROVE  state'[u] # "in-progress" /\ ~goalBlocked[u]
    BY <1>1, <1>4, <1>5, <1>6 DEF SettledSoFar
  <2>1. state[u] # "in-progress" /\ ~goalBlocked[u]
    BY <1>1 DEF Inv, JobOK, SettledSoFar
  <2> QED
    BY <1>6, <2>1 DEF Existing
<1>11. HalfIsLeft' /\ LeftAreBound'
  BY <1>1, <1>4, <1>5 DEF HalfIsLeft, LeftAreBound, Inv, JobOK
<1> QED
  BY <1>3, <1>4, <1>7, <1>9, <1>10, <1>11 DEF Inv, JobOK

LEMMA ReconcileRecordStep ==
  ASSUME Inv, NEW t \in Tickets, ReconcileRecord(t)
  PROVE  Inv'
<1>1. /\ job.kind \in {"done", "failed"} /\ t \in Left
      /\ job.kind = "done" =>
           job.half = t \/ (job.half = None /\ job.todo[t] # "in-progress")
      /\ goalBlocked' = [goalBlocked EXCEPT ![t] = (job.kind = "failed")]
      /\ job' = [job EXCEPT !.todo = Without(t), !.half = None]
      /\ UNCHANGED <<state, deps, assignees, primary, goal>>
  BY DEF ReconcileRecord
<1>2. /\ job' \in Job /\ job'.kind = job.kind /\ job'.goal = job.goal
      /\ job'.by = job.by /\ job'.half = None /\ Left' = Left \ {t}
      /\ \A u \in Left' : job'.todo[u] = job.todo[u]
  BY <1>1, TakeOffType DEF Inv
<1>3. Existing' = Existing
  BY <1>1 DEF Existing
<1>4. goalBlocked' \in [Tickets -> BOOLEAN]
  BY <1>1 DEF Inv, TypeOK
<1>5. TypeOK'
  BY <1>1, <1>2, <1>3, <1>4 DEF Inv, TypeOK
<1>6. None \notin Tickets /\ Left \subseteq Tickets
  BY NoneAssumption, LeftType DEF Inv, Ids
<1>7. \A u \in Left \ {t} : u # job.half
  BY <1>1, <1>6 DEF Inv, JobOK, HalfIsLeft
<1>8. SnapshotIsCurrent'
  BY <1>1, <1>2, <1>3, <1>6, <1>7 DEF SnapshotIsCurrent, Inv, JobOK
<1>9. SettledSoFar'
  <2> SUFFICES ASSUME job.kind = "done", NEW u \in Existing \ (Left \ {t}),
                      goal[u] = job.goal
               PROVE  state[u] # "in-progress" /\ ~goalBlocked'[u]
    BY <1>1, <1>2, <1>3 DEF SettledSoFar
  <2>1. CASE u = t
    <3>1. state[t] # "in-progress"
      BY <1>1 DEF Inv, JobOK, SnapshotIsCurrent
    <3>2. goalBlocked'[t] = FALSE
      BY <1>1 DEF Inv, TypeOK
    <3> QED
      BY <2>1, <3>1, <3>2
  <2>2. CASE u # t
    <3>1. state[u] # "in-progress" /\ ~goalBlocked[u]
      BY <2>2 DEF Inv, JobOK, SettledSoFar
    <3>2. goalBlocked'[u] = goalBlocked[u]
      BY <1>1, <2>2 DEF Inv, TypeOK, Existing
    <3> QED
      BY <3>1, <3>2
  <2> QED
    BY <2>1, <2>2
<1>10. LeftAreBound'
  BY <1>1, <1>2 DEF LeftAreBound, Inv, JobOK
<1> QED
  BY <1>1, <1>2, <1>5, <1>8, <1>9, <1>10 DEF Inv, JobOK, HalfIsLeft

LEMMA BulkMoveStep ==
  ASSUME Inv, NEW t \in Tickets, BulkMove(t)
  PROVE  /\ Inv' /\ Move(t, job.to) /\ job.to \in States
         /\ t \in Existing /\ job.to \in Transitions[state[t]]
<1>1. /\ job.kind = "bulk" /\ t \in Left /\ job.to \in Transitions[job.todo[t]]
      /\ Move(t, job.to)
      /\ IF job.todo[t] = "open" /\ job.to = "in-progress"
         THEN Appoint(t, job.by) ELSE UNCHANGED <<assignees, primary>>
      /\ job' = [job EXCEPT !.todo = Without(t)]
      /\ UNCHANGED <<deps, goal, goalBlocked>>
  BY DEF BulkMove, BulkAllowed
<1>2. /\ job' \in Job /\ job'.kind = job.kind /\ job'.by = job.by
      /\ job'.half = job.half /\ Left' = Left \ {t}
      /\ \A u \in Left' : job'.todo[u] = job.todo[u]
  BY <1>1, BulkTakeOffType DEF Inv
<1>3. job.half = None /\ None \notin Tickets /\ job.by \in Agents /\ Left \subseteq Tickets
  BY <1>1, NoneAssumption, LeftType DEF Inv, JobOK, HalfIsLeft, Ids
<1>4. t \in Existing /\ state[t] = job.todo[t]
  BY <1>1, <1>3 DEF Inv, JobOK, SnapshotIsCurrent
<1>5. job.to \in States
  BY DEF Inv, TypeOK, Job
<1>6. /\ state' \in [Tickets -> States \cup {"absent"}]
      /\ Existing' = Existing /\ \A u \in Tickets \ {t} : state'[u] = state[u]
  BY <1>1, <1>4, <1>5, MoveType DEF Inv
<1>7. assignees' \in [Tickets -> SUBSET Agents] /\ primary' \in [Tickets -> Agents \cup {None}]
  BY <1>1, <1>3, AppointType DEF Inv, TypeOK
<1>8. TypeOK'
  BY <1>1, <1>2, <1>6, <1>7 DEF Inv, TypeOK
<1>9. SnapshotIsCurrent'
  BY <1>2, <1>3, <1>6 DEF SnapshotIsCurrent, Inv, JobOK
<1> QED
  BY <1>1, <1>2, <1>3, <1>4, <1>5, <1>8, <1>9 DEF Inv, JobOK, HalfIsLeft, SettledSoFar, LeftAreBound

LEMMA BulkFailStep ==
  ASSUME Inv, NEW t \in Tickets, BulkFail(t)
  PROVE  Inv'
<1>1. /\ job.kind = "bulk" /\ t \in Left /\ job' = [job EXCEPT !.todo = Without(t)]
      /\ UNCHANGED <<state, deps, assignees, primary, goal, goalBlocked>>
      /\ Existing' = Existing
  BY DEF BulkFail, Existing
<1>2. /\ job' \in Job /\ job'.kind = job.kind /\ job'.by = job.by
      /\ job'.half = job.half /\ Left' = Left \ {t}
      /\ \A u \in Left' : job'.todo[u] = job.todo[u]
  BY <1>1, BulkTakeOffType DEF Inv
<1>3. job.half = None
  BY <1>1 DEF Inv, JobOK, HalfIsLeft
<1>4. TypeOK'
  BY <1>1, <1>2 DEF Inv, TypeOK
<1>5. SnapshotIsCurrent'
  BY <1>1, <1>2, <1>3 DEF SnapshotIsCurrent, Inv, JobOK
<1> QED
  BY <1>1, <1>2, <1>3, <1>4, <1>5 DEF Inv, JobOK, HalfIsLeft, SettledSoFar, LeftAreBound

----------------------------------------------------------------------------
LEMMA InvStep == Inv /\ [Next]_vars => Inv'
<1> SUFFICES ASSUME Inv, [Next]_vars PROVE Inv'
  OBVIOUS
<1>1. CASE UNCHANGED vars
  <2>1. Left' = Left /\ Existing' = Existing
    BY <1>1 DEF vars, Left, Existing
  <2> QED
    BY <1>1, <2>1 DEF vars, Inv, TypeOK, JobOK, SnapshotIsCurrent, HalfIsLeft, SettledSoFar, LeftAreBound
<1>2. ASSUME NEW t \in Tickets, Open(t) PROVE Inv'
  BY <1>2, OpenStep
<1>3. ASSUME NEW t \in Tickets,
             RequestReview(t) \/ ApproveReview(t) \/ RequestChanges(t) \/ Close(t) \/ Reopen(t)
      PROVE  Inv'
  <2>1. \E s \in States :
          Move(t, s) /\ Free /\ UNCHANGED <<deps, assignees, primary, goal, goalBlocked, job>>
    BY <1>3 DEF RequestReview, ApproveReview, RequestChanges, Close, Reopen, States
  <2> QED
    BY <2>1, MoveOnly
<1>4. ASSUME NEW t \in Tickets, UnbindGoal(t) \/ \E g \in Goals : BindGoal(t, g) PROVE Inv'
  BY <1>4, BindStep
<1>5. ASSUME NEW t \in Tickets, ReconcileReview(t) PROVE Inv'
  BY <1>5, ReconcileReviewStep
<1>6. ASSUME NEW t \in Tickets, ReconcileRecord(t) PROVE Inv'
  BY <1>6, ReconcileRecordStep
<1>7. ASSUME NEW t \in Tickets, BulkMove(t) PROVE Inv'
  BY <1>7, BulkMoveStep
<1>8. ASSUME NEW t \in Tickets, BulkFail(t) PROVE Inv'
  BY <1>8, BulkFailStep
<1>9. ASSUME NEW t \in Tickets, NEW a \in Agents,
             Assign(t, a) \/ Claim(t, a) \/ AddAssignee(t, a) \/ RemoveAssignee(t, a)
      PROVE  Inv'
  BY <1>9, AgentStep
<1>10. ASSUME NEW t \in Tickets, NEW d \in Tickets,
              AddDependency(t, d) \/ RemoveDependency(t, d)
       PROVE  Inv'
  BY <1>10, DependencyStep
<1>11. ASSUME NEW g \in Goals, NEW verdict \in {"done", "failed"}, ReconcileStart(g, verdict)
       PROVE  Inv'
  BY <1>11, ReconcileStartStep
<1>12. ASSUME NEW to \in States, NEW by \in Agents, NEW texts \in SUBSET TextsFor(to),
              BulkStart(to, by, texts)
       PROVE  Inv'
  BY <1>12, BulkStartStep
<1>13. CASE JobReturns \/ JobDies
  BY <1>13, NoJobNext DEF JobReturns, JobDies
<1> QED
  BY <1>1, <1>2, <1>3, <1>4, <1>5, <1>6, <1>7, <1>8, <1>9, <1>10, <1>11, <1>12, <1>13 DEF Next

\* The snapshot of the store has its types and depends on existing tickets only,
\* and a job's own snapshot stays current while the job holds the lock.
THEOREM InvCorrect == Spec => []Inv
<1>1. Init => Inv
  BY InitType, InitJob DEF Inv
<1> QED
  BY <1>1, InvStep, PTL DEF Spec

\* Every ticket keeps its types and depends only on tickets that were opened.
THEOREM TypeCorrect == Spec => []TypeOK
<1>1. Inv => TypeOK
  BY DEF Inv
<1> QED
  BY <1>1, InvCorrect, PTL

\* A reconciliation of a done goal that gets through its tickets leaves none of
\* them in progress or blocked by a goal, whatever earlier ones left half done.
THEOREM ReconciliationSettles == Spec => []GoalDoneSettles
<1>1. Inv => GoalDoneSettles
  BY DEF Inv, JobOK, SettledSoFar, GoalDoneSettles
<1> QED
  BY <1>1, InvCorrect, PTL

----------------------------------------------------------------------------
(* The dependency graph.                                                   *)

\* An edge from s to d that the search allows closes no cycle: a cyclic set would
\* hold s and d, and its part in a closed set that s is not in would be cyclic.
LEMMA AddEdgeAcyclic ==
  ASSUME NEW D \in [Tickets -> SUBSET Tickets], NEW s \in Tickets, NEW d \in Tickets,
         Acyclic(D), ~WouldCycle(D, s, d)
  PROVE  Acyclic([D EXCEPT ![s] = @ \cup {d}])
<1> DEFINE E == [D EXCEPT ![s] = @ \cup {d}]
<1>1. E[s] = D[s] \cup {d} /\ \A t \in Tickets \ {s} : E[t] = D[t]
  OBVIOUS
<1> HIDE DEF E
<1>2. PICK C \in SUBSET Tickets : d \in C /\ Closed(D, C) /\ s \notin C
  BY DEF WouldCycle
<1>3. SUFFICES ASSUME NEW S \in SUBSET Tickets, S # {}, \A t \in S : E[t] \cap S # {}
               PROVE  FALSE
  BY DEF Acyclic, E
<1>4. PICK u \in S : D[u] \cap S = {}
  BY <1>3 DEF Acyclic
<1>5. u = s /\ d \in S
  BY <1>1, <1>3, <1>4
<1>6. S \cap C \in SUBSET Tickets /\ S \cap C # {}
  BY <1>2, <1>5
<1>7. \A t \in S \cap C : D[t] \cap (S \cap C) # {}
  <2> TAKE t \in S \cap C
  <2>1. D[t] = E[t] /\ D[t] \subseteq C
    BY <1>1, <1>2 DEF Closed
  <2> QED
    BY <1>3, <2>1
<1> QED
  BY <1>6, <1>7 DEF Acyclic

\* Fewer edges make no cycle.
LEMMA RemoveEdgeAcyclic ==
  ASSUME NEW D \in [Tickets -> SUBSET Tickets], NEW s \in Tickets, NEW d, Acyclic(D)
  PROVE  Acyclic([D EXCEPT ![s] = @ \ {d}])
<1> DEFINE E == [D EXCEPT ![s] = @ \ {d}]
<1>1. \A t \in Tickets : E[t] \subseteq D[t]
  OBVIOUS
<1> HIDE DEF E
<1>2. Acyclic(E)
  BY <1>1 DEF Acyclic
<1> QED
  BY <1>2 DEF E

\* A new ticket depends on old ones, and no old one depends on it.
LEMMA OpenAcyclic ==
  ASSUME NEW D \in [Tickets -> SUBSET Tickets], NEW X \in SUBSET Tickets,
         NEW t \in Tickets \ X, NEW ds \in SUBSET X,
         \A u \in Tickets : D[u] \subseteq X, Acyclic(D)
  PROVE  Acyclic([D EXCEPT ![t] = ds])
<1> DEFINE E == [D EXCEPT ![t] = ds]
<1>1. E[t] = ds /\ \A u \in Tickets \ {t} : E[u] = D[u]
  OBVIOUS
<1> HIDE DEF E
<1>2. SUFFICES ASSUME NEW S \in SUBSET Tickets, S # {}
               PROVE  \E u \in S : E[u] \cap S = {}
  BY DEF Acyclic, E
<1>3. CASE S = {t}
  BY <1>1, <1>3
<1>4. CASE S # {t}
  <2>1. S \ {t} # {} /\ S \ {t} \in SUBSET Tickets
    BY <1>2, <1>4
  <2>2. PICK u \in S \ {t} : D[u] \cap (S \ {t}) = {}
    BY <2>1 DEF Acyclic
  <2> QED
    BY <1>1, <2>2
<1> QED
  BY <1>3, <1>4

LEMMA AcyclicStep == Inv /\ DependenciesAcyclic /\ [Next]_vars => DependenciesAcyclic'
<1> SUFFICES ASSUME Inv, DependenciesAcyclic, [Next]_vars PROVE DependenciesAcyclic'
  OBVIOUS
<1> USE DEF DependenciesAcyclic
<1>1. deps \in [Tickets -> SUBSET Existing] /\ Existing \in SUBSET Tickets
  BY DEF Inv, TypeOK, Existing
<1>2. deps \in [Tickets -> SUBSET Tickets]
  BY <1>1
<1>3. ASSUME NEW t \in Tickets, Open(t) PROVE Acyclic(deps')
  <2>1. PICK D \in SUBSET Existing : deps' = [deps EXCEPT ![t] = D]
    BY <1>3 DEF Open
  <2>2. t \in Tickets \ Existing
    BY <1>3 DEF Open
  <2> QED
    BY <1>1, <1>2, <2>1, <2>2, OpenAcyclic
<1>4. ASSUME NEW t \in Tickets, NEW d \in Tickets, AddDependency(t, d) PROVE Acyclic(deps')
  BY <1>2, <1>4, AddEdgeAcyclic DEF AddDependency
<1>5. ASSUME NEW t \in Tickets, NEW d \in Tickets, RemoveDependency(t, d) PROVE Acyclic(deps')
  BY <1>2, <1>5, RemoveEdgeAcyclic DEF RemoveDependency
<1>6. CASE UNCHANGED deps
  BY <1>6 DEF Acyclic
<1>7. \/ UNCHANGED deps
      \/ \E t \in Tickets : Open(t)
      \/ \E t, d \in Tickets : AddDependency(t, d) \/ RemoveDependency(t, d)
  BY DEF Next, vars, Assign, Claim, AddAssignee, RemoveAssignee, RequestReview,
         ApproveReview, RequestChanges, Close, Reopen, BindGoal, UnbindGoal,
         ReconcileStart, ReconcileReview, ReconcileRecord, BulkStart, BulkMove,
         BulkFail, JobReturns, JobDies
<1> QED
  BY <1>3, <1>4, <1>5, <1>6, <1>7

\* However dependencies are given, added and removed, the graph stays acyclic.
THEOREM GraphStaysAcyclic == Spec => []DependenciesAcyclic
<1>1. Init => DependenciesAcyclic
  BY DEF Init, DependenciesAcyclic, Acyclic
<1> QED
  BY <1>1, AcyclicStep, InvCorrect, PTL DEF Spec

----------------------------------------------------------------------------
(* Assignees and transitions.                                              *)

LEMMA PrimaryStep == Inv /\ PrimaryIsAssignee /\ [Next]_vars => PrimaryIsAssignee'
<1> SUFFICES ASSUME Inv, PrimaryIsAssignee, [Next]_vars PROVE PrimaryIsAssignee'
  OBVIOUS
<1>1. /\ assignees \in [Tickets -> SUBSET Agents]
      /\ primary \in [Tickets -> Agents \cup {None}] /\ None \notin Agents
  BY NoneAssumption DEF Ids, Inv, TypeOK
<1>2. ASSUME NEW t \in Tickets, NEW a \in Agents, Appoint(t, a) PROVE PrimaryIsAssignee'
  BY <1>1, <1>2 DEF Appoint, PrimaryIsAssignee
<1>3. ASSUME NEW t \in Tickets, Open(t) PROVE PrimaryIsAssignee'
  BY <1>1, <1>3 DEF Open, PrimaryIsAssignee
<1>4. ASSUME NEW t \in Tickets, NEW a \in Agents, AddAssignee(t, a) PROVE PrimaryIsAssignee'
  BY <1>1, <1>4 DEF AddAssignee, PrimaryIsAssignee
<1>5. ASSUME NEW t \in Tickets, NEW a \in Agents, RemoveAssignee(t, a) PROVE PrimaryIsAssignee'
  <2>1. /\ a \in assignees[t] /\ assignees' = [assignees EXCEPT ![t] = @ \ {a}]
        /\ \/ primary[t] # a /\ UNCHANGED primary
           \/ primary[t] = a /\ \E b \in assignees[t] \ {a} :
                                   primary' = [primary EXCEPT ![t] = b]
           \/ primary[t] = a /\ assignees[t] = {a} /\ primary' = [primary EXCEPT ![t] = None]
    BY <1>5 DEF RemoveAssignee
  <2>2. assignees'[t] = assignees[t] \ {a}
    BY <1>1, <2>1
  <2>3. IF assignees'[t] = {} THEN primary'[t] = None ELSE primary'[t] \in assignees'[t]
    BY <1>1, <2>1, <2>2 DEF PrimaryIsAssignee
  <2>4. \A u \in Tickets \ {t} : assignees'[u] = assignees[u] /\ primary'[u] = primary[u]
    BY <1>1, <2>1
  <2> QED
    BY <2>3, <2>4 DEF PrimaryIsAssignee
<1>6. ASSUME NEW t \in Tickets, BulkMove(t) PROVE PrimaryIsAssignee'
  <2>1. job.by \in Agents
    BY <1>6 DEF Inv, JobOK, BulkMove
  <2> QED
    BY <1>2, <1>6, <2>1 DEF BulkMove, PrimaryIsAssignee
<1>7. CASE UNCHANGED <<assignees, primary>>
  BY <1>7 DEF PrimaryIsAssignee
<1>8. \/ UNCHANGED <<assignees, primary>>
      \/ \E t \in Tickets : Open(t) \/ BulkMove(t)
      \/ \E t \in Tickets, a \in Agents :
           Appoint(t, a) \/ AddAssignee(t, a) \/ RemoveAssignee(t, a)
  BY DEF Next, vars, Assign, Claim, RequestReview, ApproveReview, RequestChanges, Close,
         Reopen, BindGoal, UnbindGoal, AddDependency, RemoveDependency, ReconcileStart,
         ReconcileReview, ReconcileRecord, BulkStart, BulkFail, JobReturns, JobDies
<1> QED
  BY <1>2, <1>3, <1>4, <1>5, <1>6, <1>7, <1>8

\* The primary assignee of a ticket is always one of its assignees.
THEOREM PrimaryStaysAssignee == Spec => []PrimaryIsAssignee
<1>1. Init => PrimaryIsAssignee
  BY DEF Init, PrimaryIsAssignee
<1> QED
  BY <1>1, PrimaryStep, InvCorrect, PTL DEF Spec

\* One moved ticket follows the table when its own move does.
LEMMA MoveFollows ==
  ASSUME TypeOK, NEW t \in Tickets, NEW s \in States, Move(t, s),
         IF t \in Existing THEN s \in Transitions[state[t]] ELSE s = "open"
  PROVE  \A u \in Tickets :
           state'[u] # state[u] =>
             IF u \in Existing THEN state'[u] \in Transitions[state[u]]
                               ELSE state'[u] = "open"
  BY MoveType

LEMMA TransitionStep ==
  Inv /\ [Next]_vars =>
    [\A t \in Tickets :
       state'[t] # state[t] =>
         IF t \in Existing THEN state'[t] \in Transitions[state[t]]
                           ELSE state'[t] = "open"]_vars
<1> DEFINE Follows == \A t \in Tickets :
                        state'[t] # state[t] =>
                          IF t \in Existing THEN state'[t] \in Transitions[state[t]]
                                            ELSE state'[t] = "open"
<1> SUFFICES ASSUME Inv, Next PROVE Follows
  OBVIOUS
<1>1. TypeOK
  BY DEF Inv
<1>2. ASSUME NEW t \in Tickets, Open(t) PROVE Follows
  <2>1. t \notin Existing /\ Move(t, "open") /\ "open" \in States
    BY <1>2 DEF Open, States
  <2> QED
    BY <1>1, <2>1, MoveFollows
<1>3. ASSUME NEW t \in Tickets, BulkMove(t) PROVE Follows
  <2>1. Move(t, job.to) /\ job.to \in States /\ t \in Existing /\ job.to \in Transitions[state[t]]
    BY <1>3, BulkMoveStep
  <2> QED
    BY <1>1, <2>1, MoveFollows
<1>4. ASSUME NEW t \in Tickets,
             \/ RequestReview(t) \/ ApproveReview(t) \/ RequestChanges(t) \/ Close(t)
             \/ Reopen(t) \/ ReconcileReview(t) \/ \E a \in Agents : Claim(t, a)
      PROVE  Follows
  <2>1. ReconcileReview(t) => t \in Existing /\ state[t] = "in-progress" /\ Move(t, "review")
    BY ReconcileReviewStep DEF ReconcileReview
  <2>2. \E s \in States : Move(t, s) /\ t \in Existing /\ s \in Transitions[state[t]]
    BY <1>4, <2>1 DEF RequestReview, ApproveReview, RequestChanges, Close, Reopen, Claim,
                      CanMove, Transitions, States, Existing
  <2> QED
    BY <1>1, <2>2, MoveFollows
<1>5. CASE UNCHANGED state
  BY <1>5
<1>6. \/ UNCHANGED state
      \/ \E t \in Tickets : Open(t) \/ BulkMove(t)
      \/ \E t \in Tickets :
           \/ RequestReview(t) \/ ApproveReview(t) \/ RequestChanges(t) \/ Close(t)
           \/ Reopen(t) \/ ReconcileReview(t) \/ \E a \in Agents : Claim(t, a)
  BY DEF Next, Assign, AddAssignee, RemoveAssignee, BindGoal, UnbindGoal, AddDependency,
         RemoveDependency, ReconcileStart, ReconcileRecord, BulkStart, BulkFail,
         JobReturns, JobDies
<1> QED
  BY <1>2, <1>3, <1>4, <1>5, <1>6

LEMMA BlockStep ==
  Inv /\ [Next]_vars =>
    [\A t \in Tickets :
       goalBlocked'[t] # goalBlocked[t] =>
         /\ job.kind = IF goalBlocked[t] THEN "done" ELSE "failed"
         /\ goal[t] = job.goal /\ goal'[t] = job.goal]_vars
<1> SUFFICES ASSUME Inv, Next, NEW t \in Tickets, goalBlocked'[t] # goalBlocked[t]
             PROVE  /\ job.kind = IF goalBlocked[t] THEN "done" ELSE "failed"
                    /\ goal[t] = job.goal /\ goal'[t] = job.goal
  OBVIOUS
<1>1. PICK u \in Tickets : ReconcileRecord(u)
  BY DEF Next, Open, RequestReview, ApproveReview, RequestChanges, Close, Reopen, UnbindGoal,
         ReconcileReview, BulkMove, BulkFail, Assign, Claim, AddAssignee, RemoveAssignee,
         AddDependency, RemoveDependency, BindGoal, ReconcileStart, BulkStart, JobReturns,
         JobDies
<1>2. /\ job.kind \in {"done", "failed"} /\ u \in Left
      /\ goalBlocked' = [goalBlocked EXCEPT ![u] = (job.kind = "failed")]
      /\ goal' = goal
  BY <1>1 DEF ReconcileRecord
<1>3. u = t
  BY <1>2 DEF Inv, TypeOK
<1>4. goal[t] = job.goal
  BY <1>2, <1>3 DEF Inv, JobOK, LeftAreBound
<1>5. goalBlocked'[t] <=> job.kind = "failed"
  BY <1>2, <1>3 DEF Inv, TypeOK
<1>6. goalBlocked[t] \in BOOLEAN /\ goalBlocked'[t] \in BOOLEAN
  BY <1>2 DEF Inv, TypeOK
<1> QED
  BY <1>2, <1>4, <1>5, <1>6

\* goalBlockReason changes only by the reconciliation of the goal bound then.
THEOREM BlocksAreOfTheBound == Spec => GoalBlockOfTheBound
  BY BlockStep, InvCorrect, PTL DEF Spec, GoalBlockOfTheBound

\* Every move of a ticket, those of jobs that work from a snapshot included, is
\* along an edge of TRANSITIONS.
THEOREM MovesFollowTable == Spec => FollowsTransitions
  BY TransitionStep, InvCorrect, PTL DEF Spec, FollowsTransitions
=============================================================================
