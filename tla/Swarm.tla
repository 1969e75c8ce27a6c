------------------------------- MODULE Swarm --------------------------------
(***************************************************************************)
(* The swarm around one blackboard: daemons, coordinators and a parent of   *)
(* subagents, all of them processes of their own that meet in the ledger,   *)
(* and whoever else dispatches tasks: operators, the goal loop, cron.       *)
(***************************************************************************)
EXTENDS Agent, Coordination, Subagent

(***************************************************************************)
(* A scene is one constellation: the daemons, calls and parent that take    *)
(* part, the arguments of the calls, and how many records of which tasks    *)
(* other programs write.                                                    *)
(***************************************************************************)
CONSTANT Scenes

ASSUME ScenesAssumption ==
  \A s \in Scenes :
    /\ s.daemons \subseteq Daemons /\ s.parent \in BOOLEAN
    /\ s.calls \subseteq Coordinators /\ s.plan \in [Coordinators -> Plans]
    /\ s.tasks \subseteq Tasks /\ s.others \in Nat

\* The calls inject results for their own tasks alone, and the id of a child's
\* task is made of its parent's goal and its index.
ASSUME MocksAssumption ==
  \A s \in Scenes : s.parent =>
    \A c \in s.calls, k \in Children, ok \in BOOLEAN :
      <<ChildTask[k], ok>> \notin s.plan[c].mock

VARIABLES scene, others

vars == <<log, agentVars, coordVars, subVars, scene, others>>

Init ==
  /\ log = <<>>
  /\ AgentInit /\ CoordInit /\ SubInit
  /\ scene \in Scenes /\ others = 0
  /\ plan = scene.plan
  /\ ~scene.parent => mode = CHOOSE m \in Modes : TRUE

\* A claim of another program, also of a task that has been claimed, routed
\* or answered before: a lane of the goal loop or a cron job routes it to a
\* role, openclaw dispatch claims it for the orchestrator itself.
Dispatch(t, r) == Write(ClaimFor(t, r))

\* A result that none of the daemons wrote: an operator's, or a test's.
Report(t, r, ok) == Write(ResultBy(External, t, r, ok))

Other ==
  /\ others < scene.others
  /\ others' = others + 1
  /\ \E t \in scene.tasks, r \in Roles :
       Dispatch(t, r) \/ \E ok \in BOOLEAN : Report(t, r, ok)
  /\ UNCHANGED <<agentVars, coordVars, subVars, scene>>

Daemon(d) ==
  /\ d \in scene.daemons
  /\ AgentStep(d) \/ StartDaemon(d) \/ Signal(d) \/ CrashDaemon(d)
  /\ UNCHANGED <<coordVars, subVars, scene, others>>

Call(c) ==
  /\ c \in scene.calls
  /\ CoordStep(c)
  /\ UNCHANGED <<agentVars, subVars, scene, others>>

ParentStep ==
  /\ scene.parent
  /\ SubStep
  /\ UNCHANGED <<agentVars, coordVars, scene, others>>

Next ==
  \/ \E d \in Daemons : Daemon(d)
  \/ \E c \in Coordinators : Call(c)
  \/ ParentStep \/ Other

Spec == Init /\ [][Next]_vars

----------------------------------------------------------------------------
\* Two daemons of a role may both answer a task, but only when the later one
\* read the ledger before the first answer was there; and one daemon never
\* answers a task twice, restarts included (openclaw-agent:436, 547-553).
DuplicatesOverlap ==
  \A i, j \in DOMAIN log :
    /\ log[j].kind = "result" /\ log[j].proc \in Daemons
    /\ i \in ResultsOf(log[j].task) /\ i < j
    => log[j].read < i /\ log[i].proc # log[j].proc

\* A process runs the model for a task once: a task whose result or decision
\* could not be written, or that is blocked, is run again only by another
\* process (openclaw-agent:658, 743).
RunOncePerLife ==
  \A i, j \in DOMAIN log :
    /\ i # j /\ log[i].task = log[j].task
    /\ log[i].proc \in Daemons /\ log[i].proc = log[j].proc
    /\ log[i].life = log[j].life /\ log[i].kind \in {"usage", "blocked"}
    => log[j].kind \in {"result", "signature"}

\* A model call is made only for a task that the ledger, as this process read it,
\* routes to its role and holds no result of.  So a task is run and counted again
\* after a restart only while its result is missing, cut off by a crash, lost with a
\* failed append or never given by a blocked run; and nobody runs what only the
\* coordinators have claimed (openclaw-agent:436, 558, 658; fan-out.js:116).
RunsAreAskedFor ==
  \A j \in DOMAIN log :
    log[j].proc \in Daemons /\ log[j].kind \in {"usage", "blocked", "result"} =>
      /\ \E i \in ClaimsOf(log[j].task, log[j].role) : i <= log[j].read
      /\ \A i \in ResultsOf(log[j].task) : log[j].read < i

\* What a green verdict rests on stays on the ledger: a green first result of
\* every step of a chain and of the joiner, a green result of every task of a
\* fan-out and of every source, and as many answered voters as the quorum
\* when no voter is listed twice (fan-out.js:153, voting.js:153).
Green(t) == \E i \in ResultsOf(t) : log[i].ok

GreenFirst(t) == Answered(t) /\ FirstResult(t).ok

VerdictIsWitnessed ==
  /\ \A c \in Coordinators : cpc[c] = "returned" /\ won[c] =>
       CASE plan[c].pattern = "fan-out" -> \A t \in Wanted(c) : Green(t)
         [] plan[c].pattern = "chain" -> \A t \in Wanted(c) : GreenFirst(t)
         [] plan[c].pattern = "fan-in" ->
              GreenFirst(plan[c].joiner) /\ \A t \in Wanted(c) : Green(t)
         [] plan[c].pattern = "voting" ->
              /\ plan[c].threshold > 0 /\ ~plan[c].ownVotes =>
                   \E t \in Wanted(c) : Green(t)
              /\ Cardinality(Wanted(c)) = Len(ListOf(c)) =>
                   LET answered == {t \in Wanted(c) : Answered(t)}
                   IN Cardinality(answered) >=
                        Clamp(1, plan[c].quorum, Cardinality(Wanted(c)))
  /\ verdict = "ok" => \A k \in Children : GreenFirst(ChildTask[k])

\* A child that timed out leaves no result of its own, however late its
\* handler ends (subagent.js:168-198).
TimedOutStaysSilent ==
  \A k \in Children : child[k] = "timed-out" =>
    \A i \in ResultsOf(ChildTask[k]) : log[i].proc # Caller

\* The agent binary runs the task its parent spawns it for
\* (subagent.js:202: it handles its own writes).
SpawnedAgentRuns == \A k \in Children : exit[k] # 2
=============================================================================
