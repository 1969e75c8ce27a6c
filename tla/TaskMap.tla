------------------------------- MODULE TaskMap --------------------------------
(***************************************************************************)
(* What a TaskFlow runtime amounts to: a map from task ids to a state and   *)
(* the agent that touched the task last, which can be lost as a whole.      *)
(***************************************************************************)
CONSTANTS Ids, Agents, NoAgent,
          Inherited  \* the ids that can lose the map

VARIABLES state, agent

TaskStates == {"queued", "claimed", "waiting", "done", "failed", "blocked"}

Terminal == {"done", "failed"}

Init ==
  /\ state = [t \in Ids |-> "absent"]
  /\ agent = [t \in Ids |-> NoAgent]

There(t) == state[t] \notin {"absent", "lost"}

Set(t, s, a) ==
  /\ state' = [state EXCEPT ![t] = s]
  /\ agent' = [agent EXCEPT ![t] = a]

\* A task that is created again starts from the beginning.
Create(t) ==
  /\ state[t] # "lost"
  /\ Set(t, "queued", NoAgent)

Claim(t, a) ==
  /\ There(t) /\ state[t] \notin Terminal
  /\ Set(t, "claimed", a)

\* A finished task is reopened, too.
Pause(t, a, s) == There(t) /\ Set(t, s, a)

Complete(t, a, s) == There(t) /\ Set(t, s, a)

\* Whatever is said of a task that every object seems to have.
Lose(t) ==
  /\ t \in Inherited /\ state[t] = "absent"
  /\ state' = [u \in Ids |-> "lost"]
  /\ agent' = [u \in Ids |-> NoAgent]

Next ==
  \E t \in Ids :
    \/ Create(t) \/ Lose(t)
    \/ \E a \in Agents :
         \/ Claim(t, a)
         \/ \E s \in {"waiting", "blocked"} : Pause(t, a, s)
         \/ \E s \in {"done", "failed", "blocked"} : Complete(t, a, s)

Spec == Init /\ [][Next]_<<state, agent>>
=============================================================================
