------------------------------ MODULE MCSwarm --------------------------------
(* TLC instances of Swarm.                                                   *)
EXTENDS Swarm, TLC

CONSTANTS left, right,          \* daemons
          spec, code,           \* tasks of the coordinators
          part, rest,           \* the tasks of two subagents
          first, second,        \* coordinators
          builder, orchestrator \* roles

TwoDaemons == {left, right}
BuilderRole == [d \in TwoDaemons |-> builder]

LeftRestarts == left :> 2 @@ right :> 1

Arguments(pattern, tasks, quorum, threshold, mock) ==
  [pattern |-> pattern, tasks |-> tasks, broken |-> {}, role |-> builder, joiner |-> code,
   quorum |-> quorum, threshold |-> threshold, ownVotes |-> FALSE, mock |-> mock]

FanOut    == Arguments("fan-out", <<spec, code>>, 0, 0, {})
RedMock   == Arguments("fan-out", <<spec>>, 0, 0, {<<spec, FALSE>>})
Chain     == Arguments("chain", <<spec, code>>, 0, 0, {<<spec, TRUE>>})
FanIn     == Arguments("fan-in", <<spec>>, 0, 0, {<<code, TRUE>>})
Majority  == Arguments("voting", <<spec, code>>, 1, 50, {<<spec, FALSE>>})
SameTwice == Arguments("voting", <<spec, spec>>, 2, 0, {})


\* A later step or voter without its role, and a voteFromResult of the caller's.
ShortChain == [Chain EXCEPT !.broken = {2}]
NoVoter    == [Majority EXCEPT !.broken = {2}]
OwnVotes   == [Majority EXCEPT !.ownVotes = TRUE]

ManyPlans == {FanOut, RedMock, Chain, FanIn, Majority, SameTwice,
              ShortChain, NoVoter, OwnVotes}

TwoChildTasks == <<part, rest>>
AllModes == {"workers", "processes"}

AllTasks == {spec, code, part, rest}
TwoCalls == {first, second}
AllRoles == {builder, orchestrator}

Scene(ds, cs, p, q, parent, ts, n) ==
  [daemons |-> ds, calls |-> cs, plan |-> first :> p @@ second :> q,
   parent |-> parent, tasks |-> ts, others |-> n]

\* Two daemons and the claims of one role; a daemon and two tasks; a call and a
\* daemon; two calls and the results they wait for; a parent of two children, and a
\* daemon of their role.
DaemonsScene  == {Scene(TwoDaemons, {}, FanOut, FanOut, FALSE, {spec}, 1),
                  Scene({left}, {}, FanOut, FanOut, FALSE, {spec, code}, 2)}
CallScenes    == {Scene({right}, {first}, p, FanOut, FALSE, {spec}, 2) : p \in ManyPlans}
CallsScenes   == {Scene({}, TwoCalls, FanOut, Chain, FALSE, {spec, code}, 1),
                  Scene({}, TwoCalls, RedMock, Chain, FALSE, {spec}, 1),
                  Scene({}, TwoCalls, Majority, FanIn, FALSE, {spec}, 2)}
ParentScene   == {Scene({right}, {}, FanOut, FanOut, TRUE, {part}, 1)}
ManyScenes == DaemonsScene \cup CallScenes \cup CallsScenes \cup ParentScene
=============================================================================
