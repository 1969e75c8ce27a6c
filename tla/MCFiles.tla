------------------------------ MODULE MCFiles -------------------------------
(* The components that are nothing but files which processes change, side by *)
(* side: the life of a goal, its sub-goals, the service clock of a ticket,   *)
(* the home of an agent host and the tree under the mutation sweep.  They    *)
(* share no state, and in each behaviour one of them moves.                  *)
EXTENDS MCGoalLoop, TicketClock, SubGoals, Installer, MutationSweep

CONSTANTS Parts  \* the components of the run

VARIABLE part

filesVars == <<vars, slaVars, subGoalVars, installVars, sweepVars, part>>

FilesInit ==
  /\ part \in Parts
  /\ Init /\ ClockInit /\ SubGoalsInit /\ InstallInit /\ SweepInit
  /\ part # "goal" => mode = CHOOSE m \in Plans : TRUE

GoalStep ==
  part = "goal" /\ Next /\ UNCHANGED <<slaVars, subGoalVars, installVars, sweepVars>>
ClockStep ==
  part = "clock" /\ ClockNext /\ UNCHANGED <<vars, subGoalVars, installVars, sweepVars>>
SubGoalStep ==
  part = "sub-goals" /\ SubGoalsNext /\ UNCHANGED <<vars, slaVars, installVars, sweepVars>>
InstallerStep ==
  part = "installer" /\ InstallNext /\ UNCHANGED <<vars, slaVars, subGoalVars, sweepVars>>
SweepStep ==
  part = "sweep" /\ SweepNext /\ UNCHANGED <<vars, slaVars, subGoalVars, installVars>>

FilesNext ==
  /\ UNCHANGED part
  /\ GoalStep \/ ClockStep \/ SubGoalStep \/ InstallerStep \/ SweepStep

FilesSpec == FilesInit /\ [][FilesNext]_filesVars

----------------------------------------------------------------------------
CONSTANTS lint, audit,     \* sub-goals: one of the goal's id, one no file can have
          release1,        \* the goal
          hotfix,          \* another goal, of an id under release1's
          checkout, moved, \* checkouts of the stack
          triage,          \* a skill
          version, smoke,  \* mutations, both of the same file
          package, notes   \* files of the tree

LintTwice    == <<lint, audit, lint>>
OneSkill     == <<triage>>
TwoCheckouts == {checkout, moved}
TwoMutations == <<version, smoke>>
BothInOne    == version :> package @@ smoke :> package
OneUpdated   == checkout :> 2 @@ moved :> 1
=============================================================================
