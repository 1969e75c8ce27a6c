---------------------------- MODULE Coordination -----------------------------
(***************************************************************************)
(* The coordination patterns above the blackboard: fan-out, fan-in, chain   *)
(* and voting.  A coordinator claims its tasks one append at a time, polls  *)
(* the results that others append, and returns a verdict or times out; a    *)
(* failing read or append, or a bad argument met late, is thrown out of the *)
(* call.  The TaskFlow mirror of a call is best effort and never read by    *)
(* it; it is left out.                                                      *)
(***************************************************************************)
EXTENDS Blackboard, FiniteSets

CONSTANTS
  Coordinators,  \* calls of a pattern
  Plans          \* the arguments a call may have

VARIABLES
  plan,   \* per coordinator: its arguments
  cpc,    \* where it is
  at,     \* the task it claims next, or the step of the chain it waits for
  used,   \* per task: what the coordinator made of its result
  won     \* ok of the returned trace

coordVars == <<plan, cpc, at, used, won>>

\* "unread" stands for a task the coordinator never asked about.
Reading == {"unread", "green", "red", "missing"}

(***************************************************************************)
(* tasks: in the order of the call, for agents of role; the task at a place *)
(* of broken lacks its id, or the role that voters and steps need.  A       *)
(* fan-in's tasks are its sources, its joiner is one more.  quorum counts   *)
(* votes, threshold is a percentage; ownVotes: the caller gives its own     *)
(* voteFromResult; mock are the results the call injects itself.            *)
(***************************************************************************)
Plan ==
  [pattern : {"fan-out", "fan-in", "chain", "voting"},
   tasks : Seq(Tasks), broken : SUBSET Nat, role : Roles, joiner : Tasks,
   quorum : Int, threshold : Int, ownVotes : BOOLEAN,
   mock : SUBSET (Tasks \X BOOLEAN)]

\* Every pattern refuses a call without tasks.
ASSUME PlansAssumption == \A p \in Plans : p \in Plan /\ p.tasks # <<>>

CoordInit ==
  /\ plan \in [Coordinators -> Plans]
  /\ cpc = [c \in Coordinators |-> IF plan[c].pattern = "fan-in"
                                   THEN "sources" ELSE "claim"]
  /\ at = [c \in Coordinators |-> 1]
  /\ used = [c \in Coordinators |-> [t \in Tasks |-> "unread"]]
  /\ won = [c \in Coordinators |-> FALSE]

ListOf(c) == plan[c].tasks
Wanted(c) == {ListOf(c)[i] : i \in DOMAIN ListOf(c)}

Colour(rec) == IF rec.ok THEN "green" ELSE "red"

\* What fan-out, voting and the sources of fan-in make of t: its last result.
LastSeen(t) == IF Answered(t) THEN Colour(LastResult(t)) ELSE "missing"

\* What chain and the joiner of fan-in make of t: its first result.
FirstSeen(t) == IF Answered(t) THEN Colour(FirstResult(t)) ELSE "missing"

ReadAll(c) == [t \in Tasks |-> IF t \in Wanted(c) THEN LastSeen(t) ELSE used[c][t]]

Return(c, ok) ==
  /\ cpc' = [cpc EXCEPT ![c] = "returned"]
  /\ won' = [won EXCEPT ![c] = ok]

----------------------------------------------------------------------------
\* claimTask, without a forRole: the claim is routed to the orchestrator.
ClaimTask(c) ==
  LET t == ListOf(c)[at[c]]
      last == at[c] = Len(ListOf(c))
  IN /\ cpc[c] = "claim" /\ at[c] \notin plan[c].broken
     /\ Write(ClaimFor(t, Orchestrator))
     /\ IF plan[c].pattern = "chain"
        THEN cpc' = [cpc EXCEPT ![c] = "step"] /\ UNCHANGED at
        ELSE /\ cpc' = [cpc EXCEPT ![c] = IF last THEN "wait" ELSE "claim"]
             /\ at' = [at EXCEPT ![c] = IF last THEN @ ELSE @ + 1]
     /\ UNCHANGED <<plan, used, won>>

\* A chain fails at a step without id or role, after the steps before it.
RefuseStep(c) ==
  /\ cpc[c] = "claim" /\ plan[c].pattern = "chain" /\ at[c] \in plan[c].broken
  /\ Return(c, FALSE)
  /\ UNCHANGED <<log, plan, at, used>>

\* A read or an append of the ledger throws, the timeout of its lock included; or
\* fan-out or voting meets a broken task, or voteFromResult throws.  What the call
\* has written stays.
CallThrows(c) ==
  /\ cpc[c] \notin {"returned", "threw"}
  /\ cpc' = [cpc EXCEPT ![c] = "threw"]
  /\ UNCHANGED <<log, plan, at, used, won>>

\* The tasks the coordinator waits for.
Asked(c) ==
  CASE cpc[c] = "wait" -> Wanted(c)
    [] cpc[c] = "sources" -> Wanted(c)
    [] cpc[c] = "step" -> {ListOf(c)[at[c]]}
    [] cpc[c] = "join" -> {plan[c].joiner}
    [] OTHER -> {}

\* mockResults: the call writes the results of the agents itself, right
\* after its claims, and waits when they are on the ledger.
InjectMock(c) ==
  \E m \in plan[c].mock :
    /\ cpc[c] # "sources" /\ m[1] \in Asked(c)
    /\ Write(ResultBy(Caller, m[1], plan[c].role, m[2]))
    /\ plan' = [plan EXCEPT ![c].mock = @ \ {m}]
    /\ UNCHANGED <<cpc, at, used, won>>

Polls(c, pc) ==
  cpc[c] = pc /\ \A m \in plan[c].mock : m[1] \notin Asked(c)

\* Mutation: only red results count against a fan-out.
FanOutReturnsUnlessRed(c) ==
  LET read == ReadAll(c) IN
    /\ Polls(c, "wait") /\ plan[c].pattern = "fan-out"
    /\ used' = [used EXCEPT ![c] = read]
    /\ Return(c, \A t \in Wanted(c) : read[t] # "red")
    /\ UNCHANGED <<log, plan, at>>

\* The poll that finds every result, or the one that finds the budget over.
FanOutReturns(c) ==
  LET read == ReadAll(c) IN
    /\ Polls(c, "wait") /\ plan[c].pattern = "fan-out"
    /\ used' = [used EXCEPT ![c] = read]
    /\ Return(c, \A t \in Wanted(c) : read[t] = "green")
    /\ UNCHANGED <<log, plan, at>>

Votes == {"approve", "reject", "abstain", "missing", "other"}

\* voteFromResult of the last results: its default, or whatever the caller's makes
\* of them.
VotesOn(c, read) ==
  LET of(t) == CASE read[t] = "missing" -> {"missing"}
                 [] read[t] # "missing" /\ plan[c].ownVotes -> Votes
                 [] read[t] = "green" -> {"approve"}
                 [] OTHER -> {"reject"}
  IN {vote \in [Wanted(c) -> Votes] : \A t \in Wanted(c) : vote[t] \in of(t)}

\* One ballot for each place of the list of voters.
Ballots(c, vote, S) == {i \in DOMAIN ListOf(c) : vote[ListOf(c)[i]] \in S}

Clamp(lo, n, hi) == IF n > hi THEN hi ELSE IF n < lo THEN lo ELSE n

Approves(c, vote) ==
  LET cast    == Cardinality(Ballots(c, vote, Votes \ {"missing"}))
      approve == Cardinality(Ballots(c, vote, {"approve"}))
  IN /\ cast >= Clamp(1, plan[c].quorum, Len(ListOf(c)))
     /\ 100 * approve >= Clamp(0, plan[c].threshold, 100)
                           * (IF cast > 0 THEN cast ELSE 1)

VotingReturns(c) ==
  LET read == ReadAll(c) IN
    /\ Polls(c, "wait") /\ plan[c].pattern = "voting"
    /\ used' = [used EXCEPT ![c] = read]
    /\ \E vote \in VotesOn(c, read) : Return(c, Approves(c, vote))
    /\ UNCHANGED <<log, plan, at>>

\* pollUpstream: the joiner is claimed when every source has a result, a red
\* one included; on a timeout it is not claimed at all.
SourcesSeen(c) ==
  LET read == ReadAll(c) IN
    /\ Polls(c, "sources")
    /\ used' = [used EXCEPT ![c] = read]
    /\ IF \A t \in Wanted(c) : Answered(t)
       THEN cpc' = [cpc EXCEPT ![c] = "joiner"] /\ UNCHANGED won
       ELSE Return(c, FALSE)
    /\ UNCHANGED <<log, plan, at>>

ClaimJoiner(c) ==
  /\ cpc[c] = "joiner"
  /\ Write(ClaimFor(plan[c].joiner, Orchestrator))
  /\ cpc' = [cpc EXCEPT ![c] = "join"]
  /\ UNCHANGED <<plan, at, used, won>>

JoinerReturns(c) ==
  LET j == plan[c].joiner
      read == [used[c] EXCEPT ![j] = FirstSeen(j)]
  IN /\ Polls(c, "join")
     /\ used' = [used EXCEPT ![c] = read]
     /\ Return(c, read[j] = "green" /\ \A t \in Wanted(c) : used[c][t] = "green")
     /\ UNCHANGED <<log, plan, at>>

\* One step of a chain: its result is there, or its own budget is over.
ChainStep(c) ==
  LET t == ListOf(c)[at[c]]
      read == [used[c] EXCEPT ![t] = FirstSeen(t)]
      last == at[c] = Len(ListOf(c))
  IN /\ Polls(c, "step")
     /\ used' = [used EXCEPT ![c] = read]
     /\ IF read[t] = "green" /\ ~last
        THEN /\ cpc' = [cpc EXCEPT ![c] = "claim"]
             /\ at' = [at EXCEPT ![c] = @ + 1]
             /\ UNCHANGED won
        ELSE Return(c, read[t] = "green") /\ UNCHANGED at
     /\ UNCHANGED <<log, plan>>

CoordStep(c) ==
  \/ ClaimTask(c) \/ RefuseStep(c) \/ InjectMock(c) \/ CallThrows(c)
  \/ FanOutReturns(c) \/ VotingReturns(c)
  \/ SourcesSeen(c) \/ ClaimJoiner(c) \/ JoinerReturns(c)
  \/ ChainStep(c)
=============================================================================
