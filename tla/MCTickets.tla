----------------------------- MODULE MCTickets ------------------------------
(* TLC instances of Tickets, and the search of wouldCycle on small graphs.   *)
EXTENDS Tickets, Sequences, TLC, SequencesExt

CONSTANTS spec, code, ship,  \* tickets
          ana, bob,          \* agents
          beta, stable       \* goals

ThreeTickets == {spec, code, ship}
TwoAgents    == {ana, bob}
TwoGoals     == {beta, stable}

AllSymmetry == Permutations(ThreeTickets) \cup Permutations(TwoAgents)
                 \cup Permutations(TwoGoals)

\* Either not all tickets are open, or one agent works on tickets without goals:
\* dependencies among three tickets, and goals of two.
WideOrDeep ==
  \/ \E t \in Tickets : state[t] = "absent"
  \/ /\ \A t \in Tickets : goal[t] = None /\ ~goalBlocked[t]
     /\ Cardinality(UNION {assignees[t] : t \in Tickets}) <= 1

\* wouldCycle as it is written: a queue and the set of the visited.
RECURSIVE Search(_, _, _, _)
Search(D, start, queue, visited) ==
  IF queue = <<>> THEN FALSE
  ELSE LET cur == Head(queue) IN
       IF cur = start THEN TRUE
       ELSE IF cur \in visited THEN Search(D, start, Tail(queue), visited)
       ELSE Search(D, start, Tail(queue) \o SetToSeq(D[cur]), visited \cup {cur})

\* The search finds start exactly when WouldCycle says so, on every graph of
\* Tickets, the cyclic ones included.
ASSUME SearchAssumption ==
  \A D \in [Tickets -> SUBSET Tickets], s, d \in Tickets :
    Search(D, s, <<d>>, {}) = WouldCycle(D, s, d)
=============================================================================
