----------------------------- MODULE CronProofs -----------------------------
(***************************************************************************)
(* Proofs about the cron daemon, for any jobs and schedules and any        *)
(* crashes and failures.  For any number of daemons on one state file: a   *)
(* recorded slot is a slot of its job, and it has its claim and its fact.  *)
(* For a daemon that is alone with its state file: a slot is claimed again *)
(* only after a crash or a failure, and the file skips no slot.            *)
(***************************************************************************)
EXTENDS Cron, TLAPS

\* A slot of job j that has both of its records.
Complete(j, s) == s \in Schedule[j] /\ claims[j][s] > 0 /\ s \in facts[j]

\* The same in the next state.
CompleteNext(j, s) == s \in Schedule[j] /\ claims'[j][s] > 0 /\ s \in facts'[j]

\* What the daemons hold are slots, and what they hold as dispatched is complete.
DueAreSlots == \A p \in Daemons : \A j \in DOMAIN due[p] : due[p][j] \in Schedule[j]

DispatchedAreComplete ==
  \A p \in Daemons : \A j \in DOMAIN dispatched[p] : Complete(j, dispatched[p][j])

LastRunsAreComplete ==
  \A p \in Daemons, j \in Jobs : lastRun[p][j] # Never => Complete(j, lastRun[p][j])

FileIsComplete == \A j \in Jobs : file[j] # Never => Complete(j, file[j])

\* Between its claim and its fact a daemon is at a due job that has been claimed.
ClaimBeforeFact ==
  \A p \in Daemons :
    pc[p] = "fact" => /\ cur[p] \in DOMAIN due[p]
                      /\ claims[cur[p]][due[p][cur[p]]] > 0

Inv == /\ TypeOK /\ DueAreSlots /\ DispatchedAreComplete /\ LastRunsAreComplete
       /\ FileIsComplete /\ ClaimBeforeFact

----------------------------------------------------------------------------
LEMMA DueListType ==
  ASSUME NEW f \in DueLists
  PROVE  /\ DOMAIN f \in SUBSET Jobs
         /\ \A j \in DOMAIN f : f[j] \in Minutes
         /\ f \in [DOMAIN f -> Minutes]
<1>1. PICK S \in SUBSET Jobs : f \in [S -> Minutes]
  BY DEF DueLists
<1> QED
  BY <1>1

LEMMA MinutesNat == Minutes \subseteq Nat /\ Minutes \subseteq 0 .. MaxTime /\ Never \notin Minutes
  BY ScheduleAssumption DEF Schedules, Minutes, Never

LEMMA EmptyType == Empty \in DueLists /\ DOMAIN Empty = {}
<1>1. Empty \in [{} -> Minutes]
  BY DEF Empty
<1> QED
  BY <1>1 DEF DueLists, Empty

\* The due jobs of a map, with slots of their schedules.
LEMMA DueJobsType ==
  ASSUME NEW map
  PROVE  /\ DueJobs(map) \in DueLists
         /\ \A j \in DOMAIN DueJobs(map) : DueJobs(map)[j] \in Schedule[j]
<1> DEFINE J == {j \in Jobs : \E s \in Minutes : IsDue(map, j, s)}
           D == DueJobs(map)
<1>1. D = [j \in J |-> CHOOSE s \in Minutes : IsDue(map, j, s)]
  BY DEF DueJobs
<1>2. \A j \in J : D[j] \in Minutes /\ IsDue(map, j, D[j])
  BY <1>1
<1>3. D \in [J -> Minutes]
  BY <1>1, <1>2
<1>4. \A j \in J : D[j] \in Schedule[j]
  BY <1>2 DEF IsDue, IsNextRun
<1> QED
  BY <1>1, <1>3, <1>4 DEF DueLists

LEMMA DueWithoutType ==
  ASSUME TypeOK, NEW p \in Daemons, NEW j
  PROVE  /\ DueWithout(p, j) \in DueLists
         /\ DOMAIN DueWithout(p, j) = DOMAIN due[p] \ {j}
         /\ \A i \in DOMAIN due[p] \ {j} : DueWithout(p, j)[i] = due[p][i]
<1>1. due[p] \in DueLists
  BY DEF TypeOK
<1>2. /\ DOMAIN due[p] \in SUBSET Jobs
      /\ \A i \in DOMAIN due[p] : due[p][i] \in Minutes
  BY <1>1, DueListType
<1>3. DueWithout(p, j) \in [DOMAIN due[p] \ {j} -> Minutes]
  BY <1>2 DEF DueWithout
<1> QED
  BY <1>2, <1>3 DEF DueLists, DueWithout

----------------------------------------------------------------------------
LEMMA InitInv == Init => Inv
<1> SUFFICES ASSUME Init PROVE Inv
  OBVIOUS
<1> USE DEF Init
<1>1. \A p \in Daemons : DOMAIN due[p] = {} /\ DOMAIN dispatched[p] = {}
  BY EmptyType
<1>2. now \in Minutes
  BY ScheduleAssumption DEF Schedules, Minutes
<1>3. pc \in [Daemons -> Pc] /\ \A p \in Daemons : pc[p] # "fact"
  BY DEF Pc
<1>4. lastRun \in [Daemons -> LastRuns] /\ file \in LastRuns
  BY ScheduleAssumption DEF Schedules, LastRuns, Never
<1>5. due \in [Daemons -> DueLists] /\ dispatched \in [Daemons -> DueLists]
  BY EmptyType
<1>6. claims \in [Jobs -> [Minutes -> Nat]] /\ facts \in [Jobs -> SUBSET Minutes]
  OBVIOUS
<1>7. TypeOK
  BY <1>2, <1>3, <1>4, <1>5, <1>6 DEF TypeOK, Never
<1> QED
  BY <1>1, <1>3, <1>7 DEF Inv, DueAreSlots, DispatchedAreComplete, LastRunsAreComplete,
                          FileIsComplete, ClaimBeforeFact

----------------------------------------------------------------------------
(* The ledger only grows, so that what is complete stays complete.         *)

LEMMA ClaimType ==
  ASSUME TypeOK, NEW p \in Daemons, Claim(p)
  PROVE  \E i \in DOMAIN due[p] :
           /\ i \in Jobs /\ due[p][i] \in Minutes /\ cur' = [cur EXCEPT ![p] = i]
           /\ claims' = [claims EXCEPT ![i][due[p][i]] = @ + 1]
<1>1. due[p] \in DueLists
  BY DEF TypeOK
<1> QED
  BY <1>1, DueListType DEF Claim

LEMMA ClaimedStays ==
  ASSUME TypeOK, [Next]_vars, NEW j \in Jobs, NEW s \in Minutes, claims[j][s] > 0
  PROVE  claims'[j][s] > 0
<1>1. claims \in [Jobs -> [Minutes -> Nat]] /\ claims[j][s] \in Nat
  BY DEF TypeOK
<1>2. ASSUME NEW p \in Daemons, Claim(p) PROVE claims'[j][s] > 0
  <2>1. PICK i \in Jobs :
          due[p][i] \in Minutes /\ claims' = [claims EXCEPT ![i][due[p][i]] = @ + 1]
    BY <1>2, ClaimType
  <2>2. claims'[j][s] = claims[j][s] \/ claims'[j][s] = claims[j][s] + 1
    BY <1>1, <2>1
  <2> QED
    BY <1>1, <2>2
<1>3. UNCHANGED claims \/ \E p \in Daemons : Claim(p)
  BY DEF Next, Step, vars, ledger, Start, BeginTick, SeeStale, Break, ClaimFails, Fact,
         FactFails, Record, Save, Release, Stop, Crash, GrowStale, PassTime
<1> QED
  BY <1>2, <1>3

LEMMA CompleteStays ==
  ASSUME TypeOK, [Next]_vars, NEW j \in Jobs, NEW s, Complete(j, s)
  PROVE  CompleteNext(j, s)
<1>1. s \in Minutes
  BY ScheduleAssumption DEF Schedules, Complete
<1>2. claims'[j][s] > 0
  BY <1>1, ClaimedStays DEF Complete
<1>3. facts \in [Jobs -> SUBSET Minutes]
  BY DEF TypeOK
<1>4. ASSUME NEW p \in Daemons, Fact(p) PROVE facts[j] \subseteq facts'[j]
  BY <1>3, <1>4 DEF Fact
<1>5. UNCHANGED facts \/ \E p \in Daemons : Fact(p)
  BY DEF Next, Step, vars, ledger, Start, BeginTick, SeeStale, Break, Claim, ClaimFails,
         FactFails, Record, Save, Release, Stop, Crash, GrowStale, PassTime
<1>6. facts[j] \subseteq facts'[j]
  BY <1>4, <1>5
<1> QED
  BY <1>2, <1>6 DEF Complete, CompleteNext

----------------------------------------------------------------------------
(* Each part of the invariant, over the actions that touch it.             *)

LEMMA FileStep == Inv /\ [Next]_vars => FileIsComplete'
<1> SUFFICES ASSUME Inv, [Next]_vars PROVE FileIsComplete'
  OBVIOUS
<1>1. TypeOK
  BY DEF Inv
<1>2. CASE UNCHANGED file
  BY <1>1, <1>2, CompleteStays DEF Inv, FileIsComplete, Complete, CompleteNext
<1>3. ASSUME NEW p \in Daemons, file' = lastRun[p] PROVE FileIsComplete'
  BY <1>1, <1>3, CompleteStays
  DEF Inv, FileIsComplete, LastRunsAreComplete, Complete, CompleteNext
<1>4. UNCHANGED file \/ \E p \in Daemons : file' = lastRun[p]
  BY DEF Next, Step, vars, Start, BeginTick, SeeStale, Break, Claim, ClaimFails, Fact,
         FactFails, Record, Save, Release, Stop, Crash, GrowStale, PassTime
<1> QED
  BY <1>2, <1>3, <1>4

LEMMA LastRunStep == Inv /\ [Next]_vars => LastRunsAreComplete'
<1> SUFFICES ASSUME Inv, [Next]_vars PROVE LastRunsAreComplete'
  OBVIOUS
<1>1. TypeOK /\ lastRun \in [Daemons -> LastRuns]
  BY DEF Inv, TypeOK
<1>2. CASE UNCHANGED lastRun
  BY <1>1, <1>2, CompleteStays DEF Inv, LastRunsAreComplete, Complete, CompleteNext
<1>3. ASSUME NEW p \in Daemons, Start(p) PROVE LastRunsAreComplete'
  <2> SUFFICES ASSUME NEW q \in Daemons, NEW j \in Jobs, lastRun'[q][j] # Never
               PROVE  CompleteNext(j, lastRun'[q][j])
    BY DEF LastRunsAreComplete, Complete, CompleteNext
  <2>1. lastRun'[q][j] = file[j] \/ lastRun'[q][j] = lastRun[q][j]
    BY <1>1, <1>3 DEF Start
  <2>2. Complete(j, lastRun'[q][j])
    BY <2>1 DEF Inv, FileIsComplete, LastRunsAreComplete
  <2> QED
    BY <1>1, <2>2, CompleteStays
<1>4. ASSUME NEW p \in Daemons, Record(p) PROVE LastRunsAreComplete'
  <2> SUFFICES ASSUME NEW q \in Daemons, NEW j \in Jobs, lastRun'[q][j] # Never
               PROVE  CompleteNext(j, lastRun'[q][j])
    BY DEF LastRunsAreComplete, Complete, CompleteNext
  <2>1. \/ lastRun'[q][j] = lastRun[q][j]
        \/ j \in DOMAIN dispatched[q] /\ lastRun'[q][j] = dispatched[q][j]
    BY <1>1, <1>4 DEF Record
  <2>2. Complete(j, lastRun'[q][j])
    BY <2>1 DEF Inv, DispatchedAreComplete, LastRunsAreComplete
  <2> QED
    BY <1>1, <2>2, CompleteStays
<1>5. UNCHANGED lastRun \/ \E p \in Daemons : Start(p) \/ Record(p)
  BY DEF Next, Step, vars, BeginTick, SeeStale, Break, Claim, ClaimFails, Fact,
         FactFails, Save, Release, Stop, Crash, GrowStale, PassTime
<1> QED
  BY <1>2, <1>3, <1>4, <1>5

LEMMA DispatchedStep == Inv /\ [Next]_vars => DispatchedAreComplete'
<1> SUFFICES ASSUME Inv, [Next]_vars PROVE DispatchedAreComplete'
  OBVIOUS
<1>1. TypeOK /\ dispatched \in [Daemons -> DueLists]
  BY DEF Inv, TypeOK
<1>2. \A p \in Daemons : DOMAIN dispatched[p] \subseteq Jobs
  BY <1>1, DueListType
<1>3. CASE UNCHANGED dispatched
  BY <1>1, <1>2, <1>3, CompleteStays
  DEF Inv, DispatchedAreComplete, Complete, CompleteNext
<1>4. ASSUME NEW p \in Daemons, dispatched' = [dispatched EXCEPT ![p] = Empty]
      PROVE  DispatchedAreComplete'
  <2> SUFFICES ASSUME NEW q \in Daemons, NEW j \in DOMAIN dispatched'[q]
               PROVE  CompleteNext(j, dispatched'[q][j])
    BY DEF DispatchedAreComplete, Complete, CompleteNext
  <2>1. dispatched'[q] = dispatched[q]
    BY <1>1, <1>4, EmptyType
  <2> QED
    BY <1>1, <1>2, <2>1, CompleteStays DEF Inv, DispatchedAreComplete
<1>5. ASSUME NEW p \in Daemons, Fact(p) PROVE DispatchedAreComplete'
  <2> DEFINE i == cur[p]
             s == due[p][i]
  <2>1. i \in DOMAIN due[p] /\ claims[i][s] > 0 /\ s \in Schedule[i]
    BY <1>5 DEF Inv, ClaimBeforeFact, DueAreSlots, Fact
  <2>2. due[p] \in DueLists
    BY DEF Inv, TypeOK
  <2>3. i \in Jobs /\ s \in Minutes
    BY <2>1, <2>2, DueListType
  <2>4. /\ facts' = [facts EXCEPT ![i] = @ \cup {s}]
        /\ UNCHANGED claims
        /\ dispatched' = [dispatched EXCEPT ![p] =
                            [k \in DOMAIN @ \cup {i} |-> IF k = i THEN s ELSE @[k]]]
    BY <1>5 DEF Fact
  <2>5. CompleteNext(i, s)
    <3>1. facts \in [Jobs -> SUBSET Minutes]
      BY DEF Inv, TypeOK
    <3>2. s \in facts'[i]
      BY <2>3, <2>4, <3>1
    <3> QED
      BY <2>1, <2>4, <3>2 DEF CompleteNext
  <2> HIDE DEF i, s
  <2> SUFFICES ASSUME NEW q \in Daemons, NEW j \in DOMAIN dispatched'[q]
               PROVE  CompleteNext(j, dispatched'[q][j])
    BY DEF DispatchedAreComplete, Complete, CompleteNext
  <2>6. \/ j = i /\ dispatched'[q][j] = s
        \/ j \in DOMAIN dispatched[q] /\ dispatched'[q][j] = dispatched[q][j]
    BY <1>1, <2>4
  <2> QED
    BY <1>1, <1>2, <2>5, <2>6, CompleteStays DEF Inv, DispatchedAreComplete
<1>6. \/ UNCHANGED dispatched
      \/ \E p \in Daemons : Fact(p) \/ dispatched' = [dispatched EXCEPT ![p] = Empty]
  BY DEF Next, Step, vars, Start, BeginTick, SeeStale, Break, Claim, ClaimFails,
         FactFails, Record, Save, Release, Stop, Crash, GrowStale, PassTime
<1> QED
  BY <1>3, <1>4, <1>5, <1>6

\* Every step changes at most one daemon's due list, and shortens it unless it
\* begins a tick.
LEMMA DueChange ==
  ASSUME Inv, [Next]_vars
  PROVE  \/ UNCHANGED due
         \/ \E p \in Daemons, f \in DueLists :
              /\ due' = [due EXCEPT ![p] = f] /\ pc'[p] # "fact"
              /\ \A j \in DOMAIN f : f[j] \in Schedule[j]
<1>1. TypeOK /\ pc \in [Daemons -> Pc]
  BY DEF Inv, TypeOK
<1>2. ASSUME NEW p \in Daemons, BeginTick(p)
      PROVE  /\ due' = [due EXCEPT ![p] = DueJobs(lastRun[p])] /\ pc'[p] # "fact"
             /\ DueJobs(lastRun[p]) \in DueLists
             /\ \A j \in DOMAIN DueJobs(lastRun[p]) : DueJobs(lastRun[p])[j] \in Schedule[j]
  BY <1>1, <1>2, DueJobsType DEF BeginTick, Goto
<1>3. ASSUME NEW p \in Daemons, Crash(p)
      PROVE  due' = [due EXCEPT ![p] = Empty] /\ pc'[p] # "fact"
  BY <1>1, <1>3 DEF Crash, Goto
<1>4. ASSUME NEW p \in Daemons, ClaimFails(p) \/ Fact(p) \/ FactFails(p)
      PROVE  \E j : due' = [due EXCEPT ![p] = DueWithout(p, j)] /\ pc'[p] # "fact"
  <2>1. CASE ClaimFails(p)
    BY <1>1, <2>1 DEF ClaimFails
  <2>2. CASE Fact(p)
    BY <1>1, <2>2 DEF Fact, Goto
  <2>3. CASE FactFails(p)
    BY <1>1, <2>3 DEF FactFails, Goto
  <2> QED
    BY <1>4, <2>1, <2>2, <2>3
<1>5. ASSUME NEW p \in Daemons, NEW j
      PROVE  /\ DueWithout(p, j) \in DueLists
             /\ \A i \in DOMAIN DueWithout(p, j) : DueWithout(p, j)[i] \in Schedule[i]
  <2>1. /\ DueWithout(p, j) \in DueLists
        /\ DOMAIN DueWithout(p, j) = DOMAIN due[p] \ {j}
        /\ \A i \in DOMAIN due[p] \ {j} : DueWithout(p, j)[i] = due[p][i]
    BY <1>1, DueWithoutType
  <2>2. \A i \in DOMAIN due[p] : due[p][i] \in Schedule[i]
    BY DEF Inv, DueAreSlots
  <2> QED
    BY <2>1, <2>2
<1>6. \/ UNCHANGED due
      \/ \E p \in Daemons : BeginTick(p) \/ Crash(p) \/ ClaimFails(p) \/ Fact(p) \/ FactFails(p)
  BY DEF Next, Step, vars, Start, SeeStale, Break, Claim, Record, Save, Release, Stop,
         GrowStale, PassTime
<1> QED
  BY <1>2, <1>3, <1>4, <1>5, <1>6, EmptyType

LEMMA DueStep == Inv /\ [Next]_vars => DueAreSlots' /\ due' \in [Daemons -> DueLists]
<1> SUFFICES ASSUME Inv, [Next]_vars PROVE DueAreSlots' /\ due' \in [Daemons -> DueLists]
  OBVIOUS
<1>1. due \in [Daemons -> DueLists]
  BY DEF Inv, TypeOK
<1>2. CASE UNCHANGED due
  BY <1>1, <1>2 DEF Inv, DueAreSlots
<1>3. ASSUME NEW p \in Daemons, NEW f \in DueLists, due' = [due EXCEPT ![p] = f],
             \A j \in DOMAIN f : f[j] \in Schedule[j]
      PROVE  DueAreSlots' /\ due' \in [Daemons -> DueLists]
  BY <1>1, <1>3 DEF Inv, DueAreSlots
<1> QED
  BY <1>2, <1>3, DueChange

LEMMA ClaimBeforeFactStep == Inv /\ [Next]_vars => ClaimBeforeFact'
<1> SUFFICES ASSUME Inv, [Next]_vars, NEW q \in Daemons, pc'[q] = "fact"
             PROVE  cur'[q] \in DOMAIN due'[q] /\ claims'[cur'[q]][due'[q][cur'[q]]] > 0
  BY DEF ClaimBeforeFact
<1>1. /\ TypeOK /\ due \in [Daemons -> DueLists] /\ pc \in [Daemons -> Pc]
      /\ cur \in [Daemons -> Jobs \cup {Nobody}]
  BY DEF Inv, TypeOK
<1>2. CASE Claim(q)
  <2>1. PICK i \in DOMAIN due[q] :
          /\ i \in Jobs /\ due[q][i] \in Minutes /\ cur' = [cur EXCEPT ![q] = i]
          /\ claims' = [claims EXCEPT ![i][due[q][i]] = @ + 1]
    BY <1>1, <1>2, ClaimType
  <2>2. cur'[q] = i /\ UNCHANGED due
    BY <1>1, <1>2, <2>1 DEF Claim
  <2>3. claims[i][due[q][i]] \in Nat /\ claims'[i][due[q][i]] = claims[i][due[q][i]] + 1
    BY <2>1 DEF Inv, TypeOK
  <2> QED
    BY <2>2, <2>3
<1>3. CASE ~Claim(q)
  <2>1. pc[q] = "fact" /\ cur'[q] = cur[q]
    <3>1. CASE UNCHANGED vars
      BY <3>1 DEF vars
    <3>2. ASSUME NEW p \in Daemons, Step(p) \/ Stop(p) \/ Crash(p), ~Claim(p)
          PROVE  \/ pc'[p] # "fact" /\ \A r \in Daemons \ {p} : pc'[r] = pc[r] /\ cur'[r] = cur[r]
                 \/ UNCHANGED <<pc, cur>>
      BY <1>1, <3>2 DEF Step, Goto, Start, BeginTick, SeeStale, Break, ClaimFails, Fact,
                        FactFails, Record, Save, Release, Stop, Crash
    <3>3. ASSUME NEW p \in Daemons, Claim(p)
          PROVE  \A r \in Daemons \ {p} : pc'[r] = pc[r] /\ cur'[r] = cur[r]
      BY <1>1, <3>3 DEF Claim, Goto
    <3>4. CASE GrowStale \/ PassTime
      BY <3>4 DEF GrowStale, PassTime
    <3> QED
      BY <1>3, <3>1, <3>2, <3>3, <3>4 DEF Next
  <2>2. due'[q] = due[q]
    BY <1>1, DueChange
  <2>3. cur[q] \in DOMAIN due[q] /\ claims[cur[q]][due[q][cur[q]]] > 0
    BY <2>1 DEF Inv, ClaimBeforeFact
  <2>4. cur[q] \in Jobs /\ due[q][cur[q]] \in Minutes
    BY <1>1, <2>3, DueListType
  <2> QED
    BY <1>1, <2>1, <2>2, <2>3, <2>4, ClaimedStays
<1> QED
  BY <1>2, <1>3

----------------------------------------------------------------------------
(* Types.                                                                  *)

\* A complete slot of a last-run map is a minute of the job's schedule.
LEMMA MapsStayTyped ==
  Inv /\ [Next]_vars =>
    /\ lastRun' \in [Daemons -> LastRuns] /\ file' \in LastRuns
    /\ \A p \in Daemons, j \in Jobs :
         {lastRun'[p][j], file'[j]} \subseteq Schedule[j] \cup {Never}
<1> SUFFICES ASSUME Inv, [Next]_vars
             PROVE  /\ lastRun' \in [Daemons -> LastRuns] /\ file' \in LastRuns
                    /\ \A p \in Daemons, j \in Jobs :
                         {lastRun'[p][j], file'[j]} \subseteq Schedule[j] \cup {Never}
  OBVIOUS
<1>1. /\ lastRun \in [Daemons -> LastRuns] /\ file \in LastRuns
      /\ dispatched \in [Daemons -> DueLists]
  BY DEF Inv, TypeOK
<1>2. file' \in LastRuns
  <2>1. UNCHANGED file \/ \E p \in Daemons : file' = lastRun[p]
    BY DEF Next, Step, vars, Start, BeginTick, SeeStale, Break, Claim, ClaimFails, Fact,
           FactFails, Record, Save, Release, Stop, Crash, GrowStale, PassTime
  <2> QED
    BY <1>1, <2>1
<1>3. lastRun' \in [Daemons -> LastRuns]
  <2>1. ASSUME NEW p \in Daemons, Record(p) PROVE lastRun' \in [Daemons -> LastRuns]
    <3>1. \A j \in DOMAIN dispatched[p] : dispatched[p][j] \in 0 .. MaxTime
      BY <1>1, DueListType, MinutesNat
    <3>2. lastRun[p] \in [Jobs -> 0 .. MaxTime]
      BY <1>1 DEF LastRuns
    <3>3. [j \in Jobs |-> IF j \in DOMAIN dispatched[p] THEN dispatched[p][j]
                          ELSE lastRun[p][j]] \in LastRuns
      BY <3>1, <3>2 DEF LastRuns
    <3>4. lastRun' = [lastRun EXCEPT ![p] =
            [j \in Jobs |-> IF j \in DOMAIN dispatched[p] THEN dispatched[p][j]
                            ELSE lastRun[p][j]]]
      BY <2>1, <1>1 DEF Record
    <3> QED
      BY <1>1, <3>3, <3>4
  <2>2. ASSUME NEW p \in Daemons, Start(p) PROVE lastRun' \in [Daemons -> LastRuns]
    BY <1>1, <2>2 DEF Start
  <2>3. UNCHANGED lastRun \/ \E p \in Daemons : Start(p) \/ Record(p)
    BY DEF Next, Step, vars, BeginTick, SeeStale, Break, Claim, ClaimFails, Fact,
           FactFails, Save, Release, Stop, Crash, GrowStale, PassTime
  <2> QED
    BY <1>1, <2>1, <2>2, <2>3
<1>4. LastRunsAreComplete' /\ FileIsComplete'
  BY LastRunStep, FileStep
<1>5. \A p \in Daemons, j \in Jobs :
        {lastRun'[p][j], file'[j]} \subseteq Schedule[j] \cup {Never}
  BY <1>4 DEF LastRunsAreComplete, FileIsComplete, Complete
<1> QED
  BY <1>2, <1>3, <1>5

LEMMA DispatchedStaysTyped ==
  Inv /\ [Next]_vars => dispatched' \in [Daemons -> DueLists]
<1> SUFFICES ASSUME Inv, [Next]_vars PROVE dispatched' \in [Daemons -> DueLists]
  OBVIOUS
<1>1. TypeOK /\ dispatched \in [Daemons -> DueLists] /\ due \in [Daemons -> DueLists]
  BY DEF Inv, TypeOK
<1>2. ASSUME NEW p \in Daemons, Fact(p) PROVE dispatched' \in [Daemons -> DueLists]
  <2> DEFINE i == cur[p]
             s == due[p][i]
             f == [k \in DOMAIN dispatched[p] \cup {i} |->
                     IF k = i THEN s ELSE dispatched[p][k]]
  <2>1. i \in DOMAIN due[p]
    BY <1>2 DEF Inv, ClaimBeforeFact, Fact
  <2>2. i \in Jobs /\ s \in Minutes
    BY <1>1, <2>1, DueListType
  <2>3. /\ DOMAIN dispatched[p] \in SUBSET Jobs
        /\ \A k \in DOMAIN dispatched[p] : dispatched[p][k] \in Minutes
    BY <1>1, DueListType
  <2>4. dispatched' = [dispatched EXCEPT ![p] = f]
    BY <1>1, <1>2 DEF Fact
  <2> HIDE DEF i, s
  <2>5. f \in [DOMAIN dispatched[p] \cup {i} -> Minutes]
    BY <2>2, <2>3
  <2>6. f \in DueLists
    BY <2>2, <2>3, <2>5 DEF DueLists
  <2> HIDE DEF f
  <2> QED
    BY <1>1, <2>4, <2>6
<1>3. \/ UNCHANGED dispatched
      \/ \E p \in Daemons : Fact(p) \/ dispatched' = [dispatched EXCEPT ![p] = Empty]
  BY DEF Next, Step, vars, Start, BeginTick, SeeStale, Break, Claim, ClaimFails,
         FactFails, Record, Save, Release, Stop, Crash, GrowStale, PassTime
<1> QED
  BY <1>1, <1>2, <1>3, EmptyType

LEMMA LedgerStaysTyped ==
  Inv /\ [Next]_vars => /\ claims' \in [Jobs -> [Minutes -> Nat]]
                        /\ facts' \in [Jobs -> SUBSET Minutes]
<1> SUFFICES ASSUME Inv, [Next]_vars
             PROVE  /\ claims' \in [Jobs -> [Minutes -> Nat]]
                    /\ facts' \in [Jobs -> SUBSET Minutes]
  OBVIOUS
<1>1. /\ TypeOK /\ due \in [Daemons -> DueLists]
      /\ claims \in [Jobs -> [Minutes -> Nat]] /\ facts \in [Jobs -> SUBSET Minutes]
  BY DEF Inv, TypeOK
<1>2. ASSUME NEW p \in Daemons, Claim(p) PROVE claims' \in [Jobs -> [Minutes -> Nat]]
  <2>1. PICK i \in Jobs :
          due[p][i] \in Minutes /\ claims' = [claims EXCEPT ![i][due[p][i]] = @ + 1]
    BY <1>1, <1>2, ClaimType
  <2> QED
    BY <1>1, <2>1
<1>3. ASSUME NEW p \in Daemons, Fact(p) PROVE facts' \in [Jobs -> SUBSET Minutes]
  <2>1. cur[p] \in DOMAIN due[p]
    BY <1>3 DEF Inv, ClaimBeforeFact, Fact
  <2>2. cur[p] \in Jobs /\ due[p][cur[p]] \in Minutes
    BY <1>1, <2>1, DueListType
  <2>3. facts' = [facts EXCEPT ![cur[p]] = @ \cup {due[p][cur[p]]}]
    BY <1>3 DEF Fact
  <2> QED
    BY <1>1, <2>2, <2>3
<1>4. UNCHANGED claims \/ \E p \in Daemons : Claim(p)
  BY DEF Next, Step, vars, ledger, Start, BeginTick, SeeStale, Break, ClaimFails, Fact,
         FactFails, Record, Save, Release, Stop, Crash, GrowStale, PassTime
<1>5. UNCHANGED facts \/ \E p \in Daemons : Fact(p)
  BY DEF Next, Step, vars, ledger, Start, BeginTick, SeeStale, Break, Claim, ClaimFails,
         FactFails, Record, Save, Release, Stop, Crash, GrowStale, PassTime
<1> QED
  BY <1>1, <1>2, <1>3, <1>4, <1>5

\* The clock, the program counters, the lock and the counts.
LEMMA ControlStaysTyped ==
  Inv /\ [Next]_vars =>
    /\ now' \in Minutes /\ pc' \in [Daemons -> Pc] /\ cur' \in [Daemons -> Jobs \cup {Nobody}]
    /\ lock' \in Daemons \cup {Nobody} /\ stale' \in BOOLEAN
    /\ crashes' \in Nat /\ stops' \in Nat /\ failures' \in Nat
<1> SUFFICES ASSUME Inv, [Next]_vars
    PROVE /\ now' \in Minutes /\ pc' \in [Daemons -> Pc]
          /\ cur' \in [Daemons -> Jobs \cup {Nobody}]
          /\ lock' \in Daemons \cup {Nobody} /\ stale' \in BOOLEAN
          /\ crashes' \in Nat /\ stops' \in Nat /\ failures' \in Nat
  OBVIOUS
<1> USE DEF Next, Step, vars, counts
<1>1. TypeOK
  BY DEF Inv
<1>2. now' \in Minutes
  <2>1. UNCHANGED now \/ (now < MaxTime /\ now' = now + 1)
    BY DEF Start, BeginTick, SeeStale, Break, Claim, ClaimFails, Fact, FactFails, Record,
           Save, Release, Stop, Crash, GrowStale, PassTime
  <2> QED
    BY <1>1, <2>1, ScheduleAssumption DEF Schedules, TypeOK, Minutes
<1>3. pc' \in [Daemons -> Pc]
  <2>1. UNCHANGED pc \/ \E p \in Daemons, l \in Pc : Goto(p, l)
    BY DEF Start, BeginTick, SeeStale, Break, Claim, ClaimFails, Fact, FactFails, Record,
           Save, Release, Stop, Crash, GrowStale, PassTime, Pc
  <2> QED
    BY <1>1, <2>1 DEF TypeOK, Goto
<1>4. cur' \in [Daemons -> Jobs \cup {Nobody}]
  <2>1. \/ UNCHANGED cur
        \/ \E p \in Daemons : Claim(p) \/ cur' = [cur EXCEPT ![p] = Nobody]
    BY DEF Start, BeginTick, SeeStale, Break, ClaimFails, Fact, FactFails, Record,
           Save, Release, Stop, Crash, GrowStale, PassTime
  <2>2. ASSUME NEW p \in Daemons, Claim(p) PROVE cur' \in [Daemons -> Jobs \cup {Nobody}]
    <3>1. PICK i \in Jobs : cur' = [cur EXCEPT ![p] = i]
      BY <1>1, <2>2, ClaimType
    <3> QED
      BY <1>1, <3>1 DEF TypeOK
  <2> QED
    BY <1>1, <2>1, <2>2 DEF TypeOK
<1>5. lock' \in Daemons \cup {Nobody} /\ stale' \in BOOLEAN
  <2>1. \/ UNCHANGED <<lock, stale>>
        \/ UNCHANGED lock /\ stale' = TRUE
        \/ stale' = FALSE /\ \E p \in Daemons \cup {Nobody} : lock' = p
    BY DEF Start, BeginTick, SeeStale, Break, Claim, ClaimFails, Fact, FactFails, Record,
           Save, Release, Stop, Crash, GrowStale, PassTime
  <2> QED
    BY <1>1, <2>1 DEF TypeOK
<1>6. crashes' \in Nat /\ stops' \in Nat /\ failures' \in Nat
  <2>1. /\ UNCHANGED crashes \/ crashes' = crashes + 1
        /\ UNCHANGED stops \/ stops' = stops + 1
        /\ UNCHANGED failures \/ failures' = failures + 1
    BY DEF Start, BeginTick, SeeStale, Break, Claim, ClaimFails, Fact, FactFails, Record,
           Save, Release, Stop, Crash, GrowStale, PassTime, Fails
  <2> QED
    BY <1>1, <2>1 DEF TypeOK
<1> QED
  BY <1>2, <1>3, <1>4, <1>5, <1>6

----------------------------------------------------------------------------
\* Inv is inductive, and so it holds in every state of the program.
LEMMA InvStep == Inv /\ [Next]_vars => Inv'
<1> SUFFICES ASSUME Inv, [Next]_vars PROVE Inv'
  OBVIOUS
<1>1. TypeOK'
  BY MapsStayTyped, DispatchedStaysTyped, LedgerStaysTyped, ControlStaysTyped, DueStep
  DEF TypeOK
<1> QED
  BY <1>1, DueStep, DispatchedStep, LastRunStep, FileStep, ClaimBeforeFactStep DEF Inv

LEMMA InvAlways == Spec => []Inv
  BY InitInv, InvStep, PTL DEF Spec

\* The types of the daemon's state; and what it records as a job's last run, in
\* memory or in the state file, is a slot of that job's schedule.
THEOREM TypeCorrect == Spec => []TypeOK
<1>1. Inv => TypeOK
  BY DEF Inv
<1> QED
  BY <1>1, InvAlways, PTL

\* However the daemons die, overlap or fail to write: a slot that the state file
\* records has its claim and its fact on the ledger.
THEOREM RecordedIsComplete == Spec => []RecordedSlotIsComplete
<1>1. Inv => RecordedSlotIsComplete
  BY DEF Inv, FileIsComplete, RecordedSlotIsComplete, Complete
<1> QED
  BY <1>1, InvAlways, PTL

----------------------------------------------------------------------------
(* A daemon that is alone with its state file.                             *)

SingleDaemon == \A p, q \in Daemons : p = q

Ticking(p) == pc[p] \in {"dispatch", "fact"}

\* s is later than what p's map has for job j, and the first slot after it.
Follows(p, j, s) ==
  /\ s > lastRun[p][j]
  /\ lastRun[p][j] # Never => \A u \in Schedule[j] : u > lastRun[p][j] => s <= u

\* The same in the next state.
FollowsNext(p, j, s) ==
  /\ s > lastRun'[p][j]
  /\ lastRun'[p][j] # Never => \A u \in Schedule[j] : u > lastRun'[p][j] => s <= u

\* A tick goes through each of its due jobs once, and all are ahead of the map.
TickInOrder ==
  \A p \in Daemons :
    /\ pc[p] \in {"down", "idle", "break"} => DOMAIN dispatched[p] = {}
    /\ Ticking(p) => /\ DOMAIN due[p] \cap DOMAIN dispatched[p] = {}
                     /\ \A j \in DOMAIN due[p] : Follows(p, j, due[p][j])
                     /\ \A j \in DOMAIN dispatched[p] : Follows(p, j, dispatched[p][j])

\* The file is behind the map of the daemon, and what lies between them is complete.
FileIsBehind ==
  \A p \in Daemons, j \in Jobs :
    pc[p] # "down" =>
      /\ file[j] <= lastRun[p][j]
      /\ file[j] # Never =>
           \A s \in Schedule[j] : file[j] < s /\ s <= lastRun[p][j] => Complete(j, s)

\* The tick p is in has claimed slot s of job j and has not yet tried to save it.
InThisTick(p, j, s) ==
  \/ pc[p] = "save" /\ s <= lastRun[p][j]
  \/ Ticking(p) /\ j \in DOMAIN dispatched[p] /\ dispatched[p][j] = s
  \/ pc[p] = "fact" /\ cur[p] = j /\ due[p][j] = s

\* Of the slots the file has not passed, those outside the current tick have been
\* claimed only by ticks that died or failed.
LostClaimsAreCounted ==
  \A p \in Daemons, j \in Jobs, s \in Minutes :
    s > file[j] /\ ~InThisTick(p, j, s) => claims[j][s] <= crashes + failures

Alone == TickInOrder /\ FileIsBehind /\ DuplicatesAreCaused /\ LostClaimsAreCounted

LEMMA InitAlone == Init => Alone
<1> SUFFICES ASSUME Init PROVE Alone
  OBVIOUS
<1>1. /\ \A p \in Daemons : pc[p] = "down" /\ DOMAIN dispatched[p] = {}
      /\ \A j \in Jobs, s \in Minutes : claims[j][s] = 0
      /\ crashes = 0 /\ failures = 0
  BY EmptyType DEF Init
<1> QED
  BY <1>1 DEF Alone, TickInOrder, FileIsBehind, DuplicatesAreCaused, LostClaimsAreCounted,
              Ticking

\* Every step that is not the environment's is one of the only daemon.
LEMMA OnlyMover ==
  ASSUME SingleDaemon, [Next]_vars, NEW p \in Daemons
  PROVE  \/ Step(p) \/ Stop(p) \/ Crash(p)
         \/ UNCHANGED <<pc, lastRun, due, cur, dispatched, file, claims, facts, crashes, failures>>
  BY DEF SingleDaemon, Next, vars, ledger, counts, GrowStale, PassTime

\* The types of what p holds for a job.
LEMMA HeldTypes ==
  ASSUME TypeOK, NEW p \in Daemons
  PROVE  /\ now \in Nat /\ now > 0
         /\ DOMAIN due[p] \subseteq Jobs /\ \A j \in DOMAIN due[p] : due[p][j] \in Nat
         /\ DOMAIN dispatched[p] \subseteq Jobs
         /\ \A j \in DOMAIN dispatched[p] : dispatched[p][j] \in Nat
         /\ \A j \in Jobs : lastRun[p][j] \in Nat /\ file[j] \in Nat
         /\ crashes \in Nat /\ failures \in Nat
<1>1. /\ now \in Minutes /\ due[p] \in DueLists /\ dispatched[p] \in DueLists
      /\ \A j \in Jobs : lastRun[p][j] \in 0 .. MaxTime /\ file[j] \in 0 .. MaxTime
  BY DEF TypeOK, LastRuns
<1>2. now \in Nat /\ now > 0
  BY <1>1, ScheduleAssumption DEF Schedules, Minutes
<1> QED
  BY <1>1, <1>2, DueListType, MinutesNat, ScheduleAssumption DEF Schedules, TypeOK

\* What a tick finds due follows the map it was given.
LEMMA DueFollows ==
  ASSUME TypeOK, NEW p \in Daemons, NEW j \in DOMAIN DueJobs(lastRun[p])
  PROVE  Follows(p, j, DueJobs(lastRun[p])[j])
<1> DEFINE map == lastRun[p]
           s == DueJobs(map)[j]
<1>1. j \in Jobs /\ s \in Minutes /\ IsDue(map, j, s)
  BY DEF DueJobs
<1>2. IsNextRun(j, Since(map, j), s)
  BY <1>1 DEF IsDue
<1>3. s \in Nat /\ now \in Nat /\ now > 0 /\ map[j] \in Nat
  BY <1>1, HeldTypes, MinutesNat
<1>4. CASE map[j] = Never
  BY <1>2, <1>3, <1>4 DEF IsNextRun, Since, Follows, Never
<1>5. CASE map[j] # Never
  BY <1>2, <1>5 DEF IsNextRun, Since, Follows
<1> QED
  BY <1>4, <1>5

LEMMA TickInOrderStep ==
  ASSUME SingleDaemon, Inv, TickInOrder, [Next]_vars
  PROVE  TickInOrder'
<1> SUFFICES ASSUME NEW p \in Daemons
    PROVE /\ pc'[p] \in {"down", "idle", "break"} => DOMAIN dispatched'[p] = {}
          /\ Ticking(p)' =>
               /\ DOMAIN due'[p] \cap DOMAIN dispatched'[p] = {}
               /\ \A j \in DOMAIN due'[p] : FollowsNext(p, j, due'[p][j])
               /\ \A j \in DOMAIN dispatched'[p] : FollowsNext(p, j, dispatched'[p][j])
  BY DEF TickInOrder, Ticking, Follows, FollowsNext
<1>1. /\ TypeOK /\ pc \in [Daemons -> Pc] /\ due \in [Daemons -> DueLists]
      /\ dispatched \in [Daemons -> DueLists]
  BY DEF Inv, TypeOK
<1>2. /\ pc[p] \in {"down", "idle", "break"} => DOMAIN dispatched[p] = {}
      /\ Ticking(p) => /\ DOMAIN due[p] \cap DOMAIN dispatched[p] = {}
                       /\ \A j \in DOMAIN due[p] : Follows(p, j, due[p][j])
                       /\ \A j \in DOMAIN dispatched[p] : Follows(p, j, dispatched[p][j])
  BY DEF TickInOrder
<1>3. ASSUME UNCHANGED lastRun, NEW j, NEW s, Follows(p, j, s)
      PROVE  FollowsNext(p, j, s)
  BY <1>3 DEF Follows, FollowsNext
<1>4. CASE UNCHANGED <<pc, lastRun, due, dispatched>>
  BY <1>2, <1>4 DEF Ticking, Follows, FollowsNext
<1>5. CASE BeginTick(p)
  <2>1. /\ pc[p] = "idle" /\ UNCHANGED <<lastRun, dispatched>>
        /\ due'[p] = DueJobs(lastRun[p]) /\ pc'[p] = "dispatch"
    BY <1>1, <1>5 DEF BeginTick, Goto
  <2>2. DOMAIN dispatched'[p] = {}
    BY <1>2, <2>1
  <2>3. \A j \in DOMAIN due'[p] : FollowsNext(p, j, due'[p][j])
    BY <1>1, <1>3, <2>1, DueFollows
  <2> QED
    BY <2>1, <2>2, <2>3
<1>6. CASE Claim(p)
  <2>1. Ticking(p) /\ pc'[p] = "fact" /\ UNCHANGED <<lastRun, due, dispatched>>
    BY <1>1, <1>6 DEF Claim, Goto, Ticking
  <2> QED
    BY <1>2, <2>1 DEF Follows, FollowsNext
<1>7. CASE Fact(p)
  <2> DEFINE i == cur[p]
             f == [k \in DOMAIN dispatched[p] \cup {i} |->
                     IF k = i THEN due[p][i] ELSE dispatched[p][k]]
  <2>1. /\ Ticking(p) /\ pc'[p] = "dispatch" /\ UNCHANGED lastRun
        /\ dispatched'[p] = f /\ due'[p] = DueWithout(p, i)
    BY <1>1, <1>7 DEF Fact, Goto, Ticking
  <2>2. i \in DOMAIN due[p]
    BY <1>7 DEF Inv, ClaimBeforeFact, Fact
  <2>3. /\ DOMAIN due'[p] = DOMAIN due[p] \ {i}
        /\ \A j \in DOMAIN due[p] \ {i} : due'[p][j] = due[p][j]
    <3>1. due'[p] = DueWithout(p, i)
      BY <2>1
    <3> HIDE DEF i, f
    <3> QED
      BY <1>1, <3>1, DueWithoutType
  <2> HIDE DEF i
  <2>4. /\ DOMAIN dispatched'[p] = DOMAIN dispatched[p] \cup {i}
        /\ \A j \in DOMAIN dispatched'[p] :
             dispatched'[p][j] = IF j = i THEN due[p][i] ELSE dispatched[p][j]
    BY <2>1
  <2>5. \A j \in DOMAIN due'[p] : FollowsNext(p, j, due'[p][j])
    BY <1>2, <1>3, <2>1, <2>3
  <2>6. \A j \in DOMAIN dispatched'[p] : FollowsNext(p, j, dispatched'[p][j])
    BY <1>2, <1>3, <2>1, <2>2, <2>4
  <2> QED
    BY <1>2, <2>1, <2>2, <2>3, <2>4, <2>5, <2>6
<1>8. ASSUME NEW i, Ticking(p), UNCHANGED <<lastRun, dispatched>>, due'[p] = DueWithout(p, i),
             pc'[p] = "dispatch"
      PROVE  /\ DOMAIN due'[p] \cap DOMAIN dispatched'[p] = {}
             /\ \A j \in DOMAIN due'[p] : FollowsNext(p, j, due'[p][j])
             /\ \A j \in DOMAIN dispatched'[p] : FollowsNext(p, j, dispatched'[p][j])
  <2>1. /\ DOMAIN due'[p] = DOMAIN due[p] \ {i}
        /\ \A j \in DOMAIN due[p] \ {i} : due'[p][j] = due[p][j]
    BY <1>1, <1>8, DueWithoutType
  <2> QED
    BY <1>2, <1>3, <1>8, <2>1
<1>9. CASE ClaimFails(p)
  <2>1. PICK i : due' = [due EXCEPT ![p] = DueWithout(p, i)]
    BY <1>9 DEF ClaimFails
  <2>2. /\ Ticking(p) /\ pc'[p] = "dispatch" /\ UNCHANGED <<lastRun, dispatched>>
    BY <1>9 DEF ClaimFails, Ticking
  <2> QED
    BY <1>1, <1>8, <2>1, <2>2
<1>10. CASE FactFails(p)
  <2>1. /\ Ticking(p) /\ pc'[p] = "dispatch" /\ UNCHANGED <<lastRun, dispatched>>
        /\ due'[p] = DueWithout(p, cur[p])
    BY <1>1, <1>10 DEF FactFails, Ticking, Goto
  <2> QED
    BY <1>8, <2>1
<1>11. CASE Start(p) \/ SeeStale(p) \/ Break(p) \/ Stop(p)
  <2>1. /\ pc[p] \in {"down", "idle", "break"} /\ pc'[p] \in {"down", "idle", "break"}
        /\ UNCHANGED dispatched
    BY <1>1, <1>11 DEF Start, SeeStale, Break, Stop, Goto
  <2> QED
    BY <1>2, <2>1 DEF Ticking
<1>12. CASE Crash(p) \/ Release(p)
  <2>1. pc'[p] \in {"down", "idle"} /\ dispatched'[p] = Empty
    BY <1>1, <1>12 DEF Crash, Release, Goto
  <2> QED
    BY <2>1, EmptyType DEF Ticking
<1>13. CASE Record(p) \/ Save(p)
  <2>1. pc'[p] \in {"save", "release"}
    BY <1>1, <1>13 DEF Record, Save, Goto
  <2> QED
    BY <2>1 DEF Ticking
<1> QED
  BY <1>4, <1>5, <1>6, <1>7, <1>8, <1>9, <1>10, <1>11, <1>12, <1>13, OnlyMover DEF Step, Ticking

LEMMA FileIsBehindStep ==
  ASSUME SingleDaemon, Inv, TickInOrder, FileIsBehind, [Next]_vars
  PROVE  FileIsBehind'
<1> SUFFICES ASSUME NEW p \in Daemons, NEW j \in Jobs, pc'[p] # "down"
    PROVE /\ file'[j] <= lastRun'[p][j]
          /\ file'[j] # Never =>
               \A s \in Schedule[j] :
                 file'[j] < s /\ s <= lastRun'[p][j] => CompleteNext(j, s)
  BY DEF FileIsBehind, Complete, CompleteNext
<1>1. /\ TypeOK /\ pc \in [Daemons -> Pc] /\ lastRun \in [Daemons -> LastRuns]
      /\ Schedule[j] \subseteq Nat
  BY ScheduleAssumption, MinutesNat DEF Inv, Schedules, TypeOK
<1>2. /\ file[j] \in Nat /\ lastRun[p][j] \in Nat
      /\ DOMAIN dispatched[p] \subseteq Jobs
      /\ \A i \in DOMAIN dispatched[p] : dispatched[p][i] \in Nat
  BY <1>1, HeldTypes
<1>3. \A s : Complete(j, s) => CompleteNext(j, s)
  BY <1>1, CompleteStays
<1>4. CASE pc[p] # "down" /\ UNCHANGED <<lastRun, file>>
  BY <1>3, <1>4 DEF FileIsBehind
<1>5. CASE Start(p)
  <2>1. lastRun'[p] = file /\ UNCHANGED file
    BY <1>1, <1>5 DEF Start
  <2> QED
    BY <1>1, <1>2, <2>1
<1>6. CASE Save(p) /\ file' = lastRun[p]
  <2>1. UNCHANGED lastRun
    BY <1>6 DEF Save
  <2> QED
    BY <1>1, <1>2, <1>6, <2>1
<1>7. CASE Record(p)
  <2>1. /\ pc[p] = "dispatch" /\ UNCHANGED file
        /\ lastRun'[p][j] = IF j \in DOMAIN dispatched[p] THEN dispatched[p][j]
                            ELSE lastRun[p][j]
    BY <1>1, <1>7 DEF Record
  <2>2. /\ file[j] <= lastRun[p][j]
        /\ file[j] # Never =>
             \A s \in Schedule[j] : file[j] < s /\ s <= lastRun[p][j] => Complete(j, s)
    BY <2>1 DEF FileIsBehind
  <2>3. CASE j \notin DOMAIN dispatched[p]
    BY <1>3, <2>1, <2>2, <2>3
  <2>4. CASE j \in DOMAIN dispatched[p]
    <3>1. Follows(p, j, dispatched[p][j]) /\ Complete(j, dispatched[p][j])
      BY <2>1, <2>4 DEF Inv, TickInOrder, Ticking, DispatchedAreComplete
    <3>2. dispatched[p][j] \in Nat /\ lastRun'[p][j] = dispatched[p][j]
      BY <1>2, <2>1, <2>4
    <3>3. file'[j] <= lastRun'[p][j]
      BY <1>2, <2>1, <2>2, <3>1, <3>2 DEF Follows
    <3>4. ASSUME file[j] # Never, NEW s \in Schedule[j], file[j] < s, s <= dispatched[p][j]
          PROVE  Complete(j, s)
      <4>1. CASE s <= lastRun[p][j]
        BY <2>2, <3>4, <4>1
      <4>2. CASE s > lastRun[p][j]
        <5>1. lastRun[p][j] # Never
          BY <1>2, <2>2, <3>4 DEF Never
        <5>2. dispatched[p][j] <= s
          BY <3>1, <4>2, <5>1 DEF Follows
        <5>3. s = dispatched[p][j]
          BY <1>1, <3>2, <3>4, <5>2
        <5> QED
          BY <3>1, <5>3
      <4> QED
        BY <1>1, <1>2, <4>1, <4>2
    <3> QED
      BY <1>3, <2>1, <3>2, <3>3, <3>4
  <2> QED
    BY <2>3, <2>4
<1>8. CASE UNCHANGED <<pc, lastRun, file>>
  BY <1>4, <1>8
<1>9. \/ Start(p) \/ Record(p) \/ (Save(p) /\ file' = lastRun[p])
      \/ UNCHANGED <<pc, lastRun, file>> \/ (pc[p] # "down" /\ UNCHANGED <<lastRun, file>>)
  <2>1. ASSUME Crash(p) PROVE FALSE
    BY <1>1, <2>1 DEF Crash, Goto
  <2>2. ASSUME Stop(p) PROVE FALSE
    BY <1>1, <2>2 DEF Stop, Goto
  <2> QED
    BY <2>1, <2>2, OnlyMover DEF Step, BeginTick, SeeStale, Break, Claim, ClaimFails, Fact,
                                 FactFails, Save, Release
<1> QED
  BY <1>4, <1>5, <1>6, <1>7, <1>8, <1>9

----------------------------------------------------------------------------
\* What is ahead of the file and outside the tick after a step was so before it,
\* unless the step is counted or claims a slot.
LEMMA LostStaysLost ==
  ASSUME SingleDaemon, Inv, TickInOrder, FileIsBehind, [Next]_vars, NEW p \in Daemons,
         ~Claim(p), UNCHANGED <<crashes, failures>>,
         NEW j \in Jobs, NEW s \in Minutes, s > file'[j], ~InThisTick(p, j, s)'
  PROVE  s > file[j] /\ ~InThisTick(p, j, s)
<1>1. /\ TypeOK /\ pc \in [Daemons -> Pc] /\ lastRun \in [Daemons -> LastRuns]
      /\ dispatched \in [Daemons -> DueLists] /\ crashes \in Nat /\ failures \in Nat
  BY DEF Inv, TypeOK
<1>2. s \in Nat /\ file[j] \in Nat /\ lastRun[p][j] \in Nat
  BY <1>1, HeldTypes, MinutesNat
<1>3. CASE UNCHANGED <<pc, lastRun, due, cur, dispatched, file>>
  BY <1>3 DEF InThisTick, Ticking
<1>4. CASE Start(p) \/ BeginTick(p) \/ SeeStale(p) \/ Break(p) \/ Release(p) \/ Stop(p)
  <2>1. pc[p] \in {"down", "idle", "break", "release"} /\ UNCHANGED file
    BY <1>4 DEF Start, BeginTick, SeeStale, Break, Release, Stop
  <2> QED
    BY <2>1 DEF InThisTick, Ticking
<1>5. CASE Fact(p)
  <2>1. /\ pc[p] = "fact" /\ pc'[p] = "dispatch" /\ UNCHANGED file
        /\ dispatched'[p] = [k \in DOMAIN dispatched[p] \cup {cur[p]} |->
             IF k = cur[p] THEN due[p][cur[p]] ELSE dispatched[p][k]]
    BY <1>1, <1>5 DEF Fact, Goto
  <2>2. ~(j \in DOMAIN dispatched'[p] /\ dispatched'[p][j] = s)
    BY <2>1 DEF InThisTick, Ticking
  <2>3. cur[p] \in DOMAIN due[p] /\ cur[p] \notin DOMAIN dispatched[p]
    BY <2>1 DEF Inv, ClaimBeforeFact, TickInOrder, Ticking
  <2> QED
    BY <2>1, <2>2, <2>3 DEF InThisTick, Ticking
<1>6. CASE Record(p)
  <2>1. /\ pc[p] = "dispatch" /\ pc'[p] = "save" /\ UNCHANGED file
        /\ lastRun'[p][j] = IF j \in DOMAIN dispatched[p] THEN dispatched[p][j]
                            ELSE lastRun[p][j]
    BY <1>1, <1>6 DEF Record, Goto
  <2> QED
    BY <1>2, <2>1 DEF InThisTick, Ticking
<1>7. CASE Save(p)
  <2>1. pc[p] = "save" /\ file' = lastRun[p]
    BY <1>1, <1>7 DEF Save, Fails
  <2>2. file[j] <= lastRun[p][j]
    BY <2>1 DEF FileIsBehind
  <2> QED
    BY <1>2, <2>1, <2>2 DEF InThisTick, Ticking
<1>8. ~Crash(p) /\ ~ClaimFails(p) /\ ~FactFails(p)
  BY <1>1 DEF Crash, ClaimFails, FactFails, Fails
<1> QED
  BY <1>3, <1>4, <1>5, <1>6, <1>7, <1>8, OnlyMover DEF Step

LEMMA CountsStep ==
  ASSUME SingleDaemon, Inv, Alone, [Next]_vars
  PROVE  DuplicatesAreCaused' /\ LostClaimsAreCounted'
<1>1. /\ TypeOK /\ claims \in [Jobs -> [Minutes -> Nat]] /\ pc \in [Daemons -> Pc]
      /\ crashes \in Nat /\ failures \in Nat
  BY DEF Inv, TypeOK
<1>2. /\ \A j \in Jobs, s \in Minutes : claims[j][s] \in Nat
      /\ \A j \in Jobs, s \in Minutes : claims[j][s] <= 1 + crashes + failures
  BY <1>1 DEF Alone, DuplicatesAreCaused
<1>3. CASE Daemons = {}
  <2>1. UNCHANGED <<claims, crashes, failures>>
    BY <1>3 DEF Next, vars, ledger, counts, GrowStale, PassTime
  <2> QED
    BY <1>3, <2>1 DEF Alone, DuplicatesAreCaused, LostClaimsAreCounted
<1>4. ASSUME NEW p \in Daemons PROVE DuplicatesAreCaused' /\ LostClaimsAreCounted'
  <2>1. \A q \in Daemons : q = p
    BY DEF SingleDaemon
  <2>2. \/ Claim(p) \/ UNCHANGED <<claims, crashes, failures>>
        \/ UNCHANGED claims /\ crashes' + failures' = crashes + failures + 1
    <3>1. CASE Crash(p) \/ ClaimFails(p) \/ FactFails(p) \/ Save(p)
      BY <1>1, <3>1 DEF Crash, ClaimFails, FactFails, Save, Fails, ledger
    <3>2. CASE Start(p) \/ BeginTick(p) \/ SeeStale(p) \/ Break(p) \/ Fact(p) \/ Record(p)
               \/ Release(p) \/ Stop(p)
      BY <3>2 DEF Start, BeginTick, SeeStale, Break, Fact, Record, Release, Stop, ledger, counts
    <3> QED
      BY <3>1, <3>2, OnlyMover DEF Step
  <2>3. CASE UNCHANGED claims /\ crashes' + failures' = crashes + failures + 1
    <3>1. \A j \in Jobs, s \in Minutes : claims'[j][s] <= crashes' + failures'
      BY <1>1, <1>2, <2>3
    <3>2. crashes' \in Nat /\ failures' \in Nat
      BY InvStep DEF Inv, TypeOK
    <3> QED
      BY <1>1, <1>2, <2>3, <3>1, <3>2 DEF DuplicatesAreCaused, LostClaimsAreCounted
  <2>4. CASE UNCHANGED <<claims, crashes, failures>> /\ ~Claim(p)
    <3>1. DuplicatesAreCaused'
      BY <1>2, <2>4 DEF DuplicatesAreCaused
    <3>2. ASSUME NEW j \in Jobs, NEW s \in Minutes, s > file'[j], ~InThisTick(p, j, s)'
          PROVE  claims'[j][s] <= crashes' + failures'
      BY <2>4, <3>2, LostStaysLost DEF Alone, LostClaimsAreCounted
    <3> QED
      BY <2>1, <3>1, <3>2 DEF LostClaimsAreCounted
  <2>5. CASE Claim(p)
    <3>1. PICK i \in DOMAIN due[p] :
            /\ i \in Jobs /\ due[p][i] \in Minutes /\ cur' = [cur EXCEPT ![p] = i]
            /\ claims' = [claims EXCEPT ![i][due[p][i]] = @ + 1]
      BY <1>1, <2>5, ClaimType
    <3>2. /\ pc[p] = "dispatch" /\ pc'[p] = "fact" /\ cur'[p] = i
          /\ UNCHANGED <<lastRun, due, dispatched, file, crashes, failures>>
      BY <1>1, <2>5, <3>1 DEF Claim, Goto, counts, Inv, TypeOK
    <3>3. due[p][i] > file[i]
      <4>1. file[i] <= lastRun[p][i] /\ Follows(p, i, due[p][i])
        BY <3>1, <3>2 DEF Alone, FileIsBehind, TickInOrder, Ticking
      <4> QED
        BY <1>1, <3>1, <4>1, HeldTypes DEF Follows
    <3>4. ~InThisTick(p, i, due[p][i])
      BY <3>2 DEF Alone, TickInOrder, InThisTick, Ticking
    <3>5. claims[i][due[p][i]] <= crashes + failures
      BY <3>1, <3>3, <3>4 DEF Alone, LostClaimsAreCounted
    <3>6. ASSUME NEW j \in Jobs, NEW s \in Minutes
          PROVE  \/ j = i /\ s = due[p][i] /\ claims'[j][s] = claims[j][s] + 1
                 \/ ~(j = i /\ s = due[p][i]) /\ claims'[j][s] = claims[j][s]
      BY <1>1, <3>1
    <3>7. DuplicatesAreCaused'
      BY <1>1, <1>2, <3>2, <3>5, <3>6 DEF DuplicatesAreCaused
    <3>8. ASSUME NEW j \in Jobs, NEW s \in Minutes, s > file'[j], ~InThisTick(p, j, s)'
          PROVE  claims'[j][s] <= crashes' + failures'
      <4>1. ~(j = i /\ s = due[p][i]) /\ ~InThisTick(p, j, s)
        BY <3>2, <3>8 DEF InThisTick, Ticking
      <4>2. claims[j][s] <= crashes + failures
        BY <3>2, <3>8, <4>1 DEF Alone, LostClaimsAreCounted
      <4> QED
        BY <3>2, <3>6, <4>1, <4>2
    <3> QED
      BY <2>1, <3>7, <3>8 DEF LostClaimsAreCounted
  <2> QED
    BY <2>2, <2>3, <2>4, <2>5
<1> QED
  BY <1>3, <1>4

LEMMA AloneStep ==
  ASSUME SingleDaemon, Inv, Alone, [Next]_vars
  PROVE  Alone'
  BY TickInOrderStep, FileIsBehindStep, CountsStep DEF Alone

\* A daemon that is alone claims a slot once, and once more at most for each death in
\* a tick and each failed write, over any restarts and backlogs.
THEOREM OneDaemonCausesDuplicates ==
  ASSUME SingleDaemon
  PROVE  Spec => []DuplicatesAreCaused
<1>1. Inv /\ Alone /\ [Next]_vars => Alone'
  BY AloneStep
<1>2. Alone => DuplicatesAreCaused
  BY DEF Alone
<1> QED
  BY <1>1, <1>2, InitAlone, InvAlways, PTL DEF Spec

\* The state file of a daemon that is alone never goes back and skips no slot.
THEOREM OneDaemonSkipsNothing ==
  ASSUME SingleDaemon
  PROVE  Spec => StateFileSkipsNothing
<1> DEFINE Forward ==
      \A j \in Jobs :
        file[j] # Never =>
          /\ file'[j] >= file[j]
          /\ {s \in Schedule[j] : file[j] < s /\ s <= file'[j]} \subseteq facts[j]
<1>1. Inv /\ Alone /\ [Next]_vars => Alone'
  BY AloneStep
<1>2. Inv /\ Alone /\ [Next]_vars => [Forward]_file
  <2> SUFFICES ASSUME Inv, Alone, [Next]_vars, file' # file, NEW j \in Jobs, file[j] # Never
               PROVE  /\ file'[j] >= file[j]
                      /\ \A s \in Schedule[j] : file[j] < s /\ s <= file'[j] => s \in facts[j]
    OBVIOUS
  <2>1. PICK p \in Daemons : Save(p) /\ file' = lastRun[p]
    BY DEF Next, Step, vars, Start, BeginTick, SeeStale, Break, Claim, ClaimFails, Fact,
           FactFails, Record, Save, Release, Stop, Crash, GrowStale, PassTime
  <2>2. pc[p] # "down" /\ file[j] \in Nat /\ lastRun[p][j] \in Nat
    BY <2>1, HeldTypes DEF Save, Inv
  <2> QED
    BY <2>1, <2>2 DEF Alone, FileIsBehind, Complete
<1>3. [][Forward]_file => StateFileSkipsNothing
  BY PTL DEF StateFileSkipsNothing
<1> QED
  BY <1>1, <1>2, <1>3, InitAlone, InvAlways, PTL DEF Spec
=============================================================================
