----------------------------- MODULE SwarmProofs -----------------------------
(* What the processes around one blackboard can rely on, for any number of   *)
(* daemons, calls, children, roles and tasks.  Nobody ever takes a record    *)
(* back, so what a step read stays true; the invariants say what each        *)
(* process has read, written and not written yet.                           *)
EXTENDS Swarm, FiniteSetTheorems, FunctionTheorems, SequenceTheorems,
        WellFoundedInduction, TLAPS

PcsOf(pattern) ==
  CASE pattern = "chain"  -> {"claim", "step", "returned", "threw"}
    [] pattern = "fan-in" -> {"sources", "joiner", "join", "returned", "threw"}
    [] OTHER              -> {"claim", "wait", "returned", "threw"}

CallsTypeOK ==
  /\ scene \in Scenes
  /\ plan \in [Coordinators -> Plan]
  /\ \A c \in Coordinators :
       /\ at[c] \in DOMAIN ListOf(c)
       /\ cpc[c] \in PcsOf(plan[c].pattern)
       /\ plan[c].mock \subseteq scene.plan[c].mock
  /\ at \in [Coordinators -> Nat]
  /\ cpc \in [Coordinators -> {"claim", "step", "wait", "sources", "joiner",
                               "join", "returned", "threw"}]
  /\ used \in [Coordinators -> [Tasks -> Reading]]
  /\ won \in [Coordinators -> BOOLEAN]

ChildrenTypeOK ==
  /\ child \in [Children -> {"new", "running", "unstarted"} \cup Settled]
  /\ claimed \subseteq Children
  /\ verdict \in {"none", "ok", "not ok", "threw"}

SwarmTypeOK == AgentTypeOK /\ CallsTypeOK /\ ChildrenTypeOK

(***************************************************************************)
(* What a daemon has not written yet.  A claim it took was unanswered when  *)
(* it read the ledger, so that every answer is behind that place, and none  *)
(* is its own, but a claim for its role is before it; and of this life it   *)
(* has no record of a claim it has not yet taken, or for which it is at its *)
(* model call.                                                              *)
(***************************************************************************)
Fresh(d, t) ==
  \A i \in ResultsOf(t) : readAt[d] < i /\ log[i].proc # d

Routed(d, t) == \E i \in ClaimsOf(t, RoleOf[d]) : i <= readAt[d]

ThisLife(d, t) ==
  {i \in DOMAIN log : log[i].proc = d /\ log[i].life = starts[d] /\ log[i].task = t}

DaemonOK(d) ==
  /\ readAt[d] <= Len(log)
  /\ \A t \in todo[d] : Fresh(d, t) /\ Routed(d, t) /\ t \notin processed[d]
  /\ apc[d] \in {"call", "result", "sign"} =>
       task[d] \in Tasks /\ task[d] \in processed[d] \ todo[d]
  /\ apc[d] \in {"call", "result"} => Fresh(d, task[d]) /\ Routed(d, task[d])
  /\ apc[d] = "call" => ThisLife(d, task[d]) = {}
  /\ apc[d] # "down" => \A t \in Tasks \ processed[d] : ThisLife(d, t) = {}
  /\ \A i \in DOMAIN log : log[i].proc = d =>
       log[i].life <= starts[d] /\ log[i].read <= Len(log)
         /\ log[i].kind \in {"result", "blocked", "usage", "signature"}

DaemonInv == \A d \in Daemons : DaemonOK(d)

(***************************************************************************)
(* What a call and a parent have behind them: a task they took for green is *)
(* green on the ledger, and a chain has passed every step before its place. *)
(***************************************************************************)
CallInv ==
  /\ \A c \in Coordinators, t \in Tasks : used[c][t] = "green" => Green(t)
  /\ \A c \in Coordinators :
       plan[c].pattern = "chain" /\ cpc[c] # "returned" =>
         \A i \in DOMAIN ListOf(c) : i < at[c] => GreenFirst(ListOf(c)[i])

ChildInv ==
  /\ \A k \in Children : child[k] = "done" => Answered(ChildTask[k])
  /\ scene.parent => \A k \in Children :
       child[k] \in {"new", "running", "timed-out"} =>
         \A i \in ResultsOf(ChildTask[k]) : log[i].proc # Caller
  /\ ~scene.parent => \A k \in Children : child[k] = "new"

SwarmInv ==
  /\ SwarmTypeOK
  /\ DaemonInv /\ DuplicatesOverlap /\ RunOncePerLife /\ RunsAreAskedFor
  /\ CallInv /\ ChildInv /\ VerdictIsWitnessed
----------------------------------------------------------------------------
(* The ledger.                                                              *)

\* A set of numbers has a least element.
LEMMA Least ==
  ASSUME NEW S, S \subseteq Nat, S # {}
  PROVE  \E m \in S : \A n \in S : m <= n
<1>1. PICK m \in S : \A n \in S : ~ (<<n, m>> \in OpToRel(<, Nat))
  BY WFMin, NatLessThanWellFounded
<1>2. \A n \in S : ~ (n < m)
  BY <1>1 DEF OpToRel
<1>3. \A n \in S : n \in Nat
  OBVIOUS
<1>4. m \in Nat /\ \A n \in S : m <= n
  BY <1>2, <1>3
<1> QED BY <1>4

\* A bounded set of numbers has a greatest element.
LEMMA Greatest ==
  ASSUME NEW S, S \subseteq Nat, S # {}, NEW b \in Nat, \A n \in S : n <= b
  PROVE  \E m \in S : \A n \in S : n <= m
<1> DEFINE U == {u \in Nat : \A n \in S : n <= u}
<1>1. PICK u \in U : \A v \in U : u <= v
  <2>1. U \subseteq Nat /\ U # {}
    OBVIOUS
  <2> QED BY <2>1, Least
<1>2. CASE u \in S
  BY <1>1, <1>2
<1>3. CASE u \notin S
  <2>1. \A n \in S : n <= u - 1 /\ 0 <= n
    BY <1>1, <1>3
  <2>2. u - 1 \in Nat
    <3>1. PICK n \in S : TRUE
      OBVIOUS
    <3> QED BY <1>1, <2>1, <3>1
  <2>3. u - 1 \in U
    BY <2>1, <2>2
  <2> QED BY <1>1, <2>3
<1> QED BY <1>2, <1>3

\* The first and the last result of an answered task are results of it.
LEMMA ResultsAreOrdered ==
  ASSUME log \in Seq(Record), NEW t \in Tasks, Answered(t)
  PROVE  /\ \E i \in ResultsOf(t) : /\ FirstResult(t) = log[i]
                                   /\ \A j \in ResultsOf(t) : i <= j
         /\ \E i \in ResultsOf(t) : LastResult(t) = log[i]
<1>1. ResultsOf(t) \subseteq Nat /\ Len(log) \in Nat
      /\ \A i \in ResultsOf(t) : i <= Len(log)
  BY DEF ResultsOf
<1>2. ResultsOf(t) # {}
  BY DEF Answered
<1>3. \E i \in ResultsOf(t) : \A j \in ResultsOf(t) : i <= j
  BY <1>1, <1>2, Least
<1>4. \E i \in ResultsOf(t) : \A j \in ResultsOf(t) : j <= i
  BY <1>1, <1>2, Greatest
<1>5. DEFINE first == CHOOSE i \in ResultsOf(t) : \A j \in ResultsOf(t) : i <= j
<1>6. first \in ResultsOf(t) /\ \A j \in ResultsOf(t) : first <= j
  BY <1>3
<1>7. DEFINE last == CHOOSE i \in ResultsOf(t) : \A j \in ResultsOf(t) : j <= i
<1>8. last \in ResultsOf(t)
  BY <1>4
<1>9. FirstResult(t) = log[first] /\ LastResult(t) = log[last]
  BY DEF FirstResult, LastResult
<1> QED BY <1>6, <1>8, <1>9

LEMMA RecordFields ==
  ASSUME log \in Seq(Record)
  PROVE  \A i \in DOMAIN log :
           /\ log[i].task \in Tasks /\ log[i].life \in Nat /\ log[i].read \in Nat
           /\ log[i].ok \in BOOLEAN
           /\ log[i].kind \in {"task-claim", "result", "blocked", "usage", "signature"}
<1>1. \A i \in DOMAIN log : log[i] \in Record
  OBVIOUS
<1> QED BY <1>1 DEF Record

\* What a step does to the ledger.
Grows == log' = log \/ \E rec \in Record : log' = Append(log, rec)

LEMMA RecordsStay ==
  ASSUME log \in Seq(Record), Grows
  PROVE  /\ log' \in Seq(Record)
         /\ Len(log) <= Len(log')
         /\ \A i \in DOMAIN log : i \in DOMAIN log' /\ log'[i] = log[i]
         /\ \A i \in DOMAIN log' : i \notin DOMAIN log => i = Len(log) + 1
BY DEF Grows

LEMMA WitnessesStay ==
  ASSUME log \in Seq(Record), Grows, NEW t \in Tasks
  PROVE  /\ Answered(t) => Answered(t)'
         /\ Green(t) => Green(t)'
         /\ GreenFirst(t) => GreenFirst(t)'
<1>1. /\ log' \in Seq(Record)
      /\ \A i \in DOMAIN log : i \in DOMAIN log' /\ log'[i] = log[i]
      /\ \A i \in DOMAIN log' : i \notin DOMAIN log => i = Len(log) + 1
  BY RecordsStay
<1>2. /\ ResultsOf(t) \subseteq ResultsOf(t)'
      /\ \A i \in ResultsOf(t)' : i \in ResultsOf(t) \/ i = Len(log) + 1
      /\ ResultsOf(t) \subseteq 1 .. Len(log)
  BY <1>1 DEF ResultsOf
<1>3. Answered(t) => Answered(t)'
  BY <1>2 DEF Answered
<1>4. Green(t) => Green(t)'
  BY <1>1, <1>2 DEF Green, ResultsOf
<1>5. ASSUME GreenFirst(t) PROVE GreenFirst(t)'
  <2>1. Answered(t) /\ Answered(t)' /\ FirstResult(t).ok
    BY <1>3, <1>5 DEF GreenFirst
  <2>2. PICK i \in ResultsOf(t) : /\ FirstResult(t) = log[i]
                                 /\ \A j \in ResultsOf(t) : i <= j
    BY <2>1, ResultsAreOrdered
  <2>3. i \in ResultsOf(t)' /\ \A j \in ResultsOf(t)' : i <= j
    BY <1>1, <1>2, <2>2
  <2>4. \A k : k \in ResultsOf(t)' /\ (\A j \in ResultsOf(t)' : k <= j) => k = i
    <3>1. ResultsOf(t)' \subseteq Nat
      BY <1>1 DEF ResultsOf
    <3> QED BY <2>3, <3>1
  <2>5. FirstResult(t)' = log'[i]
    BY <2>3, <2>4 DEF FirstResult
  <2>6. log'[i] = log[i]
    BY <1>1, <2>2 DEF ResultsOf
  <2> QED BY <2>1, <2>2, <2>5, <2>6 DEF GreenFirst
<1> QED BY <1>3, <1>4, <1>5
----------------------------------------------------------------------------
(* Who writes what, and the types.                                         *)

LEMMA AgentRecordType ==
  ASSUME AgentTypeOK, NEW d \in Daemons, task[d] \in Tasks,
         NEW kind \in {"result", "blocked", "usage", "signature"}
  PROVE  AgentRecord(d, kind) \in Record
BY DaemonsAssumption DEF AgentTypeOK, AgentRecord, Record

LEMMA ClaimType ==
  ASSUME NEW t \in Tasks, NEW r \in Roles
  PROVE  ClaimFor(t, r) \in Record
BY DEF ClaimFor, Record

LEMMA ResultType ==
  ASSUME NEW t \in Tasks, NEW r \in Roles, NEW ok \in BOOLEAN,
         NEW who \in {Caller, External}
  PROVE  ResultBy(who, t, r, ok) \in Record
BY DEF ResultBy, Record

\* What a daemon writes, and where it is when it does.
Writes(d, kind) ==
  /\ task[d] \in Tasks
  /\ \/ kind = "result" /\ apc[d] = "result"
     \/ kind \in {"blocked", "usage"} /\ apc[d] = "call"
     \/ kind = "signature" /\ apc[d] = "sign"
  /\ AgentRecord(d, kind) \in Record
  /\ log' = Append(log, AgentRecord(d, kind))

DaemonWrites(d) ==
  log' = log \/ \E kind \in {"result", "blocked", "usage", "signature"} : Writes(d, kind)

LEMMA DaemonRecords ==
  ASSUME SwarmTypeOK, DaemonInv, NEW d \in Daemons, Daemon(d)
  PROVE  DaemonWrites(d) /\ Grows
<1> USE DEF SwarmTypeOK
<1>1. CASE log' = log
  BY <1>1 DEF DaemonWrites, Grows
<1>2. CASE log' # log
  <2>1. Block(d) \/ CountUsage(d) \/ Answer(d) \/ Sign(d)
    BY <1>2 DEF Daemon, AgentStep, Poll, PollInVain, Take, EndPass, Leave, StartDaemon,
       Signal, CrashDaemon
  <2>2. task[d] \in Tasks
    BY <2>1 DEF DaemonInv, DaemonOK, Block, CountUsage, Answer, Sign
  <2>3. PICK kind \in {"result", "blocked", "usage", "signature"} :
          /\ \/ kind = "result" /\ apc[d] = "result"
             \/ kind \in {"blocked", "usage"} /\ apc[d] = "call"
             \/ kind = "signature" /\ apc[d] = "sign"
          /\ log' = Append(log, AgentRecord(d, kind))
    BY <1>2, <2>1 DEF Block, CountUsage, Answer, Sign, WriteOutcome, Write
  <2>4. AgentRecord(d, kind) \in Record
    BY <2>2, AgentRecordType
  <2> QED BY <2>2, <2>3, <2>4 DEF DaemonWrites, Writes, Grows
<1> QED BY <1>1, <1>2

LEMMA DaemonTypes ==
  ASSUME SwarmTypeOK, DaemonInv, NEW d \in Daemons, Daemon(d)
  PROVE  AgentTypeOK'
<1>1. log' \in Seq(Record)
  BY DaemonRecords, RecordsStay DEF SwarmTypeOK, AgentTypeOK
<1> HIDE DEF Record
<1> USE DaemonsAssumption DEF SwarmTypeOK, AgentTypeOK, AgentPc
<1>2. CASE Gone(d) /\ UNCHANGED <<log, starts>>
  BY <1>1, <1>2 DEF Gone
<1>3. CASE StartDaemon(d)
  BY <1>1, <1>3 DEF StartDaemon
<1>4. CASE Poll(d)
  BY <1>1, <1>4 DEF Poll, Pending, OwnAnswers
<1>5. CASE Take(d)
  BY <1>1, <1>5 DEF Take
<1>6. CASE EndPass(d)
  BY <1>1, <1>6 DEF EndPass
<1>7. CASE Block(d) \/ Answer(d)
  BY <1>1, <1>7 DEF Block, Answer, WriteOutcome, Finish
<1>8. CASE CountUsage(d)
  BY <1>1, <1>8 DEF CountUsage
<1>9. CASE Sign(d)
  BY <1>1, <1>9 DEF Sign, Finish
<1>10. CASE Signal(d)
  BY <1>1, <1>10 DEF Signal
<1> QED BY <1>2, <1>3, <1>4, <1>5, <1>6, <1>7, <1>8, <1>9, <1>10
        DEF Daemon, AgentStep, PollInVain, Leave, CrashDaemon
----------------------------------------------------------------------------
(* Daemons.                                                                 *)

\* A record of somebody else is behind all that the daemon has read.
LEMMA ForeignRecord ==
  ASSUME AgentTypeOK, NEW e \in Daemons, DaemonOK(e),
         log' = log \/ \E rec \in Record : rec.proc # e /\ log' = Append(log, rec),
         apc'[e] = apc[e], todo'[e] = todo[e], task'[e] = task[e],
         processed'[e] = processed[e], readAt'[e] = readAt[e], starts'[e] = starts[e]
  PROVE  DaemonOK(e)'
<1> DEFINE New(i) == i = Len(log) + 1 /\ log'[i].proc # e
<1>1. /\ Len(log) <= Len(log') /\ Len(log) \in Nat /\ Len(log') \in Nat
      /\ DOMAIN log = 1 .. Len(log)
      /\ \A i \in DOMAIN log : i \in DOMAIN log' /\ log'[i] = log[i]
      /\ \A i \in DOMAIN log' : i \in DOMAIN log \/ New(i)
  <2>1. CASE log' = log
    BY <2>1 DEF AgentTypeOK
  <2>2. ASSUME NEW rec \in Record, rec.proc # e, log' = Append(log, rec)
        PROVE  <1>1!:
    BY <2>2 DEF AgentTypeOK
  <2> QED BY <2>1, <2>2
<1>2. readAt[e] \in Nat /\ readAt[e] <= Len(log)
  BY DEF AgentTypeOK, DaemonOK
<1>3. \A t : Fresh(e, t) => Fresh(e, t)'
  BY <1>1, <1>2 DEF Fresh, ResultsOf
<1>10. \A t : Routed(e, t) => Routed(e, t)'
  BY <1>1, <1>2 DEF Routed, ClaimsOf
<1>4. \A t : ThisLife(e, t) = {} => ThisLife(e, t)' = {}
  BY <1>1 DEF ThisLife
<1>5. \A i \in DOMAIN log' : log'[i].proc = e =>
         log'[i].life <= starts'[e] /\ log'[i].read <= Len(log')
           /\ log'[i].kind \in {"result", "blocked", "usage", "signature"}
  <2>1. \A i \in DOMAIN log : log[i].read \in Nat
    BY RecordFields DEF AgentTypeOK
  <2> QED BY <1>1, <2>1 DEF DaemonOK
<1>6. \A t \in todo[e] : Fresh(e, t)' /\ Routed(e, t)' /\ t \notin processed[e]
  BY <1>3, <1>10 DEF DaemonOK
<1>7. apc[e] \in {"call", "result"} => Fresh(e, task[e])' /\ Routed(e, task[e])'
  BY <1>3, <1>10 DEF DaemonOK
<1>8. /\ apc'[e] = "call" => ThisLife(e, task[e])' = {}
      /\ apc'[e] # "down" => \A t \in Tasks \ processed'[e] : ThisLife(e, t)' = {}
  BY <1>4 DEF DaemonOK, ThisLife
<1>9. apc'[e] \in {"call", "result", "sign"} =>
         task'[e] \in Tasks /\ task'[e] \in processed'[e] \ todo'[e]
  BY DEF DaemonOK
<1> QED BY <1>1, <1>2, <1>5, <1>6, <1>7, <1>8, <1>9 DEF DaemonOK

\* A step of a daemon that does not write.
LEMMA QuietStep ==
  ASSUME SwarmTypeOK, DaemonInv, NEW d \in Daemons, log' = log,
         \/ Gone(d) /\ UNCHANGED <<log, starts>>
         \/ StartDaemon(d) \/ Poll(d) \/ Take(d) \/ EndPass(d) \/ Signal(d)
  PROVE  DaemonOK(d)'
<1> USE DaemonsAssumption DEF SwarmTypeOK, AgentTypeOK, DaemonInv
<1>1. ASSUME NEW t PROVE /\ ResultsOf(t)' = ResultsOf(t)
                         /\ starts' = starts => ThisLife(d, t)' = ThisLife(d, t)
                         /\ readAt' = readAt => /\ Fresh(d, t)' = Fresh(d, t)
                                                /\ Routed(d, t)' = Routed(d, t)
  BY DEF ResultsOf, ThisLife, Fresh, Routed, ClaimsOf
<1>2. CASE Gone(d) /\ UNCHANGED <<log, starts>>
  BY <1>2 DEF Gone, DaemonOK
<1>3. CASE StartDaemon(d)
  <2>1. /\ apc'[d] = "poll" /\ starts'[d] = starts[d] + 1
        /\ UNCHANGED <<log, todo, processed, readAt>>
    BY <1>3 DEF StartDaemon
  <2> DEFINE life(i) == log[i].life
  <2>5. \A i \in DOMAIN log : life(i) \in Nat /\ (log[i].proc = d => life(i) <= starts[d])
    BY RecordFields DEF DaemonOK
  <2>6. starts[d] \in Nat
    OBVIOUS
  <2>2. \A i \in DOMAIN log : log[i].proc = d => life(i) < starts'[d]
    BY <2>1, <2>5, <2>6
  <2>3. \A t : ThisLife(d, t)' = {}
    <3>1. \A i \in DOMAIN log : log[i].proc = d => log[i].life # starts'[d]
      BY <2>1, <2>2, <2>5, <2>6
    <3> QED BY <2>1, <3>1 DEF ThisLife
  <2>4. \A i \in DOMAIN log : log[i].proc = d => log[i].life <= starts'[d]
    BY <2>1, <2>5, <2>6
  <2> QED BY <1>1, <2>1, <2>3, <2>4 DEF DaemonOK
<1>4. CASE Poll(d)
  <2> DEFINE seeded == processed[d] \cup OwnAnswers(RoleOf[d])
             found  == Pending(RoleOf[d]) \ seeded
  <2>1. /\ apc[d] = "poll" /\ apc'[d] = "take"
        /\ todo'[d] = found /\ processed'[d] = seeded
        /\ readAt'[d] = Len(log) /\ UNCHANGED <<log, starts>>
    BY <1>4 DEF Poll
  <2>2. \A t \in found : ResultsOf(t) = {} /\ ClaimsOf(t, RoleOf[d]) # {}
    BY DEF Pending, Answered
  <2>3. \A t \in found : Fresh(d, t)'
    BY <1>1, <2>2 DEF Fresh
  <2>4. \A t \in Tasks \ seeded : ThisLife(d, t)' = {}
    BY <1>1, <2>1 DEF DaemonOK
  <2>5. \A t \in found : t \notin seeded
    OBVIOUS
  <2>6. \A t \in found : Routed(d, t)'
    BY <2>1, <2>2 DEF Routed, ClaimsOf
  <2> HIDE DEF found, seeded
  <2> QED BY <2>1, <2>3, <2>4, <2>5, <2>6 DEF DaemonOK
<1>5. CASE Take(d)
  <2>1. PICK t \in todo[d] :
          /\ todo' = [todo EXCEPT ![d] = @ \ {t}]
          /\ processed' = [processed EXCEPT ![d] = @ \cup {t}]
          /\ task' = [task EXCEPT ![d] = IF d \in Dry THEN NoTask ELSE t]
    BY <1>5 DEF Take
  <2>2. /\ apc[d] = "take" /\ apc'[d] = (IF d \in Dry THEN "take" ELSE "call")
        /\ UNCHANGED <<log, readAt, starts>>
    BY <1>5 DEF Take
  <2>3. /\ t \in Tasks /\ Fresh(d, t) /\ Routed(d, t)
        /\ t \notin processed[d] /\ ThisLife(d, t) = {}
        /\ \A u \in todo[d] : Fresh(d, u) /\ Routed(d, u) /\ u \notin processed[d]
        /\ \A u \in Tasks \ processed[d] : ThisLife(d, u) = {}
    BY <2>2 DEF DaemonOK
  <2>4. /\ todo'[d] = todo[d] \ {t} /\ processed'[d] = processed[d] \cup {t}
        /\ d \notin Dry => task'[d] = t
    BY <2>1
  <2> QED BY <1>1, <2>2, <2>3, <2>4 DEF DaemonOK
<1>6. CASE EndPass(d)
  BY <1>1, <1>6 DEF EndPass, DaemonOK
<1>7. CASE Signal(d)
  BY <1>1, <1>7 DEF Signal, DaemonOK
<1> QED BY <1>2, <1>3, <1>4, <1>5, <1>6, <1>7

\* A step of a daemon that writes, or at least might have written.
LEMMA WritingStep ==
  ASSUME SwarmTypeOK, DaemonInv, NEW d \in Daemons,
         NEW kind \in {"result", "blocked", "usage", "signature"},
         log' = log \/ log' = Append(log, AgentRecord(d, kind)),
         UNCHANGED <<todo, processed, readAt, starts>>,
         \/ apc[d] = "call" /\ kind = "blocked" /\ apc'[d] \in {"sign", "take"}
         \/ apc[d] = "call" /\ kind = "usage" /\ apc'[d] = "result"
         \/ apc[d] = "result" /\ kind = "result" /\ apc'[d] \in {"sign", "take"}
         \/ apc[d] = "sign" /\ kind = "signature" /\ apc'[d] = "take",
         apc'[d] # "take" => task'[d] = task[d]
  PROVE  DaemonOK(d)'
<1> DEFINE rec == AgentRecord(d, kind)
<1>1. /\ task[d] \in Tasks /\ task[d] \in processed[d] \ todo[d] /\ apc[d] # "down"
      /\ readAt[d] \in Nat /\ readAt[d] <= Len(log) /\ starts[d] \in Nat
  BY DEF DaemonInv, DaemonOK, SwarmTypeOK, AgentTypeOK
<1>2. /\ rec \in Record /\ rec.proc = d /\ rec.life = starts[d] /\ rec.task = task[d]
      /\ rec.kind = kind
  BY <1>1, AgentRecordType DEF AgentRecord, SwarmTypeOK
<1>3. /\ Len(log) <= Len(log') /\ Len(log) \in Nat /\ Len(log') \in Nat
      /\ \A i \in DOMAIN log : i \in DOMAIN log' /\ log'[i] = log[i]
      /\ \A i \in DOMAIN log' : i \in DOMAIN log \/ log'[i] = rec
  <2> HIDE DEF rec
  <2>1. CASE log' = log
    BY <2>1 DEF SwarmTypeOK, AgentTypeOK
  <2>2. CASE log' = Append(log, rec)
    BY <1>2, <2>2 DEF SwarmTypeOK, AgentTypeOK
  <2> QED BY <2>1, <2>2 DEF rec
<1>4. \A t : t # task[d] \/ kind # "result" => (Fresh(d, t) => Fresh(d, t)')
  BY <1>2, <1>3 DEF Fresh, ResultsOf
<1>5. \A t : t # task[d] => (ThisLife(d, t) = {} => ThisLife(d, t)' = {})
  BY <1>2, <1>3 DEF ThisLife
<1>11. \A t : Routed(d, t) => Routed(d, t)'
  BY <1>3 DEF Routed, ClaimsOf
<1>6. \A i \in DOMAIN log' : log'[i].proc = d =>
         log'[i].life <= starts[d] /\ log'[i].read <= Len(log')
           /\ log'[i].kind \in {"result", "blocked", "usage", "signature"}
  <2>1. \A i \in DOMAIN log : log[i].read \in Nat
    BY RecordFields DEF SwarmTypeOK, AgentTypeOK
  <2>2. rec.read = readAt[d]
    BY DEF AgentRecord
  <2> QED BY <1>1, <1>2, <1>3, <2>1, <2>2 DEF DaemonInv, DaemonOK
<1>7. \A t \in todo[d] : Fresh(d, t)' /\ Routed(d, t)' /\ t \notin processed[d]
  BY <1>1, <1>4, <1>11 DEF DaemonInv, DaemonOK
<1>8. \A t \in Tasks \ processed[d] : ThisLife(d, t)' = {}
  BY <1>1, <1>5 DEF DaemonInv, DaemonOK
<1>9. apc'[d] = "result" => Fresh(d, task[d])' /\ Routed(d, task[d])'
  BY <1>4, <1>11 DEF DaemonInv, DaemonOK
<1>10. apc'[d] \in {"sign", "take", "result"}
  OBVIOUS
<1> QED BY <1>1, <1>3, <1>6, <1>7, <1>8, <1>9, <1>10 DEF DaemonOK

LEMMA DaemonSteps ==
  ASSUME SwarmTypeOK, DaemonInv, NEW d \in Daemons, Daemon(d)
  PROVE  DaemonInv'
<1>1. DaemonOK(d)'
  <2>1. CASE \/ Gone(d) /\ UNCHANGED <<log, starts>>
             \/ StartDaemon(d) \/ Poll(d) \/ Take(d) \/ EndPass(d) \/ Signal(d)
    <3>1. log' = log
      BY <2>1 DEF StartDaemon, Poll, Take, EndPass, Signal
    <3> QED BY <2>1, <3>1, QuietStep
  <2>2. CASE Block(d)
    BY <2>2, WritingStep DEF Block, WriteOutcome, Finish, Write, SwarmTypeOK, AgentTypeOK
  <2>3. CASE CountUsage(d)
    BY <2>3, WritingStep DEF CountUsage, Write, SwarmTypeOK, AgentTypeOK
  <2>4. CASE Answer(d)
    BY <2>4, WritingStep DEF Answer, WriteOutcome, Finish, Write, SwarmTypeOK, AgentTypeOK
  <2>5. CASE Sign(d)
    BY <2>5, WritingStep DEF Sign, Finish, Write, SwarmTypeOK, AgentTypeOK
  <2> QED BY <2>1, <2>2, <2>3, <2>4, <2>5
          DEF Daemon, AgentStep, PollInVain, Leave, CrashDaemon
<1>2. ASSUME NEW e \in Daemons, e # d PROVE DaemonOK(e)'
  <2>1. log' = log \/ \E rec \in Record : rec.proc # e /\ log' = Append(log, rec)
    <3>1. DaemonWrites(d)
      BY DaemonRecords
    <3>2. \A kind : AgentRecord(d, kind).proc # e
      BY <1>2 DEF AgentRecord
    <3> QED BY <3>1, <3>2 DEF DaemonWrites, Writes
  <2>2. /\ apc'[e] = apc[e] /\ todo'[e] = todo[e] /\ task'[e] = task[e]
        /\ processed'[e] = processed[e] /\ readAt'[e] = readAt[e]
        /\ starts'[e] = starts[e]
    BY <1>2 DEF Daemon, AgentStep, PollInVain, Leave, CrashDaemon, Gone, StartDaemon, Poll,
       Take, EndPass, Signal, Block, CountUsage, Answer, Sign, WriteOutcome, Finish,
       SwarmTypeOK, AgentTypeOK
  <2> QED BY <2>1, <2>2, ForeignRecord DEF DaemonInv, SwarmTypeOK
<1> QED BY <1>1, <1>2 DEF DaemonInv

LEMMA DaemonKeepsDuplicates ==
  ASSUME SwarmTypeOK, DaemonInv, DuplicatesOverlap, NEW d \in Daemons, DaemonWrites(d)
  PROVE  DuplicatesOverlap'
<1>1. CASE log' = log
  BY <1>1 DEF DuplicatesOverlap, ResultsOf
<1>2. ASSUME NEW kind \in {"result", "blocked", "usage", "signature"}, Writes(d, kind)
      PROVE  DuplicatesOverlap'
  <2> DEFINE rec == AgentRecord(d, kind)
  <2>1. /\ rec \in Record /\ rec.proc = d /\ rec.read = readAt[d] /\ rec.task = task[d]
        /\ rec.kind = kind
    BY <1>2 DEF Writes, AgentRecord
  <2>2. /\ Len(log) \in Nat /\ DOMAIN log = 1 .. Len(log)
        /\ DOMAIN log' = 1 .. Len(log) + 1
        /\ \A i \in DOMAIN log : log'[i] = log[i]
        /\ log'[Len(log) + 1] = rec
    <3> HIDE DEF rec
    <3> QED BY <1>2, <2>1 DEF Writes, SwarmTypeOK, AgentTypeOK, rec
  <2>3. kind = "result" => Fresh(d, task[d])
    BY <1>2 DEF Writes, DaemonInv, DaemonOK
  <2>4. ASSUME NEW i \in DOMAIN log', NEW j \in DOMAIN log',
               log'[j].kind = "result", log'[j].proc \in Daemons,
               log'[i].kind = "result", log'[i].task = log'[j].task, i < j
        PROVE  log'[j].read < i /\ log'[i].proc # log'[j].proc
    <3>1. i \in DOMAIN log /\ log'[i] = log[i]
      BY <2>2, <2>4
    <3>2. CASE j \in DOMAIN log
      BY <2>2, <2>4, <3>1, <3>2 DEF DuplicatesOverlap, ResultsOf
    <3>3. CASE j = Len(log) + 1
      BY <2>1, <2>2, <2>3, <2>4, <3>1, <3>3 DEF Fresh, ResultsOf
    <3> QED BY <2>2, <2>4, <3>2, <3>3
  <2> QED BY <2>4 DEF DuplicatesOverlap, ResultsOf
<1> QED BY <1>1, <1>2 DEF DaemonWrites

LEMMA DaemonKeepsRuns ==
  ASSUME SwarmTypeOK, DaemonInv, RunOncePerLife, NEW d \in Daemons, DaemonWrites(d)
  PROVE  RunOncePerLife'
<1>1. CASE log' = log
  BY <1>1 DEF RunOncePerLife
<1>2. ASSUME NEW kind \in {"result", "blocked", "usage", "signature"}, Writes(d, kind)
      PROVE  RunOncePerLife'
  <2> DEFINE rec == AgentRecord(d, kind)
  <2>1. /\ rec \in Record /\ rec.proc = d /\ rec.life = starts[d] /\ rec.task = task[d]
        /\ rec.kind = kind
    BY <1>2 DEF Writes, AgentRecord
  <2>2. /\ Len(log) \in Nat /\ DOMAIN log = 1 .. Len(log)
        /\ DOMAIN log' = 1 .. Len(log) + 1
        /\ \A i \in DOMAIN log : log'[i] = log[i]
        /\ log'[Len(log) + 1] = rec
    <3> HIDE DEF rec
    <3> QED BY <1>2, <2>1 DEF Writes, SwarmTypeOK, AgentTypeOK, rec
  <2>3. kind \in {"blocked", "usage"} => ThisLife(d, task[d]) = {}
    BY <1>2 DEF Writes, DaemonInv, DaemonOK
  <2>4. ASSUME NEW i \in DOMAIN log', NEW j \in DOMAIN log',
               i # j, log'[i].task = log'[j].task,
               log'[i].proc \in Daemons, log'[i].proc = log'[j].proc,
               log'[i].life = log'[j].life, log'[i].kind \in {"usage", "blocked"}
        PROVE  log'[j].kind \in {"result", "signature"}
    <3>1. CASE i \in DOMAIN log /\ j \in DOMAIN log
      BY <2>2, <2>4, <3>1 DEF RunOncePerLife
    <3>2. CASE i = Len(log) + 1 /\ j \in DOMAIN log
      BY <2>1, <2>2, <2>3, <2>4, <3>2 DEF ThisLife
    <3>3. CASE i \in DOMAIN log /\ j = Len(log) + 1
      BY <2>1, <2>2, <2>3, <2>4, <3>3 DEF ThisLife
    <3> QED BY <2>2, <2>4, <3>1, <3>2, <3>3
  <2> QED BY <2>4 DEF RunOncePerLife
<1> QED BY <1>1, <1>2 DEF DaemonWrites

LEMMA DaemonKeepsAsked ==
  ASSUME SwarmTypeOK, DaemonInv, RunsAreAskedFor, NEW d \in Daemons, DaemonWrites(d)
  PROVE  RunsAreAskedFor'
<1>1. CASE log' = log
  BY <1>1 DEF RunsAreAskedFor, ResultsOf, ClaimsOf
<1>2. ASSUME NEW kind \in {"result", "blocked", "usage", "signature"}, Writes(d, kind)
      PROVE  RunsAreAskedFor'
  <2> DEFINE rec == AgentRecord(d, kind)
  <2>1. /\ rec \in Record /\ rec.proc = d /\ rec.read = readAt[d] /\ rec.task = task[d]
        /\ rec.kind = kind /\ rec.role = RoleOf[d]
    BY <1>2 DEF Writes, AgentRecord
  <2>2. /\ Len(log) \in Nat /\ DOMAIN log = 1 .. Len(log)
        /\ DOMAIN log' = 1 .. Len(log) + 1
        /\ \A i \in DOMAIN log : log'[i] = log[i]
        /\ log'[Len(log) + 1] = rec
    <3> HIDE DEF rec
    <3> QED BY <1>2, <2>1 DEF Writes, SwarmTypeOK, AgentTypeOK, rec
  <2>3. kind # "signature" => Fresh(d, task[d]) /\ Routed(d, task[d])
    BY <1>2 DEF Writes, DaemonInv, DaemonOK
  <2>4. readAt[d] \in Nat /\ readAt[d] <= Len(log)
    BY DEF DaemonInv, DaemonOK, SwarmTypeOK, AgentTypeOK
  <2>5. \A j \in DOMAIN log : log[j].proc \in Daemons =>
          log[j].read <= Len(log) /\ log[j].read \in Nat
    BY RecordFields DEF DaemonInv, DaemonOK, SwarmTypeOK, AgentTypeOK
  <2>6. ASSUME NEW j \in DOMAIN log', log'[j].proc \in Daemons,
               log'[j].kind \in {"usage", "blocked", "result"}
        PROVE  /\ \E i \in DOMAIN log' :
                     /\ log'[i].kind = "task-claim" /\ log'[i].task = log'[j].task
                     /\ log'[i].role = log'[j].role /\ i <= log'[j].read
               /\ \A i \in DOMAIN log' :
                     log'[i].kind = "result" /\ log'[i].task = log'[j].task
                       => log'[j].read < i
    <3>1. CASE j \in DOMAIN log
      <4>1. log'[j] = log[j]
        BY <2>2, <3>1
      <4>2. \E i \in ClaimsOf(log[j].task, log[j].role) : i <= log[j].read
        BY <2>6, <3>1, <4>1 DEF RunsAreAskedFor
      <4>3. \A i \in ResultsOf(log[j].task) : log[j].read < i
        BY <2>6, <3>1, <4>1 DEF RunsAreAskedFor
      <4>4. log[j].read <= Len(log) /\ log[j].read \in Nat
        BY <2>5, <2>6, <3>1, <4>1
      <4> HIDE DEF rec
      <4> QED BY <2>2, <4>1, <4>2, <4>3, <4>4 DEF ClaimsOf, ResultsOf
    <3>2. CASE j = Len(log) + 1
      <4>1. log'[j] = rec
        BY <2>2, <3>2
      <4>2. \E i \in ClaimsOf(rec.task, rec.role) : i <= rec.read
        BY <2>1, <2>3, <2>6, <4>1 DEF Routed
      <4>3. \A i \in ResultsOf(rec.task) : rec.read < i
        BY <2>1, <2>3, <2>6, <4>1 DEF Fresh
      <4>4. rec.read <= Len(log) /\ rec.read \in Nat
        BY <2>1, <2>4
      <4> HIDE DEF rec
      <4> QED BY <2>2, <4>1, <4>2, <4>3, <4>4 DEF ClaimsOf, ResultsOf
    <3> QED BY <2>2, <3>1, <3>2
  <2> QED BY <2>6 DEF RunsAreAskedFor, ClaimsOf, ResultsOf
<1> QED BY <1>1, <1>2 DEF DaemonWrites

\* What the others write changes none of it.
OthersWrite ==
  log' = log \/ \E rec \in Record : rec.proc \notin Daemons /\ log' = Append(log, rec)

LEMMA OthersKeep ==
  ASSUME SwarmTypeOK, DaemonInv, DuplicatesOverlap, RunOncePerLife, RunsAreAskedFor,
         OthersWrite, UNCHANGED agentVars
  PROVE  AgentTypeOK' /\ DaemonInv' /\ DuplicatesOverlap' /\ RunOncePerLife'
           /\ RunsAreAskedFor'
<1>1. ASSUME NEW e \in Daemons PROVE DaemonOK(e)'
  BY ForeignRecord DEF DaemonInv, SwarmTypeOK, OthersWrite, agentVars
<1>2. log' \in Seq(Record)
  <2>1. ASSUME NEW rec \in Record, log' = Append(log, rec) PROVE log' \in Seq(Record)
    BY <2>1 DEF SwarmTypeOK, AgentTypeOK
  <2> QED BY <2>1 DEF OthersWrite, SwarmTypeOK, AgentTypeOK
<1>3. AgentTypeOK'
  BY <1>2 DEF SwarmTypeOK, AgentTypeOK, agentVars
<1>4. CASE log' = log
  BY <1>1, <1>3, <1>4 DEF DaemonInv, DuplicatesOverlap, RunOncePerLife, RunsAreAskedFor,
     ResultsOf, ClaimsOf
<1>5. ASSUME NEW rec \in Record, rec.proc \notin Daemons, log' = Append(log, rec)
      PROVE  DuplicatesOverlap' /\ RunOncePerLife' /\ RunsAreAskedFor'
  <2>1. /\ Len(log) \in Nat /\ DOMAIN log = 1 .. Len(log)
        /\ DOMAIN log' = 1 .. Len(log) + 1
        /\ \A i \in DOMAIN log : log'[i] = log[i]
        /\ log'[Len(log) + 1] = rec
    BY <1>5 DEF SwarmTypeOK, AgentTypeOK
  <2>2. \A i \in DOMAIN log' : log'[i].proc \in Daemons => i \in DOMAIN log
    BY <1>5, <2>1
  <2>3. DuplicatesOverlap'
    BY <2>1, <2>2 DEF DuplicatesOverlap, ResultsOf
  <2>4. RunOncePerLife'
    BY <2>1, <2>2 DEF RunOncePerLife
  <2>5. \A j \in DOMAIN log : log[j].proc \in Daemons =>
          log[j].read <= Len(log) /\ log[j].read \in Nat
    BY RecordFields DEF DaemonInv, DaemonOK, SwarmTypeOK, AgentTypeOK
  <2>6. RunsAreAskedFor'
    BY <2>1, <2>2, <2>5 DEF RunsAreAskedFor, ClaimsOf, ResultsOf
  <2> QED BY <2>3, <2>4, <2>6
<1> QED BY <1>1, <1>3, <1>4, <1>5 DEF DaemonInv, OthersWrite
----------------------------------------------------------------------------
(* Calls of a pattern.                                                      *)

LEMMA PlanFields ==
  ASSUME CallsTypeOK, NEW c \in Coordinators
  PROVE  /\ ListOf(c) \in Seq(Tasks)
         /\ \A i \in DOMAIN ListOf(c) : ListOf(c)[i] \in Tasks
         /\ Wanted(c) \subseteq Tasks
         /\ Len(ListOf(c)) \in Nat /\ DOMAIN ListOf(c) = 1 .. Len(ListOf(c))
         /\ at[c] \in 1 .. Len(ListOf(c)) /\ ListOf(c)[at[c]] \in Tasks
         /\ plan[c].joiner \in Tasks /\ plan[c].role \in Roles
         /\ plan[c].quorum \in Int /\ plan[c].threshold \in Int
         /\ plan[c].mock \subseteq Tasks \X BOOLEAN
         /\ plan[c].pattern \in {"fan-out", "fan-in", "chain", "voting"}
<1>1. plan[c] \in Plan
  BY DEF CallsTypeOK
<1>2. at[c] \in DOMAIN ListOf(c)
  BY DEF CallsTypeOK
<1>3. /\ plan[c].tasks \in Seq(Tasks) /\ plan[c].joiner \in Tasks /\ plan[c].role \in Roles
      /\ plan[c].quorum \in Int /\ plan[c].threshold \in Int
      /\ plan[c].mock \subseteq Tasks \X BOOLEAN
      /\ plan[c].pattern \in {"fan-out", "fan-in", "chain", "voting"}
  BY <1>1 DEF Plan
<1>4. /\ ListOf(c) \in Seq(Tasks) /\ Len(ListOf(c)) \in Nat
      /\ DOMAIN ListOf(c) = 1 .. Len(ListOf(c))
      /\ \A i \in DOMAIN ListOf(c) : ListOf(c)[i] \in Tasks
  BY <1>3 DEF ListOf
<1> QED BY <1>2, <1>3, <1>4 DEF Wanted

LEMMA ReadingTypes ==
  ASSUME log \in Seq(Record), NEW t \in Tasks
  PROVE  LastSeen(t) \in Reading /\ FirstSeen(t) \in Reading
BY DEF LastSeen, FirstSeen, Colour, Reading

\* What a call reads is on the ledger.
LEMMA ReadingsHold ==
  ASSUME log \in Seq(Record), NEW t \in Tasks
  PROVE  /\ LastSeen(t) = "green" => Green(t)
         /\ FirstSeen(t) = "green" => GreenFirst(t) /\ Green(t)
         /\ LastSeen(t) \in {"green", "red"} => Answered(t)
BY ResultsAreOrdered DEF LastSeen, FirstSeen, Colour, Green, GreenFirst

LEMMA CallWrites ==
  ASSUME SwarmTypeOK, NEW c \in Coordinators, Call(c)
  PROVE  OthersWrite /\ Grows
<1>1. CASE log' = log
  BY <1>1 DEF OthersWrite, Grows
<1>2. CASE log' # log
  <2>1. \/ ClaimTask(c) \/ InjectMock(c) \/ ClaimJoiner(c)
    BY <1>2 DEF Call, CoordStep, RefuseStep, CallThrows, FanOutReturns, VotingReturns,
       SourcesSeen, JoinerReturns, ChainStep
  <2>2. PICK rec \in Record : rec.proc \in {Caller, External} /\ log' = Append(log, rec)
    <3>1. CASE ClaimTask(c)
      BY <3>1, PlanFields, ClaimType, RolesAssumption
      DEF ClaimTask, Write, ClaimFor, SwarmTypeOK
    <3>2. CASE ClaimJoiner(c)
      BY <3>2, PlanFields, ClaimType, RolesAssumption
      DEF ClaimJoiner, Write, ClaimFor, SwarmTypeOK
    <3>3. CASE InjectMock(c)
      <4>1. PICK m \in plan[c].mock : Write(ResultBy(Caller, m[1], plan[c].role, m[2]))
        BY <3>3 DEF InjectMock
      <4>2. m[1] \in Tasks /\ m[2] \in BOOLEAN /\ plan[c].role \in Roles
        BY PlanFields DEF SwarmTypeOK
      <4> QED BY <4>1, <4>2, ResultType DEF Write, ResultBy
    <3> QED BY <2>1, <3>1, <3>2, <3>3
  <2> QED BY <2>2, WritersAssumption DEF OthersWrite, Grows
<1> QED BY <1>1, <1>2

\* What the other calls keep while one moves.
OtherCalls(c) ==
  \A e \in Coordinators \ {c} :
    /\ plan'[e] = plan[e] /\ cpc'[e] = cpc[e] /\ at'[e] = at[e] /\ used'[e] = used[e]
    /\ won'[e] = won[e]

\* What its arguments keep.
SamePlan(c) ==
  /\ plan'[c] \in Plan /\ plan'[c].mock \subseteq plan[c].mock
  /\ plan'[c].tasks = plan[c].tasks /\ plan'[c].pattern = plan[c].pattern
  /\ plan'[c].joiner = plan[c].joiner /\ plan'[c].quorum = plan[c].quorum
  /\ plan'[c].threshold = plan[c].threshold /\ plan'[c].ownVotes = plan[c].ownVotes

LEMMA MockTaken ==
  ASSUME NEW f, NEW c \in Coordinators, f \in [Coordinators -> Plan], NEW m
  PROVE  LET g == [f EXCEPT ![c].mock = @ \ {m}]
         IN  /\ g \in [Coordinators -> Plan] /\ g[c].mock \subseteq f[c].mock
             /\ g[c].tasks = f[c].tasks /\ g[c].pattern = f[c].pattern
             /\ g[c].joiner = f[c].joiner /\ g[c].quorum = f[c].quorum
             /\ g[c].threshold = f[c].threshold /\ g[c].ownVotes = f[c].ownVotes
             /\ \A e \in Coordinators \ {c} : g[e] = f[e]
BY DEF Plan

LEMMA CallTypes ==
  ASSUME SwarmTypeOK, NEW c \in Coordinators, Call(c)
  PROVE  CallsTypeOK' /\ OtherCalls(c) /\ SamePlan(c)
<1>1. /\ plan' \in [Coordinators -> Plan] /\ SamePlan(c)
      /\ \A e \in Coordinators \ {c} : plan'[e] = plan[e]
  <2>1. CASE plan' = plan
    BY <2>1 DEF SwarmTypeOK, CallsTypeOK, SamePlan
  <2>2. CASE InjectMock(c)
    <3>1. PICK m \in plan[c].mock : plan' = [plan EXCEPT ![c].mock = @ \ {m}]
      BY <2>2 DEF InjectMock
    <3>2. plan \in [Coordinators -> Plan]
      BY DEF SwarmTypeOK, CallsTypeOK
    <3> QED BY <3>1, <3>2, MockTaken DEF SamePlan
  <2> QED BY <2>1, <2>2 DEF Call, CoordStep, ClaimTask, RefuseStep, CallThrows,
             FanOutReturns, VotingReturns, SourcesSeen, ClaimJoiner, JoinerReturns, ChainStep
<1>2. /\ ReadAll(c) \in [Tasks -> Reading]
      /\ \A t \in Tasks : [used[c] EXCEPT ![t] = FirstSeen(t)] \in [Tasks -> Reading]
  BY ReadingTypes DEF ReadAll, SwarmTypeOK, AgentTypeOK, CallsTypeOK
<1>3. \E u \in [Tasks -> Reading] : used' = [used EXCEPT ![c] = u]
  <2>1. CASE ClaimTask(c) \/ RefuseStep(c) \/ CallThrows(c) \/ InjectMock(c)
             \/ ClaimJoiner(c)
    <3>1. used' = [used EXCEPT ![c] = used[c]] /\ used[c] \in [Tasks -> Reading]
      BY <2>1 DEF ClaimTask, RefuseStep, CallThrows, InjectMock, ClaimJoiner, SwarmTypeOK,
         CallsTypeOK
    <3> QED BY <3>1
  <2>2. CASE FanOutReturns(c) \/ VotingReturns(c) \/ SourcesSeen(c)
    BY <1>2, <2>2 DEF FanOutReturns, VotingReturns, SourcesSeen
  <2>3. CASE JoinerReturns(c)
    BY <1>2, <2>3, PlanFields DEF JoinerReturns, SwarmTypeOK
  <2>4. CASE ChainStep(c)
    BY <1>2, <2>4, PlanFields DEF ChainStep, SwarmTypeOK
  <2> QED BY <2>1, <2>2, <2>3, <2>4 DEF Call, CoordStep
<1>4. /\ used' \in [Coordinators -> [Tasks -> Reading]]
      /\ \A e \in Coordinators \ {c} : used'[e] = used[e]
  BY <1>3 DEF SwarmTypeOK, CallsTypeOK
<1>5. /\ won' \in [Coordinators -> BOOLEAN]
      /\ \A e \in Coordinators \ {c} : won'[e] = won[e]
  <2>1. CASE UNCHANGED won
    BY <2>1 DEF SwarmTypeOK, CallsTypeOK
  <2>2. ASSUME NEW ok \in BOOLEAN, won' = [won EXCEPT ![c] = ok] PROVE <1>5!:
    BY <2>2 DEF SwarmTypeOK, CallsTypeOK
  <2>3. \A vote : Approves(c, vote) \in BOOLEAN
    BY DEF Approves
  <2>4. VotingReturns(c) => \E ok \in BOOLEAN : won' = [won EXCEPT ![c] = ok]
    BY <2>3 DEF VotingReturns, Return
  <2> QED BY <2>1, <2>2, <2>4 DEF Call, CoordStep, ClaimTask, RefuseStep, CallThrows,
     InjectMock, FanOutReturns, Return, SourcesSeen, ClaimJoiner, JoinerReturns, ChainStep
<1> DEFINE Pcs == {"claim", "step", "wait", "sources", "joiner", "join", "returned", "threw"}
<1>6. /\ cpc' \in [Coordinators -> Pcs] /\ cpc'[c] \in PcsOf(plan[c].pattern)
      /\ \A e \in Coordinators \ {c} : cpc'[e] = cpc[e]
  <2>1. \E pc \in PcsOf(plan[c].pattern) : cpc' = [cpc EXCEPT ![c] = pc]
    <3>1. cpc[c] \in PcsOf(plan[c].pattern) /\ cpc = [cpc EXCEPT ![c] = cpc[c]]
      BY DEF SwarmTypeOK, CallsTypeOK
    <3>2. plan[c].pattern \in {"fan-out", "fan-in", "chain", "voting"}
      BY PlanFields DEF SwarmTypeOK
    <3>3. CASE InjectMock(c)
      BY <3>1, <3>3 DEF InjectMock
    <3>4. CASE ClaimTask(c)
      BY <3>1, <3>2, <3>4 DEF ClaimTask, PcsOf
    <3>5. CASE \/ FanOutReturns(c) \/ VotingReturns(c) \/ JoinerReturns(c)
               \/ RefuseStep(c) \/ CallThrows(c)
      <4>1. \/ cpc' = [cpc EXCEPT ![c] = "returned"]
            \/ cpc' = [cpc EXCEPT ![c] = "threw"]
        BY <3>5 DEF FanOutReturns, VotingReturns, JoinerReturns, RefuseStep, CallThrows, Return
      <4> QED BY <3>1, <3>2, <4>1 DEF PcsOf
    <3>6. CASE SourcesSeen(c) \/ ClaimJoiner(c)
      BY <3>1, <3>2, <3>6 DEF SourcesSeen, ClaimJoiner, Polls, Return, PcsOf
    <3>7. CASE ChainStep(c)
      BY <3>1, <3>2, <3>7 DEF ChainStep, Polls, Return, PcsOf
    <3> QED BY <3>3, <3>4, <3>5, <3>6, <3>7 DEF Call, CoordStep
  <2>2. PcsOf(plan[c].pattern) \subseteq Pcs
    BY PlanFields DEF PcsOf, SwarmTypeOK
  <2> QED BY <2>1, <2>2 DEF SwarmTypeOK, CallsTypeOK
<1>7. /\ at' \in [Coordinators -> Nat] /\ at'[c] \in DOMAIN ListOf(c)
      /\ \A e \in Coordinators \ {c} : at'[e] = at[e]
  <2>1. at[c] \in 1 .. Len(ListOf(c)) /\ DOMAIN ListOf(c) = 1 .. Len(ListOf(c))
        /\ Len(ListOf(c)) \in Nat
    BY PlanFields DEF SwarmTypeOK
  <2>2. \/ at' = at
        \/ at[c] # Len(ListOf(c)) /\ at' = [at EXCEPT ![c] = at[c] + 1]
    <3>1. at = [at EXCEPT ![c] = at[c]]
      BY DEF SwarmTypeOK, CallsTypeOK
    <3>2. CASE ClaimTask(c)
      <4>1. \/ at' = at
            \/ at' = [at EXCEPT ![c] = IF at[c] = Len(ListOf(c)) THEN at[c] ELSE at[c] + 1]
        BY <3>2 DEF ClaimTask
      <4>2. CASE at[c] = Len(ListOf(c))
        BY <3>1, <4>1, <4>2
      <4>3. CASE at[c] # Len(ListOf(c))
        BY <4>1, <4>3
      <4> QED BY <4>2, <4>3
    <3>3. CASE ChainStep(c)
      <4>1. \/ at' = at
            \/ at[c] # Len(ListOf(c)) /\ at' = [at EXCEPT ![c] = at[c] + 1]
        BY <3>3, Zenon DEF ChainStep
      <4> QED BY <4>1
    <3>4. CASE \/ InjectMock(c) \/ FanOutReturns(c) \/ VotingReturns(c) \/ SourcesSeen(c)
               \/ ClaimJoiner(c) \/ JoinerReturns(c) \/ RefuseStep(c) \/ CallThrows(c)
      BY <3>4 DEF InjectMock, FanOutReturns, VotingReturns, SourcesSeen, ClaimJoiner,
         JoinerReturns, RefuseStep, CallThrows
    <3> QED BY <3>2, <3>3, <3>4 DEF Call, CoordStep
  <2>3. at \in [Coordinators -> Nat]
    BY DEF SwarmTypeOK, CallsTypeOK
  <2> QED BY <2>1, <2>2, <2>3
<1>8. ListOf(c)' = ListOf(c)
  BY <1>1 DEF SamePlan, ListOf
<1>9. ASSUME NEW e \in Coordinators
      PROVE  /\ at'[e] \in DOMAIN ListOf(e)'
             /\ cpc'[e] \in PcsOf(plan'[e].pattern)
             /\ plan'[e].mock \subseteq scene.plan[e].mock
  <2>1. CASE e = c
    BY <1>1, <1>6, <1>7, <1>8, <2>1 DEF SamePlan, SwarmTypeOK, CallsTypeOK
  <2>2. CASE e # c
    BY <1>1, <1>6, <1>7, <2>2 DEF SwarmTypeOK, CallsTypeOK, ListOf
  <2> QED BY <2>1, <2>2
<1>10. scene' = scene /\ scene \in Scenes
  BY DEF Call, SwarmTypeOK, CallsTypeOK
<1>11. CallsTypeOK'
  BY <1>1, <1>4, <1>5, <1>6, <1>7, <1>9, <1>10 DEF CallsTypeOK
<1>12. OtherCalls(c)
  BY <1>1, <1>4, <1>5, <1>6, <1>7 DEF OtherCalls
<1> QED BY <1>1, <1>11, <1>12

----------------------------------------------------------------------------
(* Verdicts.                                                                *)

\* What a returned call rests on.
Witnessed(c) ==
  CASE plan[c].pattern = "fan-out" -> \A t \in Wanted(c) : Green(t)
    [] plan[c].pattern = "chain" -> \A t \in Wanted(c) : GreenFirst(t)
    [] plan[c].pattern = "fan-in" ->
         GreenFirst(plan[c].joiner) /\ \A t \in Wanted(c) : Green(t)
    [] plan[c].pattern = "voting" ->
         /\ plan[c].threshold > 0 /\ ~plan[c].ownVotes => \E t \in Wanted(c) : Green(t)
         /\ Cardinality(Wanted(c)) = Len(ListOf(c)) =>
              LET answered == {t \in Wanted(c) : Answered(t)}
              IN Cardinality(answered) >= Clamp(1, plan[c].quorum, Cardinality(Wanted(c)))

LEMMA VerdictParts ==
  VerdictIsWitnessed <=>
    /\ \A c \in Coordinators : cpc[c] = "returned" /\ won[c] => Witnessed(c)
    /\ verdict = "ok" => \A k \in Children : GreenFirst(ChildTask[k])
BY DEF VerdictIsWitnessed, Witnessed

LEMMA WantedFinite ==
  ASSUME CallsTypeOK, NEW c \in Coordinators
  PROVE  /\ IsFiniteSet(Wanted(c)) /\ Cardinality(Wanted(c)) \in Nat
         /\ ListOf(c) \in Surjection(1 .. Len(ListOf(c)), Wanted(c))
         /\ \A S \in SUBSET Wanted(c) : IsFiniteSet(S) /\ Cardinality(S) \in Nat
<1>1. /\ DOMAIN ListOf(c) = 1 .. Len(ListOf(c)) /\ Len(ListOf(c)) \in Nat
      /\ ListOf(c) \in Seq(Tasks)
  BY PlanFields
<1>2. ListOf(c) \in [1 .. Len(ListOf(c)) -> Wanted(c)]
  BY <1>1 DEF Wanted
<1>3. ListOf(c) \in Surjection(1 .. Len(ListOf(c)), Wanted(c))
  BY <1>1, <1>2, Fun_IsSurj DEF Wanted
<1>4. IsFiniteSet(1 .. Len(ListOf(c)))
  BY <1>1, FS_Interval
<1>5. IsFiniteSet(Wanted(c))
  BY <1>3, <1>4, FS_Surjection
<1> QED BY <1>3, <1>5, FS_Subset, FS_CardinalityType

\* Ballots of different voters are as many as the voters that cast them.
LEMMA BallotsCount ==
  ASSUME CallsTypeOK, NEW c \in Coordinators, NEW A \in SUBSET Wanted(c), NEW B,
         B \subseteq DOMAIN ListOf(c), \A i \in B : ListOf(c)[i] \in A,
         Cardinality(Wanted(c)) = Len(ListOf(c))
  PROVE  Cardinality(B) <= Cardinality(A)
<1>1. /\ DOMAIN ListOf(c) = 1 .. Len(ListOf(c)) /\ Len(ListOf(c)) \in Nat
  BY PlanFields
<1>2. IsFiniteSet(1 .. Len(ListOf(c))) /\ Cardinality(1 .. Len(ListOf(c))) = Len(ListOf(c))
  <2>1. 1 \in Int /\ Len(ListOf(c)) \in Int
    BY <1>1
  <2>2. Cardinality(1 .. Len(ListOf(c)))
          = IF 1 > Len(ListOf(c)) THEN 0 ELSE Len(ListOf(c)) - 1 + 1
    BY <2>1, FS_Interval
  <2>3. IsFiniteSet(1 .. Len(ListOf(c)))
    BY <2>1, FS_Interval
  <2> QED BY <1>1, <2>2, <2>3
<1>3. ListOf(c) \in Injection(1 .. Len(ListOf(c)), Wanted(c))
  BY <1>2, WantedFinite, FS_SurjSameCardinalityImpliesInj
<1>4. \A i, j \in 1 .. Len(ListOf(c)) : ListOf(c)[i] = ListOf(c)[j] => i = j
  BY <1>3, Fun_InjectionProperties
<1> DEFINE f == [i \in B |-> ListOf(c)[i]]
<1>5. f \in Injection(B, A)
  <2>1. f \in [B -> A]
    OBVIOUS
  <2>2. \A i, j \in B : f[i] = f[j] => i = j
    BY <1>1, <1>4
  <2> HIDE DEF f
  <2> QED BY <2>1, <2>2, Fun_IsInj
<1>6. IsFiniteSet(A)
  BY WantedFinite
<1> QED BY <1>5, <1>6, FS_Injection

LEMMA WitnessKept ==
  ASSUME SwarmTypeOK, Grows, NEW c \in Coordinators, Witnessed(c),
         SamePlan(c) \/ plan'[c] = plan[c]
  PROVE  Witnessed(c)'
<1>1. /\ log \in Seq(Record) /\ CallsTypeOK
      /\ Wanted(c)' = Wanted(c) /\ ListOf(c)' = ListOf(c)
      /\ Wanted(c) \subseteq Tasks /\ plan[c].joiner \in Tasks
      /\ plan'[c].pattern = plan[c].pattern /\ plan'[c].joiner = plan[c].joiner
      /\ plan'[c].quorum = plan[c].quorum /\ plan'[c].threshold = plan[c].threshold
      /\ plan'[c].ownVotes = plan[c].ownVotes
  BY PlanFields DEF SamePlan, Wanted, ListOf, SwarmTypeOK, AgentTypeOK
<1>2. \A t \in Tasks : /\ Answered(t) => Answered(t)'
                       /\ Green(t) => Green(t)'
                       /\ GreenFirst(t) => GreenFirst(t)'
  BY <1>1, WitnessesStay
<1> DEFINE answered == {t \in Wanted(c) : Answered(t)}
<1>3. Cardinality(answered) <= Cardinality(answered') /\ Cardinality(answered) \in Nat
      /\ Cardinality(answered') \in Nat
  <2>1. answered \subseteq answered' /\ answered' \subseteq Wanted(c)
    BY <1>1, <1>2
  <2>2. IsFiniteSet(answered') /\ Cardinality(answered') \in Nat
    BY <1>1, <2>1, WantedFinite
  <2> QED BY <2>1, <2>2, FS_Subset, FS_CardinalityType
<1>4. Clamp(1, plan[c].quorum, Cardinality(Wanted(c))) \in Int
  BY <1>1, WantedFinite, PlanFields DEF Clamp
<1>5. plan[c].pattern \in {"fan-out", "fan-in", "chain", "voting"}
  BY <1>1, PlanFields
<1>6. CASE plan[c].pattern = "fan-out"
  BY <1>1, <1>2, <1>6 DEF Witnessed
<1>7. CASE plan[c].pattern = "chain"
  BY <1>1, <1>2, <1>7 DEF Witnessed
<1>8. CASE plan[c].pattern = "fan-in"
  BY <1>1, <1>2, <1>8 DEF Witnessed
<1>9. CASE plan[c].pattern = "voting"
  <2> DEFINE clamped == Clamp(1, plan[c].quorum, Cardinality(Wanted(c)))
  <2>1. clamped' = clamped
    BY <1>1 DEF Clamp
  <2>2. Cardinality(Wanted(c)) = Len(ListOf(c)) => Cardinality(answered) >= clamped
    BY <1>9 DEF Witnessed
  <2>3. Cardinality(Wanted(c)) = Len(ListOf(c)) => Cardinality(answered') >= clamped
    <3> HIDE DEF clamped, answered
    <3> QED BY <2>2, <1>3, <1>4 DEF clamped
  <2>4. plan[c].threshold > 0 /\ ~plan[c].ownVotes => \E t \in Wanted(c) : Green(t)'
    BY <1>1, <1>2, <1>9 DEF Witnessed
  <2> QED BY <1>1, <1>9, <2>1, <2>3, <2>4 DEF Witnessed
<1> QED BY <1>5, <1>6, <1>7, <1>8, <1>9

LEMMA UsedIsRead ==
  ASSUME SwarmTypeOK, NEW c \in Coordinators, Call(c), NEW t \in Tasks,
         used'[c][t] = "green"
  PROVE  used[c][t] = "green" \/ Green(t)
<1> DEFINE First(u) == [used[c] EXCEPT ![u] = FirstSeen(u)]
<1>1. /\ used \in [Coordinators -> [Tasks -> Reading]] /\ log \in Seq(Record)
      /\ CallsTypeOK
  BY DEF SwarmTypeOK, AgentTypeOK, CallsTypeOK
<1>2. ASSUME NEW u \in Tasks, used' = [used EXCEPT ![c] = First(u)]
      PROVE  used[c][t] = "green" \/ Green(t)
  BY <1>1, <1>2, ReadingsHold
<1>3. CASE used' = used
  BY <1>3
<1>4. CASE used' = [used EXCEPT ![c] = ReadAll(c)]
  BY <1>1, <1>4, ReadingsHold DEF ReadAll
<1>5. CASE JoinerReturns(c)
  BY <1>1, <1>2, <1>5, PlanFields DEF JoinerReturns
<1>6. CASE ChainStep(c)
  BY <1>1, <1>2, <1>6, PlanFields DEF ChainStep
<1> QED BY <1>3, <1>4, <1>5, <1>6 DEF Call, CoordStep, ClaimTask, RefuseStep, CallThrows,
           InjectMock, FanOutReturns, VotingReturns, SourcesSeen, ClaimJoiner

LEMMA ChainPasses ==
  ASSUME SwarmTypeOK, CallInv, NEW c \in Coordinators, Call(c),
         plan[c].pattern = "chain", cpc'[c] # "returned"
  PROVE  \A i \in DOMAIN ListOf(c) : i < at'[c] => GreenFirst(ListOf(c)[i])
<1>1. /\ cpc[c] \in {"claim", "step", "returned", "threw"} /\ CallsTypeOK /\ log \in Seq(Record)
      /\ at \in [Coordinators -> Nat] /\ DOMAIN cpc = Coordinators
      /\ used \in [Coordinators -> [Tasks -> Reading]]
  BY DEF SwarmTypeOK, AgentTypeOK, CallsTypeOK, PcsOf
<1>2. /\ at[c] \in 1 .. Len(ListOf(c)) /\ DOMAIN ListOf(c) = 1 .. Len(ListOf(c))
      /\ Len(ListOf(c)) \in Nat /\ ListOf(c)[at[c]] \in Tasks
  BY <1>1, PlanFields
<1>3. cpc[c] # "returned"
  BY DEF Call, CoordStep, ClaimTask, RefuseStep, CallThrows, InjectMock, Asked,
     FanOutReturns, VotingReturns, SourcesSeen, ClaimJoiner, JoinerReturns, ChainStep, Polls
<1>4. \A i \in DOMAIN ListOf(c) : i < at[c] => GreenFirst(ListOf(c)[i])
  BY <1>3 DEF CallInv
<1>5. CASE ChainStep(c)
  <2> DEFINE t == ListOf(c)[at[c]]
             read == [used[c] EXCEPT ![t] = FirstSeen(t)]
  <2>1. read[t] = "green" /\ at'[c] = at[c] + 1
    <3>1. \/ read[t] = "green" /\ at' = [at EXCEPT ![c] = @ + 1]
          \/ Return(c, read[t] = "green")
      BY <1>5 DEF ChainStep
    <3>2. ~Return(c, read[t] = "green")
      BY <1>1 DEF Return
    <3> QED BY <1>1, <3>1, <3>2
  <2>2. FirstSeen(t) = "green"
    BY <1>1, <1>2, <2>1
  <2>3. GreenFirst(t)
    BY <1>1, <1>2, <2>2, ReadingsHold
  <2> QED BY <1>2, <1>4, <2>1, <2>3
<1>6. CASE ClaimTask(c) \/ InjectMock(c) \/ CallThrows(c)
  <2>1. at' = at
    BY <1>6 DEF ClaimTask, InjectMock, CallThrows
  <2> QED BY <1>4, <2>1
<1>7. CASE RefuseStep(c)
  BY <1>1, <1>7 DEF RefuseStep, Return
<1> QED BY <1>1, <1>5, <1>6, <1>7 DEF Call, CoordStep, FanOutReturns, VotingReturns,
           SourcesSeen, ClaimJoiner, JoinerReturns, Polls

LEMMA ReturnIsWitnessed ==
  ASSUME SwarmTypeOK, CallInv, NEW c \in Coordinators, Call(c),
         cpc'[c] = "returned", won'[c]
  PROVE  Witnessed(c)
<1>1. /\ cpc[c] \in PcsOf(plan[c].pattern) /\ CallsTypeOK /\ log \in Seq(Record)
      /\ at \in [Coordinators -> Nat]
      /\ DOMAIN cpc = Coordinators /\ DOMAIN won = Coordinators
      /\ used \in [Coordinators -> [Tasks -> Reading]]
  BY DEF SwarmTypeOK, AgentTypeOK, CallsTypeOK
<1>2. /\ at[c] \in 1 .. Len(ListOf(c)) /\ DOMAIN ListOf(c) = 1 .. Len(ListOf(c))
      /\ Len(ListOf(c)) \in Nat /\ ListOf(c)[at[c]] \in Tasks
      /\ Wanted(c) \subseteq Tasks /\ plan[c].joiner \in Tasks
      /\ plan[c].pattern \in {"fan-out", "fan-in", "chain", "voting"}
      /\ \A i \in DOMAIN ListOf(c) : ListOf(c)[i] \in Wanted(c)
  BY <1>1, PlanFields DEF Wanted
<1>3. cpc[c] # "returned"
  BY DEF Call, CoordStep, ClaimTask, RefuseStep, CallThrows, InjectMock, Asked,
     FanOutReturns, VotingReturns, SourcesSeen, ClaimJoiner, JoinerReturns, ChainStep, Polls
<1>4. CASE FanOutReturns(c)
  <2>1. \A t \in Wanted(c) : LastSeen(t) = "green"
    BY <1>1, <1>2, <1>4 DEF FanOutReturns, Return, ReadAll
  <2>2. plan[c].pattern = "fan-out"
    BY <1>4 DEF FanOutReturns
  <2> QED BY <1>1, <1>2, <2>1, <2>2, ReadingsHold DEF Witnessed
<1>5. CASE VotingReturns(c)
  <2> DEFINE read == ReadAll(c)
             answered == {t \in Wanted(c) : Answered(t)}
  <2>1. plan[c].pattern = "voting" /\ \E vote \in VotesOn(c, read) : Return(c, Approves(c, vote))
    BY <1>5 DEF VotingReturns
  <2>8. PICK vote \in VotesOn(c, read) : Approves(c, vote)
    BY <1>1, <2>1 DEF Return
  <2> DEFINE cast == Ballots(c, vote, Votes \ {"missing"})
             approve == Ballots(c, vote, {"approve"})
  <2>2. \A t \in Wanted(c) : read[t] = LastSeen(t) /\ read[t] \in Reading \ {"unread"}
    BY <1>1, <1>2 DEF ReadAll, LastSeen, Colour, Reading
  <2>9. \A t \in Wanted(c) :
          /\ vote[t] # "missing" => LastSeen(t) # "missing"
          /\ vote[t] = "approve" /\ ~plan[c].ownVotes => LastSeen(t) = "green"
    BY <2>2, <2>8 DEF VotesOn, Reading
  <2>3. /\ \A i \in cast : i \in DOMAIN ListOf(c) /\ ListOf(c)[i] \in answered
        /\ ~plan[c].ownVotes =>
             \A i \in approve : ListOf(c)[i] \in Wanted(c) /\ Green(ListOf(c)[i])
    <3>1. \A t \in Wanted(c) : LastSeen(t) # "missing" => Answered(t)
      BY DEF LastSeen
    <3>2. \A i \in cast \cup approve : i \in DOMAIN ListOf(c) /\ ListOf(c)[i] \in Wanted(c)
      BY <1>2 DEF Ballots
    <3>3. \A i \in cast : vote[ListOf(c)[i]] # "missing"
      BY DEF Ballots
    <3>4. \A i \in approve : vote[ListOf(c)[i]] = "approve"
      BY DEF Ballots
    <3>5. \A t \in Wanted(c) : LastSeen(t) = "green" => Green(t)
      BY <1>1, <1>2, ReadingsHold
    <3> HIDE DEF cast, approve, read
    <3>8. \A t \in Wanted(c) : vote[t] # "missing" => Answered(t)
      BY <2>9, <3>1
    <3>6. \A i \in cast : ListOf(c)[i] \in Wanted(c) /\ Answered(ListOf(c)[i])
      BY <3>2, <3>3, <3>8
    <3>7. ASSUME ~plan[c].ownVotes, NEW i \in approve
          PROVE  ListOf(c)[i] \in Wanted(c) /\ Green(ListOf(c)[i])
      <4>1. \A t \in Wanted(c) : vote[t] = "approve" => Green(t)
        BY <2>9, <3>5, <3>7
      <4> QED BY <3>2, <3>4, <3>7, <4>1
    <3> QED BY <3>2, <3>6, <3>7
  <2>4. /\ IsFiniteSet(cast) /\ Cardinality(cast) \in Nat
        /\ IsFiniteSet(approve) /\ Cardinality(approve) \in Nat
    <3>1. IsFiniteSet(1 .. Len(ListOf(c)))
      <4>1. 1 \in Int /\ Len(ListOf(c)) \in Int
        BY <1>2
      <4> QED BY <4>1, FS_Interval
    <3>2. cast \subseteq 1 .. Len(ListOf(c)) /\ approve \subseteq 1 .. Len(ListOf(c))
      BY <1>2 DEF Ballots
    <3> QED BY <3>1, <3>2, FS_Subset, FS_CardinalityType
  <2> DEFINE C == Cardinality(cast)
             P == Cardinality(approve)
             q == Clamp(1, plan[c].quorum, Len(ListOf(c)))
             th == Clamp(0, plan[c].threshold, 100)
  <2>5. /\ C >= q
        /\ 100 * P >= th * (IF C > 0 THEN C ELSE 1)
    BY <2>8 DEF Approves
  <2>6. ASSUME plan[c].threshold > 0, ~plan[c].ownVotes PROVE \E t \in Wanted(c) : Green(t)
    <3>1. th \in Int /\ th > 0
      BY <1>1, <2>6, PlanFields DEF Clamp
    <3>2. C \in Nat /\ P \in Nat
      BY <2>4
    <3>3. P # 0
      <4> HIDE DEF C, P, th
      <4>1. CASE C > 0
        <5>1. th * C > 0
          BY <3>1, <3>2, <4>1
        <5>2. 100 * P >= th * C
          BY <2>5, <4>1
        <5>3. 100 * P > 0
          <6>1. th * C \in Int /\ 100 * P \in Int
            BY <3>1, <3>2
          <6> QED BY <5>1, <5>2, <6>1
        <5> QED BY <3>2, <5>3
      <4>2. CASE ~(C > 0)
        BY <2>5, <3>1, <3>2, <4>2
      <4> QED BY <4>1, <4>2
    <3>4. approve # {}
      BY <3>3, FS_EmptySet
    <3> QED BY <2>3, <2>6, <3>4
  <2>7. ASSUME Cardinality(Wanted(c)) = Len(ListOf(c))
        PROVE  Cardinality(answered) >= Clamp(1, plan[c].quorum, Cardinality(Wanted(c)))
    <3>1. C <= Cardinality(answered)
      <4>1. answered \in SUBSET Wanted(c) /\ cast \subseteq DOMAIN ListOf(c)
        BY DEF Ballots
      <4>2. \A i \in cast : ListOf(c)[i] \in answered
        BY <2>3
      <4> HIDE DEF answered, cast
      <4> QED BY <1>1, <2>7, <4>1, <4>2, BallotsCount
    <3>2. Cardinality(answered) \in Nat /\ C \in Nat
      BY <1>1, <2>4, WantedFinite
    <3>3. q \in Int
      BY <1>1, <1>2, PlanFields DEF Clamp
    <3>4. q = Clamp(1, plan[c].quorum, Cardinality(Wanted(c)))
      BY <2>7
    <3> HIDE DEF C, q, answered
    <3> QED BY <2>5, <3>1, <3>2, <3>3, <3>4
  <2> QED BY <2>1, <2>6, <2>7 DEF Witnessed
<1>6. CASE JoinerReturns(c)
  <2> DEFINE j == plan[c].joiner
  <2>1. FirstSeen(j) = "green" /\ \A t \in Wanted(c) : used[c][t] = "green"
    BY <1>1, <1>2, <1>6 DEF JoinerReturns, Return
  <2>2. GreenFirst(j) /\ \A t \in Wanted(c) : Green(t)
    BY <1>1, <1>2, <2>1, ReadingsHold DEF CallInv
  <2>3. plan[c].pattern = "fan-in"
    BY <1>1, <1>2, <1>6 DEF JoinerReturns, Polls, PcsOf
  <2> QED BY <2>2, <2>3 DEF Witnessed
<1>7. CASE ChainStep(c)
  <2> DEFINE t == ListOf(c)[at[c]]
             read == [used[c] EXCEPT ![t] = FirstSeen(t)]
  <2>1. plan[c].pattern = "chain"
    BY <1>1, <1>2, <1>7 DEF ChainStep, Polls, PcsOf
  <2>2. read[t] = "green" /\ at[c] = Len(ListOf(c))
    <3>1. \/ cpc' = [cpc EXCEPT ![c] = "claim"]
          \/ ~(read[t] = "green" /\ at[c] # Len(ListOf(c))) /\ Return(c, read[t] = "green")
      BY <1>7 DEF ChainStep
    <3> QED BY <1>1, <3>1 DEF Return
  <2>3. FirstSeen(t) = "green"
    BY <1>1, <1>2, <2>2
  <2>4. GreenFirst(t)
    BY <1>1, <1>2, <2>3, ReadingsHold
  <2>5. \A i \in DOMAIN ListOf(c) : GreenFirst(ListOf(c)[i])
    <3>1. \A i \in DOMAIN ListOf(c) : i < at[c] => GreenFirst(ListOf(c)[i])
      BY <1>3, <2>1 DEF CallInv
    <3>2. \A i \in DOMAIN ListOf(c) : i < at[c] \/ i = at[c]
      BY <1>2, <2>2
    <3> QED BY <2>4, <3>1, <3>2
  <2> QED BY <2>1, <2>5 DEF Witnessed, Wanted
<1>8. CASE SourcesSeen(c)
  <2>1. cpc' = [cpc EXCEPT ![c] = "joiner"] \/ Return(c, FALSE)
    BY <1>8 DEF SourcesSeen
  <2> QED BY <1>1, <2>1 DEF Return
<1>9. CASE ClaimTask(c) \/ InjectMock(c) \/ ClaimJoiner(c) \/ CallThrows(c)
  BY <1>1, <1>3, <1>9 DEF ClaimTask, InjectMock, ClaimJoiner, CallThrows
<1>10. CASE RefuseStep(c)
  BY <1>1, <1>10 DEF RefuseStep, Return
<1> QED BY <1>4, <1>5, <1>6, <1>7, <1>8, <1>9, <1>10 DEF Call, CoordStep

LEMMA CallSteps ==
  ASSUME SwarmTypeOK, CallInv, VerdictIsWitnessed, NEW c \in Coordinators, Call(c)
  PROVE  CallInv' /\ VerdictIsWitnessed'
<1>1. /\ Grows /\ log \in Seq(Record) /\ CallsTypeOK /\ OtherCalls(c) /\ SamePlan(c)
  BY CallWrites, CallTypes DEF SwarmTypeOK, AgentTypeOK
<1>2. \A t \in Tasks : /\ Green(t) => Green(t)'
                       /\ GreenFirst(t) => GreenFirst(t)'
  BY <1>1, WitnessesStay
<1>3. ASSUME NEW e \in Coordinators, NEW t \in Tasks, used'[e][t] = "green"
      PROVE  Green(t)'
  <2>1. CASE e = c
    BY <1>2, <1>3, <2>1, UsedIsRead DEF CallInv
  <2>2. CASE e # c
    BY <1>1, <1>2, <1>3, <2>2 DEF CallInv, OtherCalls
  <2> QED BY <2>1, <2>2
<1>4. ASSUME NEW e \in Coordinators, plan'[e].pattern = "chain", cpc'[e] # "returned",
             NEW i \in DOMAIN ListOf(e)', i < at'[e]
      PROVE  GreenFirst(ListOf(e)[i])'
  <2>1. ListOf(e)' = ListOf(e) /\ plan[e].pattern = "chain" /\ ListOf(e)[i] \in Tasks
    BY <1>1, <1>4, PlanFields DEF OtherCalls, SamePlan, ListOf
  <2>2. GreenFirst(ListOf(e)[i])
    <3>1. CASE e = c
      BY <1>4, <2>1, <3>1, ChainPasses
    <3>2. CASE e # c
      BY <1>1, <1>4, <2>1, <3>2 DEF CallInv, OtherCalls
    <3> QED BY <3>1, <3>2
  <2> DEFINE u == ListOf(e)[i]
  <2>3. PICK v \in Tasks : v = u
    BY <2>1
  <2>4. GreenFirst(v)'
    BY <1>2, <2>2, <2>3
  <2>5. u' = v
    BY <2>1, <2>3
  <2> QED BY <2>4, <2>5 DEF GreenFirst, Answered, ResultsOf, FirstResult
<1>5. ASSUME NEW e \in Coordinators, cpc'[e] = "returned", won'[e] PROVE Witnessed(e)'
  <2>1. CASE e = c
    BY <1>1, <1>5, <2>1, ReturnIsWitnessed, WitnessKept
  <2>2. CASE e # c
    <3>1. Witnessed(e) /\ plan'[e] = plan[e]
      BY <1>1, <1>5, <2>2, VerdictParts DEF OtherCalls
    <3> QED BY <1>1, <3>1, WitnessKept
  <2> QED BY <2>1, <2>2
<1>6. verdict' = "ok" => \A k \in Children : GreenFirst(ChildTask[k])'
  <2>1. verdict' = verdict
    BY DEF Call, subVars
  <2>2. \A k \in Children : ChildTask[k] \in Tasks
    BY ChildrenAssumption DEF Children
  <2> QED BY <1>2, <2>1, <2>2, VerdictParts
<1>7. CallInv'
  BY <1>3, <1>4 DEF CallInv
<1>8. VerdictIsWitnessed'
  BY <1>5, <1>6 DEF VerdictIsWitnessed, Witnessed
<1> QED BY <1>7, <1>8

\* Whatever the others write, the calls keep what they have behind them.
LEMMA CallsKeep ==
  ASSUME SwarmTypeOK, CallInv, Grows, UNCHANGED <<coordVars, scene>>
  PROVE  /\ CallsTypeOK' /\ CallInv'
         /\ \A c \in Coordinators : Witnessed(c) => Witnessed(c)'
<1>1. /\ log \in Seq(Record) /\ CallsTypeOK
      /\ UNCHANGED <<plan, cpc, at, used, won, scene>>
  BY DEF SwarmTypeOK, AgentTypeOK, coordVars
<1>2. CallsTypeOK'
  BY <1>1 DEF CallsTypeOK, ListOf
<1>3. \A t \in Tasks : /\ Green(t) => Green(t)'
                       /\ GreenFirst(t) => GreenFirst(t)'
  BY <1>1, WitnessesStay
<1>4. ASSUME NEW c \in Coordinators, plan[c].pattern = "chain", cpc[c] # "returned",
             NEW i \in DOMAIN ListOf(c), i < at[c]
      PROVE  GreenFirst(ListOf(c)[i])'
  <2>1. ListOf(c)' = ListOf(c) /\ ListOf(c)[i] \in Tasks
    BY <1>1, PlanFields DEF ListOf
  <2>2. PICK v \in Tasks : v = ListOf(c)[i]
    BY <2>1
  <2>3. GreenFirst(v)'
    BY <1>3, <1>4, <2>2 DEF CallInv
  <2>4. (ListOf(c)[i])' = v
    BY <2>1, <2>2
  <2> QED BY <2>3, <2>4 DEF GreenFirst, Answered, ResultsOf, FirstResult
<1>5. CallInv'
  <2>1. \A c \in Coordinators : ListOf(c)' = ListOf(c)
    BY <1>1 DEF ListOf
  <2> QED BY <1>1, <1>3, <1>4, <2>1 DEF CallInv
<1> QED BY <1>1, <1>2, <1>5, WitnessKept

----------------------------------------------------------------------------
(* Children.                                                                *)

\* A record that no worker of the parent wrote.
NotOfChild(rec) ==
  scene.parent /\ rec.kind = "result" /\ rec.proc = Caller =>
    \A k \in Children : rec.task # ChildTask[k]

LEMMA ChildrenKeep ==
  ASSUME SwarmTypeOK, ChildInv, UNCHANGED <<subVars, scene>>,
         log' = log \/ \E rec \in Record : NotOfChild(rec) /\ log' = Append(log, rec)
  PROVE  ChildrenTypeOK' /\ ChildInv'
<1>1. /\ log \in Seq(Record) /\ UNCHANGED <<mode, claimed, child, exit, verdict, scene>>
  BY DEF SwarmTypeOK, AgentTypeOK, subVars
<1>2. ChildrenTypeOK'
  BY <1>1 DEF SwarmTypeOK, ChildrenTypeOK
<1>3. CASE log' = log
  BY <1>1, <1>2, <1>3 DEF ChildInv, Answered, ResultsOf
<1>4. ASSUME NEW rec \in Record, NotOfChild(rec), log' = Append(log, rec)
      PROVE  ChildInv'
  <2>1. /\ Len(log) \in Nat /\ DOMAIN log = 1 .. Len(log)
        /\ DOMAIN log' = 1 .. Len(log) + 1
        /\ \A i \in DOMAIN log : log'[i] = log[i]
        /\ log'[Len(log) + 1] = rec
    BY <1>1, <1>4
  <2>2. \A k \in Children : Answered(ChildTask[k]) => Answered(ChildTask[k])'
    BY <2>1 DEF Answered, ResultsOf
  <2>3. ASSUME NEW k \in Children, scene.parent, NEW i \in ResultsOf(ChildTask[k])'
        PROVE  i \in ResultsOf(ChildTask[k]) \/ log'[i].proc # Caller
    <3>1. /\ i \in 1 .. Len(log) + 1
          /\ log'[i].kind = "result" /\ log'[i].task = ChildTask[k]
      BY <2>1, <2>3 DEF ResultsOf
    <3>2. CASE i = Len(log) + 1
      BY <1>4, <2>1, <2>3, <3>1, <3>2 DEF NotOfChild
    <3>3. CASE i \in DOMAIN log
      BY <2>1, <3>1, <3>3 DEF ResultsOf
    <3> QED BY <2>1, <3>1, <3>2, <3>3
  <2>4. \A k \in Children : \A i \in ResultsOf(ChildTask[k]) : log'[i] = log[i]
    BY <2>1 DEF ResultsOf
  <2> QED BY <1>1, <2>2, <2>3, <2>4 DEF ChildInv
<1> QED BY <1>2, <1>3, <1>4

LEMMA DaemonsAreNoChildren ==
  ASSUME SwarmTypeOK, DaemonInv, NEW d \in Daemons, Daemon(d)
  PROVE  log' = log \/ \E rec \in Record : NotOfChild(rec) /\ log' = Append(log, rec)
<1>1. DaemonWrites(d)
  BY DaemonRecords
<1>2. \A kind : AgentRecord(d, kind).proc # Caller
  BY WritersAssumption DEF AgentRecord
<1> QED BY <1>1, <1>2 DEF DaemonWrites, Writes, NotOfChild

LEMMA CallsAreNoChildren ==
  ASSUME SwarmTypeOK, NEW c \in Coordinators, Call(c)
  PROVE  log' = log \/ \E rec \in Record : NotOfChild(rec) /\ log' = Append(log, rec)
<1>1. CASE InjectMock(c)
  <2>1. PICK m \in plan[c].mock : Write(ResultBy(Caller, m[1], plan[c].role, m[2]))
    BY <1>1 DEF InjectMock
  <2> DEFINE rec == ResultBy(Caller, m[1], plan[c].role, m[2])
  <2>2. /\ m \in Tasks \X BOOLEAN /\ plan[c].role \in Roles
        /\ c \in scene.calls /\ m \in scene.plan[c].mock /\ scene \in Scenes
    BY <1>1, PlanFields DEF Call, SwarmTypeOK, CallsTypeOK
  <2>3. rec \in Record
    BY <2>2, ResultType
  <2>4. NotOfChild(rec)
    <3>1. m = <<m[1], m[2]>> /\ m[2] \in BOOLEAN
      BY <2>2
    <3>2. scene.parent => \A k \in Children : m[1] # ChildTask[k]
      BY <2>2, <3>1, MocksAssumption
    <3> QED BY <3>2 DEF NotOfChild, ResultBy
  <2> QED BY <2>1, <2>3, <2>4 DEF Write
<1>2. CASE ClaimTask(c)
  <2>1. ClaimFor(ListOf(c)[at[c]], Orchestrator) \in Record
    BY PlanFields, ClaimType, RolesAssumption DEF SwarmTypeOK
  <2> QED BY <1>2, <2>1 DEF ClaimTask, Write, NotOfChild, ClaimFor
<1>3. CASE ClaimJoiner(c)
  <2>1. ClaimFor(plan[c].joiner, Orchestrator) \in Record
    BY PlanFields, ClaimType, RolesAssumption DEF SwarmTypeOK
  <2> QED BY <1>3, <2>1 DEF ClaimJoiner, Write, NotOfChild, ClaimFor
<1> QED BY <1>1, <1>2, <1>3 DEF Call, CoordStep, RefuseStep, CallThrows, FanOutReturns,
           VotingReturns, SourcesSeen, JoinerReturns, ChainStep

LEMMA OtherWrites ==
  ASSUME SwarmTypeOK, Other
  PROVE  /\ OthersWrite /\ Grows
         /\ log' = log \/ \E rec \in Record : NotOfChild(rec) /\ log' = Append(log, rec)
<1>1. PICK t \in scene.tasks, r \in Roles :
        Dispatch(t, r) \/ \E ok \in BOOLEAN : Report(t, r, ok)
  BY DEF Other
<1>2. t \in Tasks
  BY <1>1, ScenesAssumption DEF SwarmTypeOK, CallsTypeOK
<1>3. \E rec \in Record : rec.proc = External /\ log' = Append(log, rec)
  <2>1. CASE Dispatch(t, r)
    BY <1>2, <2>1, ClaimType DEF Dispatch, Write, ClaimFor
  <2>2. ASSUME NEW ok \in BOOLEAN, Report(t, r, ok) PROVE <1>3!:
    BY <1>2, <2>2, ResultType DEF Report, Write, ResultBy
  <2> QED BY <1>1, <2>1, <2>2
<1> QED BY <1>3, WritersAssumption DEF OthersWrite, Grows, NotOfChild

LEMMA ParentWrites ==
  ASSUME SwarmTypeOK, ParentStep
  PROVE  OthersWrite /\ Grows
<1>1. \A k \in Children : ChildTask[k] \in Tasks /\ ChildRole \in Roles
  BY ChildrenAssumption DEF Children
<1>2. CASE log' = log
  BY <1>2 DEF OthersWrite, Grows
<1>3. ASSUME NEW k \in Children, ClaimChild(k)
      PROVE  \E rec \in Record : rec.proc = External /\ log' = Append(log, rec)
  BY <1>1, <1>3, ClaimType DEF ClaimChild, Write, ClaimFor
<1>4. ASSUME NEW k \in Children, NEW ok \in BOOLEAN, WorkerAnswers(k, ok), log' # log
      PROVE  \E rec \in Record : rec.proc = Caller /\ log' = Append(log, rec)
  BY <1>1, <1>4, ResultType DEF WorkerAnswers, Write, ResultBy
<1>5. CASE log' # log
  <2>1. \E k \in Children : ClaimChild(k) \/ \E ok \in BOOLEAN : WorkerAnswers(k, ok)
    BY <1>5 DEF ParentStep, SubStep, ClaimThrows, WorkerFails, TimeOut, ProcessExits, Spawn,
       ParentThrows, ParentReturns
  <2> QED BY <1>3, <1>4, <1>5, <2>1, WritersAssumption DEF OthersWrite, Grows
<1> QED BY <1>2, <1>5

LEMMA AppendPlaces ==
  ASSUME log \in Seq(Record), NEW rec \in Record, log' = Append(log, rec)
  PROVE  /\ Len(log) \in Nat /\ DOMAIN log = 1 .. Len(log)
         /\ DOMAIN log' = 1 .. Len(log) + 1
         /\ \A i \in DOMAIN log : log'[i] = log[i]
         /\ log'[Len(log) + 1] = rec
OBVIOUS

LEMMA AppendDiffers ==
  ASSUME NEW s, s \in Seq(Record), NEW rec
  PROVE  s # Append(s, rec)
<1>1. Len(s) \in Nat /\ Len(Append(s, rec)) = Len(s) + 1
  <2>1. s \in Seq(Record \cup {rec}) /\ rec \in Record \cup {rec}
    OBVIOUS
  <2> QED BY <2>1
<1> QED BY <1>1

LEMMA ParentSteps ==
  ASSUME SwarmTypeOK, ChildInv, VerdictIsWitnessed, ParentStep
  PROVE  /\ ChildrenTypeOK' /\ ChildInv'
         /\ verdict' = "ok" => \A k \in Children : GreenFirst(ChildTask[k])'
<1>1. /\ log \in Seq(Record) /\ scene.parent /\ scene' = scene
      /\ child \in [Children -> {"new", "running", "unstarted"} \cup Settled]
      /\ claimed \subseteq Children /\ verdict \in {"none", "ok", "not ok", "threw"}
  BY DEF SwarmTypeOK, AgentTypeOK, ChildrenTypeOK, ParentStep
<1>2. /\ \A k \in Children : ChildTask[k] \in Tasks /\ ChildRole \in Roles
      /\ \A k, l \in Children : k # l => ChildTask[k] # ChildTask[l]
  BY ChildrenAssumption DEF Children
<1>3. \A k \in Children : /\ Answered(ChildTask[k]) => Answered(ChildTask[k])'
                          /\ GreenFirst(ChildTask[k]) => GreenFirst(ChildTask[k])'
  BY <1>1, <1>2, ParentWrites, WitnessesStay
<1>4. ChildrenTypeOK'
  BY <1>1 DEF ParentStep, SubStep, ClaimChild, ClaimThrows, WorkerAnswers, WorkerFails,
     TimeOut, ProcessExits, Spawn, ParentThrows, ParentReturns, Settle, Settled,
     ChildrenTypeOK
<1>5. verdict' = "ok" => \A k \in Children : GreenFirst(ChildTask[k])'
  <2>1. CASE verdict' = verdict
    BY <1>3, <2>1, VerdictParts
  <2>2. CASE ParentReturns
    <3>1. verdict' = "ok" => \A k \in Children : GreenFirst(ChildTask[k])
      BY <2>2 DEF ParentReturns, ChildInv, GreenFirst
    <3> QED BY <1>3, <3>1
  <2>3. CASE verdict' = "threw"
    BY <2>3
  <2> QED BY <2>1, <2>2, <2>3 DEF ParentStep, SubStep, ClaimChild, ClaimThrows,
             WorkerAnswers, WorkerFails, TimeOut, ProcessExits, Spawn, ParentThrows
<1> DEFINE Silent(k) == child[k] \in {"new", "running", "timed-out"} =>
             \A i \in ResultsOf(ChildTask[k]) : log[i].proc # Caller
           DoneIsAnswered(k) == child[k] = "done" => Answered(ChildTask[k])
<1>6. ASSUME NEW k \in Children PROVE Silent(k)' /\ DoneIsAnswered(k)'
  <2>1. Silent(k) /\ DoneIsAnswered(k)
    BY <1>1 DEF ChildInv
  <2>2. CASE log' = log
    <3>1. \A rec : log # Append(log, rec)
      BY <1>1, AppendDiffers
    <3>2. \/ child' = child \/ Spawn
          \/ \E l \in Children : \/ WorkerFails(l) \/ TimeOut(l) \/ ProcessExits(l)
                               \/ (child[l] = "running" /\ Settle(l, "failed"))
      <4>1. ASSUME NEW l \in Children, NEW ok \in BOOLEAN, WorkerAnswers(l, ok)
            PROVE  child[l] = "running" /\ Settle(l, "failed")
        BY <2>2, <3>1, <4>1 DEF WorkerAnswers, Write
      <4>2. \A l \in Children : ~ClaimChild(l)
        BY <2>2, <3>1 DEF ClaimChild, Write
      <4>3. ParentReturns \/ ParentThrows \/ ClaimThrows => child' = child
        BY DEF ParentReturns, ParentThrows, ClaimThrows
      <4>4. \/ ParentReturns \/ ParentThrows \/ ClaimThrows \/ Spawn
            \/ \E l \in Children :
                 \/ WorkerFails(l) \/ TimeOut(l) \/ ProcessExits(l)
                 \/ \E ok \in BOOLEAN : WorkerAnswers(l, ok)
        BY <4>2 DEF ParentStep, SubStep
      <4> QED BY <4>1, <4>3, <4>4
    <3>3. CASE child' = child
      BY <2>1, <2>2, <3>3 DEF Answered, ResultsOf
    <3>4. CASE Spawn
      BY <1>1, <2>1, <2>2, <3>4 DEF Spawn, Answered, ResultsOf
    <3>5. ASSUME NEW l \in Children, NEW how, child[l] = "running", Settle(l, how),
                 how = "done" => Answered(ChildTask[l])
          PROVE  Silent(k)' /\ DoneIsAnswered(k)'
      <4>1. child'[k] = IF k = l THEN how ELSE child[k]
        BY <1>1, <3>5 DEF Settle
      <4>2. /\ Answered(ChildTask[k])' = Answered(ChildTask[k])
            /\ ResultsOf(ChildTask[k])' = ResultsOf(ChildTask[k])
        BY <2>2 DEF Answered, ResultsOf
      <4> QED BY <2>1, <2>2, <3>5, <4>1, <4>2
    <3> QED BY <3>2, <3>3, <3>4, <3>5 DEF WorkerFails, TimeOut, ProcessExits
  <2>3. ASSUME NEW l \in Children, ClaimChild(l) PROVE Silent(k)' /\ DoneIsAnswered(k)'
    <3> DEFINE rec == ClaimFor(ChildTask[l], ChildRole)
    <3>1. log' = Append(log, rec) /\ child' = child /\ rec.kind # "result"
      BY <2>3 DEF ClaimChild, Write, ClaimFor
    <3>2. rec \in Record
      BY <1>2, ClaimType
    <3>3. /\ Len(log) \in Nat /\ DOMAIN log = 1 .. Len(log)
          /\ DOMAIN log' = 1 .. Len(log) + 1
          /\ \A i \in DOMAIN log : log'[i] = log[i]
          /\ log'[Len(log) + 1] = rec
      <4> HIDE DEF rec
      <4> QED BY <1>1, <3>1, <3>2, AppendPlaces
    <3>4. ResultsOf(ChildTask[k])' = ResultsOf(ChildTask[k])
      <4> HIDE DEF rec
      <4> QED BY <3>1, <3>3 DEF ResultsOf
    <3>5. \A i \in ResultsOf(ChildTask[k]) : log'[i] = log[i]
      BY <3>3 DEF ResultsOf
    <3> QED BY <2>1, <3>1, <3>4, <3>5 DEF Answered
  <2>4. ASSUME NEW l \in Children, NEW ok \in BOOLEAN, WorkerAnswers(l, ok), log' # log
        PROVE  Silent(k)' /\ DoneIsAnswered(k)'
    <3> DEFINE rec == ResultBy(Caller, ChildTask[l], ChildRole, ok)
    <3>1. /\ log' = Append(log, rec) /\ child[l] = "running"
          /\ child' = [child EXCEPT ![l] = IF ok THEN "done" ELSE "failed"]
      BY <2>4 DEF WorkerAnswers, Write, Settle
    <3>2. rec.kind = "result" /\ rec.task = ChildTask[l]
      BY DEF ResultBy
    <3>3. /\ Len(log) \in Nat /\ DOMAIN log = 1 .. Len(log)
          /\ DOMAIN log' = 1 .. Len(log) + 1
          /\ \A i \in DOMAIN log : log'[i] = log[i]
          /\ log'[Len(log) + 1] = rec
      <4>1. rec \in Record
        BY <1>2, ResultType
      <4> HIDE DEF rec
      <4> QED BY <1>1, <3>1, <4>1, AppendPlaces
    <3>4. CASE k = l
      <4>1. Len(log) + 1 \in ResultsOf(ChildTask[k])'
        BY <3>2, <3>3, <3>4 DEF ResultsOf
      <4>2. child'[k] \in {"done", "failed"}
        BY <1>1, <3>1, <3>4
      <4> QED BY <4>1, <4>2 DEF Answered
    <3>5. CASE k # l
      <4>1. ChildTask[k] # ChildTask[l]
        BY <1>2, <3>5
      <4>2. child'[k] = child[k]
        BY <1>1, <3>1, <3>5
      <4>3. ResultsOf(ChildTask[k])' = ResultsOf(ChildTask[k])
        BY <3>2, <3>3, <4>1 DEF ResultsOf
      <4>4. \A i \in ResultsOf(ChildTask[k]) : log'[i] = log[i]
        BY <3>3 DEF ResultsOf
      <4> QED BY <2>1, <4>2, <4>3, <4>4 DEF Answered
    <3> QED BY <3>4, <3>5
  <2> QED BY <2>2, <2>3, <2>4 DEF ParentStep, SubStep, ClaimThrows, WorkerFails, TimeOut,
             ProcessExits, Spawn, ParentThrows, ParentReturns
<1>7. ChildInv'
  BY <1>1, <1>6 DEF ChildInv
<1> QED BY <1>4, <1>5, <1>7
----------------------------------------------------------------------------
(* The swarm.                                                               *)

LEMMA SwarmInit == Init => SwarmInv
<1> SUFFICES ASSUME Init PROVE SwarmInv
  OBVIOUS
<1>1. /\ log = <<>> /\ scene \in Scenes /\ DOMAIN log = {} /\ Len(log) = 0
  BY DEF Init
<1>2. AgentTypeOK
  <2>1. log \in Seq(Record)
    BY <1>1
  <2> QED BY <2>1 DEF Init, AgentInit, AgentTypeOK, AgentPc
<1>3. CallsTypeOK
  <2>1. plan \in [Coordinators -> Plans]
    BY DEF Init, CoordInit
  <2>2. \A c \in Coordinators :
          /\ plan[c] \in Plan /\ plan[c].tasks \in Seq(Tasks) /\ plan[c].tasks # <<>>
          /\ plan[c].pattern \in {"fan-out", "fan-in", "chain", "voting"}
    BY <2>1, PlansAssumption DEF Plan
  <2>3. \A c \in Coordinators : 1 \in DOMAIN ListOf(c)
    BY <2>2 DEF ListOf
  <2>4. \A c \in Coordinators : cpc[c] \in PcsOf(plan[c].pattern)
    BY <2>2 DEF Init, CoordInit, PcsOf
  <2>5. \A c \in Coordinators : plan[c].mock \subseteq scene.plan[c].mock
    BY DEF Init
  <2>6. plan \in [Coordinators -> Plan]
    BY <2>1, <2>2
  <2>7. /\ at = [c \in Coordinators |-> 1]
        /\ cpc \in [Coordinators -> {"claim", "step", "wait", "sources", "joiner",
                                     "join", "returned", "threw"}]
        /\ used \in [Coordinators -> [Tasks -> Reading]]
        /\ won \in [Coordinators -> BOOLEAN]
    BY DEF Init, CoordInit, Reading
  <2> QED BY <1>1, <2>3, <2>4, <2>5, <2>6, <2>7 DEF CallsTypeOK
<1>4. ChildrenTypeOK
  BY DEF Init, SubInit, ChildrenTypeOK
<1>5. DaemonInv
  <2>1. \A d \in Daemons : todo[d] = {} /\ apc[d] = "down" /\ readAt[d] = 0
    BY DEF Init, AgentInit
  <2> QED BY <1>1, <2>1 DEF DaemonInv, DaemonOK
<1>6. DuplicatesOverlap /\ RunOncePerLife /\ RunsAreAskedFor
  BY <1>1 DEF DuplicatesOverlap, RunOncePerLife, RunsAreAskedFor
<1>7. CallInv
  <2>1. \A c \in Coordinators, t \in Tasks : used[c][t] = "unread"
    BY DEF Init, CoordInit
  <2>2. \A c \in Coordinators : at[c] = 1 /\ \A i \in DOMAIN ListOf(c) : ~ (i < at[c])
    BY <1>3, PlanFields DEF Init, CoordInit
  <2> QED BY <2>1, <2>2 DEF CallInv
<1>8. ChildInv
  <2>1. \A k \in Children : child[k] = "new" /\ ResultsOf(ChildTask[k]) = {}
    BY <1>1 DEF Init, SubInit, ResultsOf
  <2> QED BY <2>1 DEF ChildInv
<1>9. VerdictIsWitnessed
  BY VerdictParts DEF Init, CoordInit, SubInit
<1> QED BY <1>2, <1>3, <1>4, <1>5, <1>6, <1>7, <1>8, <1>9 DEF SwarmInv, SwarmTypeOK

\* A green verdict of the parent and of the calls that do not move stays true.
LEMMA VerdictsStay ==
  ASSUME SwarmTypeOK, VerdictIsWitnessed, Grows,
         UNCHANGED <<plan, cpc, won>>,
         \A c \in Coordinators : Witnessed(c) => Witnessed(c)',
         verdict' = "ok" => \A k \in Children : GreenFirst(ChildTask[k])'
  PROVE  VerdictIsWitnessed'
<1>1. ASSUME NEW c \in Coordinators, cpc'[c] = "returned", won'[c] PROVE Witnessed(c)'
  BY <1>1, VerdictParts
<1> QED BY <1>1 DEF VerdictIsWitnessed, Witnessed

LEMMA VerdictOfParentStays ==
  ASSUME SwarmTypeOK, VerdictIsWitnessed, Grows, UNCHANGED verdict
  PROVE  verdict' = "ok" => \A k \in Children : GreenFirst(ChildTask[k])'
<1>1. log \in Seq(Record)
  BY DEF SwarmTypeOK, AgentTypeOK
<1>2. \A k \in Children : ChildTask[k] \in Tasks
  BY ChildrenAssumption DEF Children
<1> QED BY <1>1, <1>2, VerdictParts, WitnessesStay

LEMMA SwarmStep == SwarmInv /\ [Next]_vars => SwarmInv'
<1> SUFFICES ASSUME SwarmInv, [Next]_vars PROVE SwarmInv'
  OBVIOUS
<1>1. /\ SwarmTypeOK /\ DaemonInv /\ DuplicatesOverlap /\ RunOncePerLife
      /\ RunsAreAskedFor /\ CallInv /\ ChildInv /\ VerdictIsWitnessed
  BY DEF SwarmInv
<1>2. ASSUME NEW d \in Daemons, Daemon(d) PROVE SwarmInv'
  <2>1. UNCHANGED <<coordVars, subVars, scene>>
    BY <1>2 DEF Daemon
  <2>2. DaemonWrites(d) /\ Grows
    BY <1>1, <1>2, DaemonRecords
  <2>3. AgentTypeOK' /\ DaemonInv' /\ DuplicatesOverlap' /\ RunOncePerLife'
          /\ RunsAreAskedFor'
    BY <1>1, <1>2, <2>2, DaemonTypes, DaemonSteps, DaemonKeepsDuplicates, DaemonKeepsRuns,
       DaemonKeepsAsked
  <2>4. /\ CallsTypeOK' /\ CallInv'
        /\ \A c \in Coordinators : Witnessed(c) => Witnessed(c)'
    BY <1>1, <2>1, <2>2, CallsKeep
  <2>5. ChildrenTypeOK' /\ ChildInv'
    BY <1>1, <1>2, <2>1, ChildrenKeep, DaemonsAreNoChildren
  <2>6. VerdictIsWitnessed'
    BY <1>1, <2>1, <2>2, <2>4, VerdictsStay, VerdictOfParentStays DEF coordVars, subVars
  <2> QED BY <2>3, <2>4, <2>5, <2>6 DEF SwarmInv, SwarmTypeOK
<1>3. ASSUME NEW c \in Coordinators, Call(c) PROVE SwarmInv'
  <2>1. UNCHANGED <<agentVars, subVars, scene>>
    BY <1>3 DEF Call
  <2>2. OthersWrite /\ CallsTypeOK' /\ CallInv' /\ VerdictIsWitnessed'
    BY <1>1, <1>3, CallWrites, CallTypes, CallSteps
  <2>3. AgentTypeOK' /\ DaemonInv' /\ DuplicatesOverlap' /\ RunOncePerLife'
          /\ RunsAreAskedFor'
    BY <1>1, <2>1, <2>2, OthersKeep
  <2>4. ChildrenTypeOK' /\ ChildInv'
    BY <1>1, <1>3, <2>1, ChildrenKeep, CallsAreNoChildren
  <2> QED BY <2>2, <2>3, <2>4 DEF SwarmInv, SwarmTypeOK
<1>4. CASE ParentStep
  <2>1. UNCHANGED <<agentVars, coordVars, scene>> /\ OthersWrite /\ Grows
    BY <1>1, <1>4, ParentWrites DEF ParentStep
  <2>2. AgentTypeOK' /\ DaemonInv' /\ DuplicatesOverlap' /\ RunOncePerLife'
          /\ RunsAreAskedFor'
    BY <1>1, <2>1, OthersKeep
  <2>3. /\ CallsTypeOK' /\ CallInv'
        /\ \A c \in Coordinators : Witnessed(c) => Witnessed(c)'
    BY <1>1, <2>1, CallsKeep
  <2>4. /\ ChildrenTypeOK' /\ ChildInv'
        /\ verdict' = "ok" => \A k \in Children : GreenFirst(ChildTask[k])'
    BY <1>1, <1>4, ParentSteps
  <2>5. VerdictIsWitnessed'
    BY <1>1, <2>1, <2>3, <2>4, VerdictsStay DEF coordVars
  <2> QED BY <2>2, <2>3, <2>4, <2>5 DEF SwarmInv, SwarmTypeOK
<1>5. CASE Other
  <2>1. /\ UNCHANGED <<agentVars, coordVars, subVars, scene>> /\ OthersWrite /\ Grows
        /\ log' = log \/ \E rec \in Record : NotOfChild(rec) /\ log' = Append(log, rec)
    BY <1>1, <1>5, OtherWrites DEF Other
  <2>2. AgentTypeOK' /\ DaemonInv' /\ DuplicatesOverlap' /\ RunOncePerLife'
          /\ RunsAreAskedFor'
    BY <1>1, <2>1, OthersKeep
  <2>3. /\ CallsTypeOK' /\ CallInv'
        /\ \A c \in Coordinators : Witnessed(c) => Witnessed(c)'
    BY <1>1, <2>1, CallsKeep
  <2>4. ChildrenTypeOK' /\ ChildInv'
    BY <1>1, <2>1, ChildrenKeep
  <2>5. VerdictIsWitnessed'
    BY <1>1, <2>1, <2>3, VerdictsStay, VerdictOfParentStays DEF coordVars, subVars
  <2> QED BY <2>2, <2>3, <2>4, <2>5 DEF SwarmInv, SwarmTypeOK
<1>6. CASE UNCHANGED vars
  <2>1. /\ UNCHANGED <<agentVars, coordVars, subVars, scene>> /\ log' = log
    BY <1>6 DEF vars
  <2>2. OthersWrite /\ Grows
    BY <2>1 DEF OthersWrite, Grows
  <2>3. AgentTypeOK' /\ DaemonInv' /\ DuplicatesOverlap' /\ RunOncePerLife'
          /\ RunsAreAskedFor'
    BY <1>1, <2>1, <2>2, OthersKeep
  <2>4. /\ CallsTypeOK' /\ CallInv'
        /\ \A c \in Coordinators : Witnessed(c) => Witnessed(c)'
    BY <1>1, <2>1, <2>2, CallsKeep
  <2>5. ChildrenTypeOK' /\ ChildInv'
    BY <1>1, <2>1, ChildrenKeep
  <2>6. VerdictIsWitnessed'
    BY <1>1, <2>1, <2>2, <2>4, VerdictsStay, VerdictOfParentStays DEF coordVars, subVars
  <2> QED BY <2>3, <2>4, <2>5, <2>6 DEF SwarmInv, SwarmTypeOK
<1> QED BY <1>2, <1>3, <1>4, <1>5, <1>6 DEF Next

\* The invariant of the swarm: what each daemon, call and parent has read and
\* written is what the ledger says.
THEOREM SwarmInvariant == Spec => []SwarmInv
BY SwarmInit, SwarmStep, PTL DEF Spec

\* The ledger holds records only, and every daemon is at one of its steps,
\* with claims, tasks and counters of their kinds (openclaw-agent).
THEOREM SwarmTypeCorrect == Spec => []AgentTypeOK
<1>1. SwarmInv => AgentTypeOK
  BY DEF SwarmInv, SwarmTypeOK
<1> QED BY <1>1, SwarmInvariant, PTL

\* Two daemons answer one task only when the later of them read the ledger
\* before the first answer; one daemon never does, restarts included
\* (openclaw-agent:436, 547-553).
THEOREM DuplicatesOnlyOverlap == Spec => []DuplicatesOverlap
<1>1. SwarmInv => DuplicatesOverlap
  BY DEF SwarmInv
<1> QED BY <1>1, SwarmInvariant, PTL

\* One life of a daemon runs the model once for a task, whatever of its
\* records could not be written (openclaw-agent:658, 743).
THEOREM RunsOncePerLife == Spec => []RunOncePerLife
<1>1. SwarmInv => RunOncePerLife
  BY DEF SwarmInv
<1> QED BY <1>1, SwarmInvariant, PTL

\* Nothing is run, nor counted, that the ledger its process read did not route to
\* the process's role or held a result of, after a restart neither
\* (openclaw-agent:436, 558, 658).
THEOREM RunsWereAskedFor == Spec => []RunsAreAskedFor
<1>1. SwarmInv => RunsAreAskedFor
  BY DEF SwarmInv
<1> QED BY <1>1, SwarmInvariant, PTL

\* What a green verdict of a pattern or of a parent rests on is on the ledger
\* and stays there (fan-out.js:153, voting.js:153, subagent.js).
THEOREM VerdictsAreWitnessed == Spec => []VerdictIsWitnessed
<1>1. SwarmInv => VerdictIsWitnessed
  BY DEF SwarmInv
<1> QED BY <1>1, SwarmInvariant, PTL

\* A child that timed out has no result of its own on the ledger, however late
\* its handler ends (subagent.js:168-198).
THEOREM TimedOutAreSilent == Spec => []TimedOutStaysSilent
<1>1. SwarmInv => TimedOutStaysSilent
  BY DEF SwarmInv, ChildInv, SwarmTypeOK, CallsTypeOK, TimedOutStaysSilent
<1> QED BY <1>1, SwarmInvariant, PTL
=============================================================================
