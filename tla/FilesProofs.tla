---------------------------- MODULE FilesProofs ------------------------------
(* The components that are nothing but files which processes change, each on *)
(* its own: the bookkeeping of a goal over its sub-goals, the home of an     *)
(* agent host, the tree under the mutation sweep, and the pause windows of a *)
(* ticket.                                                                   *)
EXTENDS SubGoals, Installer, MutationSweep, TicketClock,
        FiniteSetTheorems, SequenceTheorems, FunctionTheorems,
        WellFoundedInduction, TLAPS

(***************************************************************************)
(* Sub-goals, for any number of them, of usage facts and of runs.  What the *)
(* state file says of a goal that ended was put together by the last run,   *)
(* of which only the copy in memory knows; the invariant says what that     *)
(* copy has behind it at each point of the run, and that no file of an      *)
(* ended goal is left while a run is under way.                             *)
(***************************************************************************)

Statuses == {"absent", "active", "done", "failed", "aborted", "cancelled"}
Tasks    == Subs \cup Others \cup {TheGoal}
Entries  == [place : 1 .. Len(SubOrder), ok : BOOLEAN]
States   == [status : Statuses, results : Seq(Entries), counted : SUBSET Nat,
             calls : Nat, costed : BOOLEAN, vetoed : BOOLEAN]

AtSub == {"poll", "close", "record", "again"}

WhereOK ==
  /\ at \in {"idle", "lanes", "sub", "fold", "finish"} \cup AtSub
  /\ mem \in States /\ goalFile \in States
  /\ next \in 1 .. Len(SubOrder) + 1
  /\ at \in AtSub => next <= Len(SubOrder)
  /\ at \in {"close", "record"} => out \in Statuses
  /\ at \in {"idle", "lanes"} => next = 1

LedgerOK ==
  /\ subFile \in [Subs -> Statuses]
  /\ answer \in [Subs -> {"none", "ok", "failed"}]
  /\ usage \in Seq(Tasks)
  /\ behind \in [Subs -> Nat]
  /\ \A s \in Subs : behind[s] <= Len(usage)

\* The cost is the number of facts counted, all of them chargeable.
Charged(state) ==
  state.counted \subseteq Chargeable /\ state.calls = Cardinality(state.counted)

\* A sub-goal that counts as done was answered.
Answered(answers, results) ==
  \A i \in DOMAIN results : results[i].ok => answers[SubOrder[results[i].place]] = "ok"

\* Every call reported before the answer behind an entry that counts as done is
\* charged.
Paid(facts, before, state) ==
  \A j \in DOMAIN state.results :
    LET s == SubOrder[state.results[j].place] IN
    state.results[j].ok /\ s \in Under =>
      \A i \in 1 .. before[s] : facts[i] = s => i \in state.counted

\* The entries after the first k lead on to place n.
LeadsTo(answers, files, results, k, n) ==
  /\ PlaceOf(results, k, Len(results)) = n
  /\ \A i \in k + 1 .. Len(results) :
       LET before == PlaceOf(results, k, i - 1)
           sub    == SubOrder[results[i].place]
       IN  /\ results[i].place <= n
           /\ \/ results[i].place = before + 1
              \/ results[i].place = before /\ ~results[i].ok
           /\ results[i].ok =>
                /\ answers[sub] = "ok"
                /\ HasOwnFile(results[i].place) => files[sub] = "done"

Through(answers, files, results, n) ==
  \E k \in 0 .. Len(results) : LeadsTo(answers, files, results, k, n)

\* A goal that ended, and was not vetoed.
Closed == goalFile.status \in Ended /\ ~goalFile.vetoed

Costs ==
  /\ Charged(mem) /\ Charged(goalFile)
  /\ at = "finish" /\ mem.costed => Paid(usage, behind, mem)
  /\ Closed /\ goalFile.costed => Paid(usage, behind, goalFile)

Results ==
  /\ Answered(answer, mem.results) /\ Answered(answer, goalFile.results)
  /\ at \in {"close", "record"} /\ out = "done" => answer[Sub] = "ok"
  /\ at = "record" => subFile[Sub] = out
  /\ at \in {"sub", "poll", "close", "record", "fold", "finish"} /\ verdict # "cancelled" =>
       Through(answer, subFile, mem.results, next - 1)
  /\ at = "again" /\ verdict # "cancelled" => Through(answer, subFile, mem.results, next)
  /\ at \in {"fold", "finish"} /\ verdict # "cancelled" => next = Len(SubOrder) + 1
  /\ Closed => Through(answer, subFile, goalFile.results, Len(SubOrder))

OpenWhileRun == at # "idle" => mem.status \notin Ended /\ goalFile.status \notin Ended

SubGoalsInv == WhereOK /\ LedgerOK /\ OpenWhileRun /\ Costs /\ Results
-----------------------------------------------------------------------------
(* The sub-goals and the usage facts.                                      *)

LEMMA Order ==
  Len(SubOrder) \in Nat /\ \A i \in 1 .. Len(SubOrder) : SubOrder[i] \in Subs
BY SubGoalsAssumption, LenProperties, ElementOfSeq

LEMMA ChargeableIsFinite ==
  ASSUME LedgerOK PROVE IsFiniteSet(Chargeable) /\ Chargeable \subseteq Nat
<1>1. Len(usage) \in Nat /\ DOMAIN usage = 1 .. Len(usage)
  BY LenProperties DEF LedgerOK
<1>2. IsFiniteSet(1 .. Len(usage)) /\ Chargeable \in SUBSET (1 .. Len(usage))
  BY <1>1, FS_Interval DEF Chargeable
<1>3. IsFiniteSet(Chargeable)
  BY <1>2, FS_Subset
<1> QED BY <1>1, <1>2, <1>3

\* The sum of the former facts and the new ones.
LEMMA CountedOnce ==
  ASSUME LedgerOK, NEW S \in SUBSET Chargeable
  PROVE  /\ Cardinality(S \cup Chargeable) = Cardinality(S) + Cardinality(Chargeable \ S)
         /\ Cardinality(Chargeable \ S) \in Nat /\ Cardinality(S) \in Nat
<1> DEFINE T == Chargeable \ S
<1>1. IsFiniteSet(S) /\ IsFiniteSet(T)
  BY ChargeableIsFinite, FS_Subset
<1>2. Cardinality(S) \in Nat /\ Cardinality(T) \in Nat
  BY <1>1, FS_CardinalityType
<1>3. S \cap T = {} /\ S \cup T = S \cup Chargeable
  OBVIOUS
<1>4. Cardinality(S \cup T) = Cardinality(S) + Cardinality(T) - Cardinality(S \cap T)
  BY <1>1, FS_Union
<1>5. Cardinality(S \cap T) = 0 /\ Cardinality(S \cup T) = Cardinality(S \cup Chargeable)
  BY <1>3, FS_EmptySet, Zenon
<1> HIDE DEF T
<1>6. Cardinality(S \cup Chargeable) = Cardinality(S) + Cardinality(T)
  BY <1>2, <1>4, <1>5
<1> QED BY <1>2, <1>6 DEF T

\* Absent and Fresh are states without entries and without costs.
LEMMA NewStates ==
  ASSUME NEW state \in {Absent, Fresh}
  PROVE  /\ state \in States /\ state.results = <<>> /\ state.counted = {} /\ state.calls = 0
         /\ state.status \in {"absent", "active"}
<1>1. /\ Fresh \in States /\ Fresh.results = <<>> /\ Fresh.counted = {} /\ Fresh.calls = 0
      /\ Fresh.status = "active"
  BY EmptySeq DEF Fresh, States, Statuses
<1>2. /\ Absent \in States /\ Absent.results = <<>> /\ Absent.counted = {} /\ Absent.calls = 0
      /\ Absent.status = "absent"
  BY <1>1 DEF Absent, States, Statuses
<1> QED BY <1>1, <1>2

LEMMA NothingYet ==
  /\ \A answers : Answered(answers, <<>>)
  /\ \A S : S = {} => Cardinality(S) = 0
BY FS_EmptySet DEF Answered
-----------------------------------------------------------------------------
(* The entries of a run.                                                   *)

\* No entries of its own yet.
LEMMA NoneYet ==
  ASSUME NEW answers, NEW files, NEW results \in Seq(Entries)
  PROVE  Through(answers, files, results, 0)
<1>1. Len(results) \in 0 .. Len(results)
  BY LenProperties
<1>2. LeadsTo(answers, files, results, Len(results), 0)
  BY <1>1 DEF LeadsTo, PlaceOf
<1> QED BY <1>1, <1>2 DEF Through

\* Answers stay, and the file of a sub-goal that has been passed and whose id does
\* not come again is not written any more.
LEMMA StillThrough ==
  ASSUME NEW answers, NEW files, NEW answers2, NEW files2,
         NEW results \in Seq(Entries), NEW n \in Nat,
         Through(answers, files, results, n),
         \A s \in Subs : answers[s] = "ok" => answers2[s] = "ok",
         \A p \in 1 .. Len(SubOrder) :
           p <= n /\ HasOwnFile(p) => files2[SubOrder[p]] = files[SubOrder[p]]
  PROVE  Through(answers2, files2, results, n)
<1>1. PICK k \in 0 .. Len(results) : LeadsTo(answers, files, results, k, n)
  BY DEF Through
<1>2. ASSUME NEW i \in k + 1 .. Len(results)
      PROVE  /\ results[i].place \in 1 .. Len(SubOrder)
             /\ SubOrder[results[i].place] \in Subs
  <2>1. Len(results) \in Nat /\ i \in 1 .. Len(results)
    BY <1>1, LenProperties
  <2>2. results[i] \in Entries
    BY <2>1, ElementOfSeq
  <2> QED BY <2>2, Order DEF Entries
<1>3. LeadsTo(answers2, files2, results, k, n)
  BY <1>1, <1>2 DEF LeadsTo
<1> QED BY <1>3 DEF Through

\* One more entry, of the next sub-goal or, failed, of the same once more.
LEMMA OneMore ==
  ASSUME NEW answers, NEW files, NEW results \in Seq(Entries), NEW n \in Nat,
         Through(answers, files, results, n),
         NEW e \in Entries, e.place = n + 1 \/ (e.place = n /\ ~e.ok),
         e.ok => answers[SubOrder[e.place]] = "ok" /\ files[SubOrder[e.place]] = "done"
  PROVE  Through(answers, files, Append(results, e), e.place)
<1>1. PICK k \in 0 .. Len(results) : LeadsTo(answers, files, results, k, n)
  BY DEF Through
<1> DEFINE more == Append(results, e)
           last == Len(results)
<1>2. /\ last \in Nat /\ k \in Nat /\ k <= last
      /\ more \in Seq(Entries) /\ Len(more) = last + 1
      /\ \A i \in 1 .. last : more[i] = results[i]
      /\ more[last + 1] = e
  BY <1>1, LenProperties
<1>3. e.place \in Nat /\ n <= e.place /\ e.place # 0
  BY Order DEF Entries
<1>4. PlaceOf(more, k, last) = n
  BY <1>1, <1>2 DEF LeadsTo, PlaceOf
<1> HIDE DEF more, last
<1>5. PlaceOf(more, k, last + 1) = e.place
  BY <1>2 DEF PlaceOf
<1>6. ASSUME NEW i \in k + 1 .. last + 1
      PROVE  LET before == PlaceOf(more, k, i - 1)
                 sub    == SubOrder[more[i].place]
             IN  /\ more[i].place <= e.place
                 /\ \/ more[i].place = before + 1
                    \/ more[i].place = before /\ ~more[i].ok
                 /\ more[i].ok =>
                      /\ answers[sub] = "ok"
                      /\ HasOwnFile(more[i].place) => files[sub] = "done"
  <2>1. CASE i = last + 1
    <3>1. more[i] = e /\ PlaceOf(more, k, i - 1) = n
      BY <1>2, <1>4, <2>1
    <3> QED BY <1>3, <3>1
  <2>2. CASE i \in k + 1 .. last
    <3>1. i \in 1 .. last /\ (i - 1 = k \/ i - 1 \in 1 .. last)
      BY <1>2, <2>2
    <3>2. more[i] = results[i] /\ PlaceOf(more, k, i - 1) = PlaceOf(results, k, i - 1)
      BY <1>2, <3>1 DEF PlaceOf
    <3>3. /\ results[i].place <= n
          /\ \/ results[i].place = PlaceOf(results, k, i - 1) + 1
             \/ results[i].place = PlaceOf(results, k, i - 1) /\ ~results[i].ok
          /\ results[i].ok =>
               /\ answers[SubOrder[results[i].place]] = "ok"
               /\ HasOwnFile(results[i].place) => files[SubOrder[results[i].place]] = "done"
      BY <1>1, <2>2 DEF LeadsTo, last
    <3>4. results[i].place \in Nat
      <4>1. results[i] \in Entries
        BY <3>1, ElementOfSeq DEF last
      <4> QED BY <4>1, Order DEF Entries
    <3> QED BY <1>3, <3>2, <3>3, <3>4
  <2> QED BY <1>2, <2>1, <2>2
<1>7. LeadsTo(answers, files, more, k, e.place)
  BY <1>2, <1>5, <1>6 DEF LeadsTo
<1>8. k \in 0 .. Len(more)
  BY <1>2
<1> QED BY <1>7, <1>8 DEF Through, more
-----------------------------------------------------------------------------
LEMMA InitSubGoals == SubGoalsInit => SubGoalsInv
<1> SUFFICES ASSUME SubGoalsInit PROVE SubGoalsInv
  OBVIOUS
<1>1. mem = Absent /\ goalFile = Absent /\ at = "idle" /\ next = 1
  BY DEF SubGoalsInit
<1>2. /\ Absent \in States /\ Absent.status \in {"absent", "active"}
      /\ Absent.results = <<>> /\ Absent.counted = {} /\ Absent.calls = 0
  BY NewStates
<1>3. WhereOK
  BY <1>1, <1>2, Order DEF WhereOK, AtSub
<1>4. LedgerOK
  <2>1. /\ subFile = [s \in Subs |-> "absent"] /\ answer = [s \in Subs |-> "none"]
        /\ behind = [s \in Subs |-> 0] /\ usage = <<>>
    BY DEF SubGoalsInit
  <2>2. usage \in Seq(Tasks) /\ Len(usage) = 0
    BY <2>1, EmptySeq
  <2> QED BY <2>1, <2>2 DEF LedgerOK, Statuses
<1>5. ~Closed
  BY <1>1, <1>2 DEF Closed, Ended
<1>6. Costs /\ Results
  BY <1>1, <1>2, <1>5, NothingYet DEF Costs, Results, Charged
<1> QED BY <1>1, <1>3, <1>4, <1>6 DEF SubGoalsInv, OpenWhileRun
-----------------------------------------------------------------------------
(* The ledger only grows; the first answer stays the first, and so does what *)
(* came before it.                                                           *)

LEMMA AppendGrows ==
  ASSUME NEW S, NEW seq \in Seq(S), NEW x \in S
  PROVE  /\ Append(seq, x) \in Seq(S) /\ Len(Append(seq, x)) = Len(seq) + 1
         /\ DOMAIN seq \subseteq DOMAIN Append(seq, x)
         /\ \A i \in 1 .. Len(seq) : Append(seq, x)[i] = seq[i]
OBVIOUS

LEMMA Grows ==
  ASSUME SubGoalsInv, LedgerOK',
         UNCHANGED <<at, mem, verdict, next, out, goalFile, subFile>>,
         DOMAIN usage \subseteq DOMAIN usage',
         \A i \in 1 .. Len(usage) : usage'[i] = usage[i],
         \A s \in Subs : answer[s] # "none" => answer'[s] = answer[s] /\ behind'[s] = behind[s]
  PROVE  SubGoalsInv'
<1>0. WhereOK /\ LedgerOK /\ OpenWhileRun /\ Costs /\ Results
  BY DEF SubGoalsInv
<1>1. Len(usage) \in Nat /\ DOMAIN usage = 1 .. Len(usage)
  BY <1>0, LenProperties DEF LedgerOK
<1>2. Chargeable \subseteq Chargeable'
  BY <1>1 DEF Chargeable
<1>3. ASSUME NEW s \in Subs, answer[s] = "ok"
      PROVE  answer'[s] = "ok" /\ behind'[s] = behind[s]
  BY <1>3
<1>4. ASSUME NEW results \in Seq(Entries), NEW j \in DOMAIN results
      PROVE  SubOrder[results[j].place] \in Subs
  <2>1. results[j] \in Entries
    BY LenProperties, ElementOfSeq
  <2> QED BY <2>1, Order DEF Entries
<1>5. \A state \in States : Charged(state) => Charged(state)'
  BY <1>2 DEF Charged
<1>6. \A results \in Seq(Entries) : Answered(answer, results) => Answered(answer', results)
  BY <1>3, <1>4 DEF Answered
<1>7. ASSUME NEW state \in States, Answered(answer, state.results),
             Paid(usage, behind, state)
      PROVE  Paid(usage', behind', state)
  <2>1. SUFFICES ASSUME NEW j \in DOMAIN state.results, state.results[j].ok,
                        NEW s \in {SubOrder[state.results[j].place]}, s \in Under,
                        NEW i \in 1 .. behind'[s], usage'[i] = s
                 PROVE  i \in state.counted
    BY DEF Paid
  <2>2. s \in Subs /\ answer[s] = "ok"
    BY <1>4, <1>7, <2>1 DEF Answered, States
  <2>3. i \in 1 .. behind[s] /\ behind[s] \in Nat /\ behind[s] <= Len(usage)
    BY <1>0, <1>3, <2>1, <2>2 DEF LedgerOK
  <2>4. usage[i] = s
    BY <1>1, <2>1, <2>3
  <2> QED BY <1>7, <2>1, <2>3, <2>4 DEF Paid
<1>8. /\ mem \in States /\ goalFile \in States /\ next - 1 \in Nat /\ next \in Nat
      /\ mem.results \in Seq(Entries) /\ goalFile.results \in Seq(Entries)
      /\ Len(SubOrder) \in Nat
  BY <1>0, Order DEF WhereOK, States
<1>9. \A results \in Seq(Entries), n \in Nat :
        Through(answer, subFile, results, n) => Through(answer', subFile', results, n)
  <2> SUFFICES ASSUME NEW results \in Seq(Entries), NEW n \in Nat,
                      Through(answer, subFile, results, n)
               PROVE  Through(answer', subFile', results, n)
    OBVIOUS
  <2>1. \A s \in Subs : answer[s] = "ok" => answer'[s] = "ok"
    BY <1>3
  <2>2. \A p \in 1 .. Len(SubOrder) :
          p <= n /\ HasOwnFile(p) => subFile'[SubOrder[p]] = subFile[SubOrder[p]]
    OBVIOUS
  <2> QED BY <2>1, <2>2, StillThrough
<1>10. WhereOK' /\ OpenWhileRun'
  BY <1>0 DEF WhereOK, OpenWhileRun
<1>11. Costs'
  <2>1. Charged(mem)' /\ Charged(goalFile)'
    BY <1>0, <1>5, <1>8 DEF Costs, Charged
  <2>2. Paid(usage, behind, mem) => Paid(usage', behind', mem)
    BY <1>0, <1>7, <1>8 DEF Results
  <2>3. Paid(usage, behind, goalFile) => Paid(usage', behind', goalFile)
    BY <1>0, <1>7, <1>8 DEF Results
  <2> QED BY <1>0, <2>1, <2>2, <2>3 DEF Costs, Closed
<1>12. Results'
  <2>1. Answered(answer', mem.results) /\ Answered(answer', goalFile.results)
    BY <1>0, <1>6, <1>8 DEF Results
  <2>2. at \in {"close", "record"} => Sub \in Subs
    BY <1>0, Order DEF WhereOK, Sub, AtSub
  <2> QED BY <1>0, <1>3, <1>8, <1>9, <2>1, <2>2 DEF Results, Closed, Sub
<1> QED BY <1>10, <1>11, <1>12 DEF SubGoalsInv

LEMMA LedgerSteps ==
  ASSUME SubGoalsInv,
         \/ \E task \in Tasks : ReportCall(task)
         \/ \E s \in Subs, a \in {"ok", "failed"} : AnswerSub(s, a)
         \/ \E g \in Subs \cup {TheGoal} : RequestCancel(g)
  PROVE  SubGoalsInv'
<1>0. LedgerOK
  BY DEF SubGoalsInv
<1>1. ASSUME NEW task \in Tasks, ReportCall(task) PROVE SubGoalsInv'
  <2>1. /\ usage' = Append(usage, task)
        /\ UNCHANGED <<at, mem, verdict, next, out, goalFile, subFile, answer, behind>>
    BY <1>1 DEF ReportCall
  <2>2. /\ usage' \in Seq(Tasks) /\ Len(usage') = Len(usage) + 1
        /\ DOMAIN usage \subseteq DOMAIN usage'
        /\ \A i \in 1 .. Len(usage) : usage'[i] = usage[i]
    <3>1. usage \in Seq(Tasks)
      BY <1>0 DEF LedgerOK
    <3> QED BY <2>1, <3>1, AppendGrows
  <2>3. LedgerOK'
    <3>1. Len(usage) \in Nat
      BY <1>0, LenProperties DEF LedgerOK
    <3> QED BY <1>0, <2>1, <2>2, <3>1 DEF LedgerOK
  <2> QED BY <2>1, <2>2, <2>3, Grows
<1>2. ASSUME NEW s \in Subs, NEW a \in {"ok", "failed"}, AnswerSub(s, a) PROVE SubGoalsInv'
  <2>1. /\ answer[s] = "none" /\ answer' = [answer EXCEPT ![s] = a]
        /\ behind' = [behind EXCEPT ![s] = Len(usage)]
        /\ UNCHANGED <<at, mem, verdict, next, out, goalFile, subFile, usage>>
    BY <1>2 DEF AnswerSub
  <2>2. LedgerOK'
    <3>1. Len(usage) \in Nat
      BY <1>0, LenProperties DEF LedgerOK
    <3> QED BY <1>0, <2>1, <3>1 DEF LedgerOK
  <2>3. \A t \in Subs : answer[t] # "none" => answer'[t] = answer[t] /\ behind'[t] = behind[t]
    BY <1>0, <2>1 DEF LedgerOK
  <2> QED BY <2>1, <2>2, <2>3, Grows
<1>3. ASSUME NEW g \in Subs \cup {TheGoal}, RequestCancel(g) PROVE SubGoalsInv'
  <2>1. UNCHANGED <<at, mem, verdict, next, out, goalFile, subFile, answer, behind, usage>>
    BY <1>3 DEF RequestCancel
  <2>2. LedgerOK'
    BY <1>0, <2>1 DEF LedgerOK
  <2> QED BY <2>1, <2>2, Grows
<1> QED BY <1>1, <1>2, <1>3
-----------------------------------------------------------------------------
(* The steps of a run: the ledger stays, and no goal is closed before them.  *)

LEMMA StartSteps ==
  ASSUME SubGoalsInv, RunGoal \/ ResumeGoal \/ Veto \/ Kill
  PROVE  SubGoalsInv'
<1>0. WhereOK /\ LedgerOK /\ OpenWhileRun /\ Costs /\ Results
  BY DEF SubGoalsInv
<1>1. UNCHANGED <<usage, answer, behind, subFile>> /\ LedgerOK'
  BY <1>0 DEF RunGoal, ResumeGoal, Veto, Kill, ledgerPart, LedgerOK
<1>2. /\ Fresh \in States /\ Fresh.results = <<>> /\ Fresh.counted = {}
      /\ Fresh.calls = 0 /\ Fresh.status \notin Ended
      /\ Absent \in States /\ Absent.results = <<>> /\ Absent.counted = {}
      /\ Absent.calls = 0 /\ Absent.status \notin Ended
  BY NewStates DEF Ended
<1>3. CASE RunGoal
  <2>1. /\ mem' = Fresh /\ goalFile' = Fresh /\ at' = "lanes" /\ next' = 1
        /\ UNCHANGED <<verdict, out>>
    BY <1>0, <1>3 DEF RunGoal, Persist, WhereOK
  <2>2. WhereOK' /\ OpenWhileRun'
    BY <1>0, <1>2, <2>1, Order DEF WhereOK, OpenWhileRun, AtSub
  <2>3. Costs' /\ Results'
    BY <1>2, <2>1, NothingYet DEF Costs, Results, Closed, Charged
  <2> QED BY <1>1, <2>2, <2>3 DEF SubGoalsInv
<1>4. CASE ResumeGoal
  <2>1. /\ mem' = [goalFile EXCEPT !.status = "active"] /\ at' = "lanes" /\ next' = 1
        /\ UNCHANGED <<goalFile, verdict, out>> /\ goalFile.status \notin Ended
    BY <1>0, <1>4 DEF ResumeGoal, WhereOK, Ended
  <2>2. /\ mem' \in States /\ mem'.results = goalFile.results /\ mem'.status \notin Ended
        /\ mem'.counted = goalFile.counted /\ mem'.calls = goalFile.calls
    BY <1>0, <2>1 DEF WhereOK, States, Statuses, Ended
  <2>3. Charged(mem)' /\ Charged(goalFile)'
    BY <1>0, <1>1, <2>1, <2>2 DEF Charged, Costs, Chargeable
  <2>4. WhereOK' /\ OpenWhileRun'
    BY <1>0, <2>1, <2>2, Order DEF WhereOK, OpenWhileRun, AtSub
  <2>5. Costs' /\ Results'
    BY <1>0, <1>1, <2>1, <2>2, <2>3 DEF Costs, Results, Closed
  <2> QED BY <1>1, <2>4, <2>5 DEF SubGoalsInv
<1>5. CASE Veto
  <2>1. /\ goalFile' = [mem EXCEPT !.status = "aborted", !.vetoed = TRUE]
        /\ mem' = Absent /\ at' = "idle" /\ next' = 1
    BY <1>5 DEF Veto, Leave
  <2>2. /\ goalFile' \in States /\ goalFile'.results = mem.results /\ goalFile'.vetoed
        /\ goalFile'.counted = mem.counted /\ goalFile'.calls = mem.calls
    BY <1>0, <2>1 DEF WhereOK, States, Statuses
  <2>3. Charged(goalFile)' /\ Charged(mem)'
    BY <1>0, <1>1, <1>2, <2>1, <2>2, NothingYet DEF Charged, Costs, Chargeable
  <2>4. WhereOK' /\ OpenWhileRun' /\ ~Closed'
    BY <1>2, <2>1, <2>2, Order DEF WhereOK, OpenWhileRun, Closed, AtSub
  <2>5. Costs' /\ Results'
    BY <1>0, <1>1, <1>2, <2>1, <2>2, <2>3, <2>4, NothingYet DEF Costs, Results
  <2> QED BY <1>1, <2>4, <2>5 DEF SubGoalsInv
<1>6. CASE Kill
  <2>1. goalFile' = goalFile /\ mem' = Absent /\ at' = "idle" /\ next' = 1
        /\ goalFile.status \notin Ended
    BY <1>0, <1>6 DEF Kill, Leave, OpenWhileRun
  <2>2. Charged(goalFile)' /\ Charged(mem)'
    BY <1>0, <1>1, <1>2, <2>1, NothingYet DEF Charged, Costs, Chargeable
  <2>3. WhereOK' /\ OpenWhileRun' /\ ~Closed'
    BY <1>0, <1>2, <2>1, Order DEF WhereOK, OpenWhileRun, Closed, AtSub
  <2>4. Costs' /\ Results'
    BY <1>0, <1>1, <1>2, <2>1, <2>2, <2>3, NothingYet DEF Costs, Results
  <2> QED BY <1>1, <2>3, <2>4 DEF SubGoalsInv
<1> QED BY <1>3, <1>4, <1>5, <1>6

LEMMA SubSteps ==
  ASSUME SubGoalsInv, OpenSub \/ PollSub \/ CloseSub \/ SubsDone
  PROVE  SubGoalsInv'
<1>0. WhereOK /\ LedgerOK /\ OpenWhileRun /\ Costs /\ Results
  BY DEF SubGoalsInv
<1>1. /\ UNCHANGED <<usage, answer, behind, mem, goalFile, verdict, next>>
      /\ at \in {"sub", "poll", "close"} /\ at' \in {"poll", "close", "record", "fold"}
  BY DEF OpenSub, PollSub, CloseSub, SubsDone, ledgerPart
<1>2. Charged(mem)' /\ Charged(goalFile)'
  BY <1>0, <1>1 DEF Costs, Charged, Chargeable
<1>3. OpenWhileRun' /\ ~Closed'
  BY <1>0, <1>1 DEF OpenWhileRun, Closed
<1>4. Costs'
  BY <1>1, <1>2, <1>3 DEF Costs
<1>5. /\ next - 1 \in Nat /\ Len(SubOrder) \in Nat /\ next \in Nat
      /\ mem.results \in Seq(Entries)
  BY <1>0, Order DEF WhereOK, States
\* The sub-goals before the current one keep their files, if these are their own.
<1>6. ASSUME next <= Len(SubOrder), NEW v, subFile' = [subFile EXCEPT ![Sub] = v]
      PROVE  verdict # "cancelled" => Through(answer, subFile', mem.results, next - 1)
  <2>1. ASSUME NEW p \in 1 .. Len(SubOrder), p <= next - 1, HasOwnFile(p)
        PROVE  subFile'[SubOrder[p]] = subFile[SubOrder[p]]
    <3>1. next \in p + 1 .. Len(SubOrder)
      BY <1>5, <1>6, <2>1
    <3>2. SubOrder[p] # Sub /\ SubOrder[p] \in Subs
      BY <2>1, <3>1, Order DEF Sub, HasOwnFile
    <3> QED BY <1>0, <1>6, <3>2 DEF LedgerOK
  <2>2. SUFFICES ASSUME verdict # "cancelled"
                 PROVE  Through(answer, subFile', mem.results, next - 1)
    OBVIOUS
  <2>3. Through(answer, subFile, mem.results, next - 1)
    BY <1>0, <1>1, <2>2 DEF Results
  <2> DEFINE files == subFile'
             n == next - 1
  <2>4. /\ \A s \in Subs : answer[s] = "ok" => answer[s] = "ok"
        /\ \A p \in 1 .. Len(SubOrder) :
             p <= n /\ HasOwnFile(p) => files[SubOrder[p]] = subFile[SubOrder[p]]
    BY <2>1
  <2>5. n \in Nat /\ mem.results \in Seq(Entries) /\ Through(answer, subFile, mem.results, n)
    BY <1>5, <2>3
  <2> HIDE DEF files, n
  <2>6. Through(answer, files, mem.results, n)
    BY <2>4, <2>5, StillThrough
  <2> QED BY <2>6 DEF files, n
<1>7. CASE OpenSub
  <2>1. /\ next <= Len(SubOrder) /\ subFile' = [subFile EXCEPT ![Sub] = "active"]
        /\ at = "sub" /\ at' = "poll" /\ out' = out
    BY <1>7 DEF OpenSub
  <2>2. WhereOK' /\ LedgerOK'
    BY <1>0, <1>1, <2>1 DEF WhereOK, LedgerOK, Statuses, AtSub
  <2>3. Results'
    BY <1>0, <1>1, <1>3, <1>6, <2>1 DEF Results
  <2> QED BY <1>3, <1>4, <2>2, <2>3 DEF SubGoalsInv
<1>8. CASE PollSub
  <2>1. /\ subFile' = subFile /\ at = "poll" /\ at' = "close"
        /\ out' \in {"done", "failed", "cancelled"}
        /\ out' = "done" => answer[Sub] = "ok"
    BY <1>8 DEF PollSub
  <2>2. WhereOK' /\ LedgerOK'
    BY <1>0, <1>1, <2>1 DEF WhereOK, LedgerOK, Statuses, AtSub
  <2>3. Sub' = Sub
    BY <1>1 DEF Sub
  <2>4. Results'
    BY <1>0, <1>1, <1>3, <2>1, <2>3 DEF Results
  <2> QED BY <1>3, <1>4, <2>2, <2>4 DEF SubGoalsInv
<1>9. CASE CloseSub
  <2>1. /\ subFile' = [subFile EXCEPT ![Sub] = out] /\ next <= Len(SubOrder)
        /\ at = "close" /\ at' = "record" /\ out' = out
    BY <1>0, <1>9 DEF CloseSub, WhereOK, AtSub
  <2>2. Sub \in Subs /\ Sub' = Sub
    BY <1>0, <1>1, <2>1, Order DEF Sub, WhereOK
  <2>3. WhereOK' /\ LedgerOK' /\ subFile'[Sub] = out
    BY <1>0, <1>1, <2>1, <2>2 DEF WhereOK, LedgerOK, AtSub
  <2>4. Results'
    BY <1>0, <1>1, <1>3, <1>6, <2>1, <2>2, <2>3 DEF Results
  <2> QED BY <1>3, <1>4, <2>3, <2>4 DEF SubGoalsInv
<1>10. CASE SubsDone
  <2>1. subFile' = subFile /\ at = "sub" /\ at' = "fold" /\ next > Len(SubOrder) /\ out' = out
    BY <1>10 DEF SubsDone
  <2>2. WhereOK' /\ LedgerOK'
    BY <1>0, <1>1, <2>1 DEF WhereOK, LedgerOK, AtSub
  <2>3. Results'
    BY <1>0, <1>1, <1>3, <1>5, <2>1 DEF Results, WhereOK
  <2> QED BY <1>3, <1>4, <2>2, <2>3 DEF SubGoalsInv
<1> QED BY <1>7, <1>8, <1>9, <1>10

LEMMA LanesStep ==
  ASSUME SubGoalsInv, NEW v \in {"ended", "cancelled"}, Lanes(v)
  PROVE  SubGoalsInv'
<1>0. WhereOK /\ LedgerOK /\ OpenWhileRun /\ Costs /\ Results
  BY DEF SubGoalsInv
<1>1. PICK s \in {"active", "cancelled"} : Persist([mem EXCEPT !.status = s])
  BY DEF Lanes
<1>2. /\ mem' = [mem EXCEPT !.status = s] /\ goalFile' = mem' /\ verdict' = v
      /\ next = 1 /\ next' = 1 /\ UNCHANGED <<out, subFile, usage, answer, behind>>
      /\ at' = IF v = "cancelled" THEN "fold" ELSE "sub"
  BY <1>0, <1>1 DEF Lanes, Persist, WhereOK, ledgerPart
<1>3. /\ mem' \in States /\ mem'.results = mem.results /\ mem'.status \notin Ended
      /\ mem'.counted = mem.counted /\ mem'.calls = mem.calls
  BY <1>0, <1>2 DEF WhereOK, States, Statuses, Ended
<1>4. Charged(mem)' /\ Charged(goalFile)'
  BY <1>0, <1>2, <1>3 DEF Charged, Costs, Chargeable
<1>5. WhereOK' /\ LedgerOK' /\ OpenWhileRun' /\ ~Closed'
  BY <1>0, <1>2, <1>3, Order DEF WhereOK, LedgerOK, OpenWhileRun, Closed, AtSub
<1>6. Through(answer', subFile', mem'.results, 0)
  BY <1>3, NoneYet DEF States
<1>7. Costs'
  BY <1>2, <1>4, <1>5 DEF Costs
<1>8. Results'
  BY <1>0, <1>2, <1>3, <1>5, <1>6 DEF Results
<1> QED BY <1>5, <1>7, <1>8 DEF SubGoalsInv

\* An entry of the current sub-goal, the failed one after a failed write included.
LEMMA EntryMade ==
  ASSUME SubGoalsInv, NEW ok \in BOOLEAN, at \in {"sub"} \cup AtSub, next <= Len(SubOrder),
         at = "again" => ~ok,
         ok => answer[Sub] = "ok" /\ subFile[Sub] = "done"
  PROVE  /\ Entered(ok) \in States
         /\ Entered(ok).counted = mem.counted /\ Entered(ok).calls = mem.calls
         /\ Entered(ok).status = mem.status
         /\ Answered(answer, Entered(ok).results)
         /\ verdict # "cancelled" => Through(answer, subFile, Entered(ok).results, next)
<1>0. WhereOK /\ LedgerOK /\ Results
  BY DEF SubGoalsInv
<1> DEFINE e == [place |-> next, ok |-> ok]
           more == Append(mem.results, e)
<1>1. next \in 1 .. Len(SubOrder) /\ Len(SubOrder) \in Nat /\ next - 1 \in Nat /\ next \in Nat
  BY <1>0, Order DEF WhereOK
<1>2. e \in Entries /\ e.place = next /\ e.ok = ok
  BY <1>1 DEF Entries
<1>3. mem \in States /\ mem.results \in Seq(Entries)
  BY <1>0 DEF WhereOK, States
<1> HIDE DEF e
<1>4. /\ more \in Seq(Entries) /\ DOMAIN more = 1 .. Len(mem.results) + 1
      /\ DOMAIN mem.results = 1 .. Len(mem.results) /\ Len(mem.results) \in Nat
      /\ \A i \in 1 .. Len(mem.results) : more[i] = mem.results[i]
      /\ more[Len(mem.results) + 1] = e
  BY <1>2, <1>3
<1>5. Entered(ok) = [mem EXCEPT !.results = more]
  BY DEF Entered, e
<1> HIDE DEF more
<1>6. /\ Entered(ok) \in States /\ Entered(ok).results = more
      /\ Entered(ok).counted = mem.counted /\ Entered(ok).calls = mem.calls
      /\ Entered(ok).status = mem.status
  BY <1>3, <1>4, <1>5 DEF States
<1>7. Answered(answer, more)
  <2>1. SUFFICES ASSUME NEW i \in 1 .. Len(mem.results) + 1, more[i].ok
                 PROVE  answer[SubOrder[more[i].place]] = "ok"
    BY <1>4 DEF Answered
  <2>2. CASE i \in 1 .. Len(mem.results)
    BY <1>0, <1>4, <2>1, <2>2 DEF Answered, Results
  <2>3. CASE i = Len(mem.results) + 1
    BY <1>2, <1>4, <2>1, <2>3 DEF Sub
  <2> QED BY <1>4, <2>2, <2>3
<1>8. ASSUME verdict # "cancelled" PROVE Through(answer, subFile, more, next)
  <2>1. e.ok => answer[SubOrder[e.place]] = "ok" /\ subFile[SubOrder[e.place]] = "done"
    BY <1>2 DEF Sub
  <2>2. CASE at = "again"
    <3>1. Through(answer, subFile, mem.results, next)
      BY <1>0, <1>8, <2>2 DEF Results
    <3> QED BY <1>1, <1>2, <1>3, <2>1, <2>2, <3>1, OneMore DEF more
  <2>3. CASE at # "again"
    <3>1. Through(answer, subFile, mem.results, next - 1)
      BY <1>0, <1>8, <2>3 DEF Results, AtSub
    <3>2. e.place = next - 1 + 1
      BY <1>1, <1>2
    <3> QED BY <1>1, <1>2, <1>3, <2>1, <3>1, <3>2, OneMore DEF more
  <2> QED BY <2>2, <2>3
<1> QED BY <1>6, <1>7, <1>8

LEMMA EnterSteps ==
  ASSUME SubGoalsInv, RecordSub \/ RecordUnwritten \/ SubThrows PROVE SubGoalsInv'
<1>0. WhereOK /\ LedgerOK /\ OpenWhileRun /\ Costs /\ Results
  BY DEF SubGoalsInv
<1>1. PICK ok \in BOOLEAN :
        /\ Enter(ok) \/ (RecordUnwritten /\ ok = (out = "done"))
        /\ at \in {"sub"} \cup AtSub /\ next <= Len(SubOrder) /\ (at = "again" => ~ok)
        /\ ok => answer[Sub] = "ok" /\ subFile[Sub] = "done"
  <2>1. CASE RecordSub \/ RecordUnwritten
    <3>1. at = "record" /\ (out = "done") \in BOOLEAN
      BY <2>1 DEF RecordSub, RecordUnwritten
    <3>2. next <= Len(SubOrder) /\ (out = "done" => answer[Sub] = "ok" /\ subFile[Sub] = "done")
      BY <1>0, <3>1 DEF WhereOK, Results, AtSub
    <3>3. Enter(out = "done") \/ RecordUnwritten
      BY <2>1 DEF RecordSub
    <3> QED BY <3>1, <3>2, <3>3 DEF AtSub
  <2>2. CASE SubThrows
    <3>1. Enter(FALSE) /\ at \in {"sub"} \cup AtSub /\ next <= Len(SubOrder)
      BY <1>0, <2>2 DEF SubThrows, WhereOK, AtSub
    <3> WITNESS FALSE \in BOOLEAN
    <3> QED BY <3>1
  <2> QED BY <2>1, <2>2
<1>2. /\ Entered(ok) \in States
      /\ Entered(ok).counted = mem.counted /\ Entered(ok).calls = mem.calls
      /\ Entered(ok).status = mem.status
      /\ Answered(answer, Entered(ok).results)
      /\ verdict # "cancelled" => Through(answer, subFile, Entered(ok).results, next)
  BY <1>1, EntryMade
<1>3. /\ mem' = Entered(ok)
      /\ goalFile' \in {mem', goalFile}
      /\ UNCHANGED <<verdict, subFile, usage, answer, behind>>
      /\ \/ at' = "sub" /\ next' = next + 1
         \/ at' = "again" /\ next' = next
  BY <1>1 DEF Enter, Persist, RecordUnwritten, ledgerPart
<1>4. Charged(mem)' /\ Charged(goalFile)'
  BY <1>0, <1>2, <1>3 DEF Costs, Charged, Chargeable
<1>5. next \in 1 .. Len(SubOrder) /\ Len(SubOrder) \in Nat /\ next + 1 - 1 = next
  BY <1>0, <1>1, Order DEF WhereOK
<1>6. WhereOK' /\ LedgerOK'
  BY <1>0, <1>1, <1>2, <1>3, <1>5 DEF WhereOK, LedgerOK, AtSub
<1>7. OpenWhileRun' /\ ~Closed'
  BY <1>0, <1>1, <1>2, <1>3 DEF OpenWhileRun, Closed, AtSub
<1>8. Costs'
  BY <1>3, <1>4, <1>7 DEF Costs
<1>9. Results'
  BY <1>0, <1>2, <1>3, <1>5, <1>7 DEF Results
<1> QED BY <1>6, <1>7, <1>8, <1>9 DEF SubGoalsInv

LEMMA FoldStep ==
  ASSUME SubGoalsInv, Fold PROVE SubGoalsInv'
<1>0. WhereOK /\ LedgerOK /\ OpenWhileRun /\ Costs /\ Results
  BY DEF SubGoalsInv
<1>1. /\ goalFile' = mem' /\ at = "fold" /\ at' = "finish"
      /\ UNCHANGED <<verdict, next, out, subFile, usage, answer, behind>>
      /\ Chargeable' = Chargeable
  BY DEF Fold, Persist, ledgerPart, Chargeable
<1>2. /\ mem.counted \in SUBSET Chargeable /\ mem.calls = Cardinality(mem.counted)
      /\ mem \in States /\ Chargeable \subseteq Nat
  BY <1>0, ChargeableIsFinite DEF Costs, Charged, WhereOK
<1> DEFINE c == mem.calls + Cardinality(Chargeable \ mem.counted)
           all == mem.counted \cup Chargeable
<1>3. c \in Nat /\ c = Cardinality(all) /\ all \in SUBSET Nat
  <2>1. /\ Cardinality(mem.counted \cup Chargeable)
             = Cardinality(mem.counted) + Cardinality(Chargeable \ mem.counted)
        /\ Cardinality(Chargeable \ mem.counted) \in Nat /\ Cardinality(mem.counted) \in Nat
    BY <1>0, <1>2, CountedOnce
  <2>2. c \in Nat /\ c = Cardinality(all)
    BY <1>2, <2>1
  <2>3. all \in SUBSET Nat
    BY <1>2
  <2> QED BY <2>2, <2>3
<1>4. /\ \/ mem' = [mem EXCEPT !.calls = c, !.counted = all, !.costed = TRUE]
         \/ mem' = [mem EXCEPT !.costed = FALSE]
  BY DEF Fold, Persist
<1>5. all = Chargeable
  BY <1>2
<1> HIDE DEF c, all
<1>6. /\ mem' \in States /\ mem'.results = mem.results /\ mem'.status = mem.status
      /\ \/ mem'.calls = c /\ mem'.counted = all
         \/ mem'.calls = mem.calls /\ mem'.counted = mem.counted /\ ~mem'.costed
  BY <1>2, <1>3, <1>4 DEF States
<1>7. Charged(mem)' /\ Charged(goalFile)'
  <2>1. mem'.calls = Cardinality(mem'.counted) /\ mem'.counted \subseteq Chargeable'
    BY <1>1, <1>2, <1>3, <1>5, <1>6, Zenon
  <2> QED BY <1>1, <2>1 DEF Charged
<1>8. mem'.costed => Paid(usage', behind', mem')
  <2>1. SUFFICES ASSUME mem'.costed, NEW j \in DOMAIN mem.results,
                        NEW s \in {SubOrder[mem.results[j].place]}, s \in Under,
                        NEW i \in 1 .. behind[s], usage[i] = s
                 PROVE  i \in mem'.counted
    BY <1>1, <1>6 DEF Paid
  <2>2. s \in Subs
    <3>1. mem.results[j] \in Entries
      BY <1>2, LenProperties, ElementOfSeq DEF States
    <3> QED BY <2>1, <3>1, Order DEF Entries
  <2>3. i \in DOMAIN usage
    BY <1>0, <2>2, LenProperties DEF LedgerOK
  <2>4. i \in Chargeable
    BY <2>1, <2>3 DEF Chargeable
  <2> QED BY <1>5, <1>6, <2>1, <2>4
<1>9. WhereOK' /\ LedgerOK' /\ OpenWhileRun' /\ ~Closed'
  BY <1>0, <1>1, <1>6 DEF WhereOK, LedgerOK, OpenWhileRun, Closed, AtSub
<1>10. Costs'
  BY <1>7, <1>8, <1>9 DEF Costs
<1>11. Results'
  BY <1>0, <1>1, <1>6, <1>9 DEF Results
<1> QED BY <1>9, <1>10, <1>11 DEF SubGoalsInv

LEMMA FinishStep ==
  ASSUME SubGoalsInv, Finish PROVE SubGoalsInv'
<1>0. WhereOK /\ LedgerOK /\ OpenWhileRun /\ Costs /\ Results
  BY DEF SubGoalsInv
<1>1. PICK s \in Ended \cup {"cancelled"} :
        /\ goalFile' = [mem EXCEPT !.status = s]
        /\ verdict = "cancelled" => s = "cancelled"
  BY DEF Finish
<1>2. /\ mem' = Absent /\ at = "finish" /\ at' = "idle" /\ next' = 1
      /\ UNCHANGED <<subFile, usage, answer, behind>>
  BY DEF Finish, Leave, ledgerPart
<1>3. /\ goalFile' \in States /\ goalFile'.results = mem.results /\ goalFile'.status = s
      /\ goalFile'.counted = mem.counted /\ goalFile'.calls = mem.calls
      /\ goalFile'.costed = mem.costed
  BY <1>0, <1>1 DEF WhereOK, States, Statuses, Ended
<1>4. /\ Absent \in States /\ Absent.results = <<>> /\ Absent.counted = {}
      /\ Absent.calls = 0
  BY NewStates
<1>5. Charged(goalFile)' /\ Charged(mem)'
  BY <1>0, <1>2, <1>3, <1>4, NothingYet DEF Charged, Costs, Chargeable
<1>6. goalFile'.costed => Paid(usage', behind', goalFile')
  BY <1>0, <1>2, <1>3 DEF Costs, Paid
<1>7. WhereOK' /\ LedgerOK' /\ OpenWhileRun'
  BY <1>0, <1>2, <1>3, <1>4, Order DEF WhereOK, OpenWhileRun, LedgerOK, AtSub
<1>8. Costs'
  BY <1>2, <1>5, <1>6 DEF Costs
<1>9. Closed' => verdict # "cancelled"
  BY <1>1, <1>3 DEF Closed, Ended
<1>10. verdict # "cancelled" => Through(answer, subFile, mem.results, Len(SubOrder))
  <2>1. verdict # "cancelled" =>
          /\ Through(answer, subFile, mem.results, next - 1)
          /\ next - 1 = Len(SubOrder)
    BY <1>0, <1>2, Order DEF Results
  <2> QED BY <2>1
<1>11. Results'
  BY <1>0, <1>2, <1>3, <1>4, <1>9, <1>10, NothingYet DEF Results
<1> QED BY <1>7, <1>8, <1>11 DEF SubGoalsInv

(* What a run knows of its sub-goals and of the calls it has charged.        *)
THEOREM SubGoalsInvariant == SubGoalsSpec => []SubGoalsInv
<1>1. SubGoalsInit => SubGoalsInv
  BY InitSubGoals
<1>2. ASSUME SubGoalsInv, [SubGoalsNext]_subGoalVars PROVE SubGoalsInv'
  <2>1. CASE UNCHANGED subGoalVars
    <3>1. UNCHANGED <<at, mem, verdict, next, out, goalFile, subFile, answer, behind, usage>>
      BY <2>1 DEF subGoalVars, ledgerPart
    <3>2. LedgerOK'
      BY <1>2, <3>1 DEF SubGoalsInv, LedgerOK
    <3> QED BY <1>2, <3>1, <3>2, Grows
  <2>2. CASE SubGoalsNext
    BY <1>2, <2>2, LedgerSteps, StartSteps, SubSteps, LanesStep, EnterSteps, FoldStep,
       FinishStep DEF SubGoalsNext, Tasks
  <2> QED BY <1>2, <2>1, <2>2
<1> QED BY <1>1, <1>2, PTL DEF SubGoalsSpec

(* No call is charged twice, none but those under the goal's id, and a goal  *)
(* that ended after a fold that went through has charged those reported      *)
(* before the answers it counts (applyUsageFactsToState).                    *)
THEOREM CostsAreCounted == SubGoalsSpec => []CallsCountedOnce
<1>1. SubGoalsInv => CallsCountedOnce
  <2> SUFFICES ASSUME SubGoalsInv PROVE CallsCountedOnce
    OBVIOUS
  <2>1. goalFile.calls = Cardinality(goalFile.counted) /\ goalFile.counted \subseteq Chargeable
    BY DEF SubGoalsInv, Costs, Charged
  <2>2. Closed /\ goalFile.costed => Paid(usage, behind, goalFile)
    BY DEF SubGoalsInv, Costs
  <2> QED BY <2>1, <2>2 DEF CallsCountedOnce, Closed, Paid
<1> QED BY <1>1, SubGoalsInvariant, PTL

(* The entries of the last run of a goal that ended lead through all its     *)
(* sub-goals, and those that count as done were answered and, unless the id  *)
(* comes again, are closed (runGoalLoop).                                    *)
THEOREM SubGoalsAreAccountedFor == SubGoalsSpec => []SubGoalsAccountedFor
<1>1. SubGoalsInv => SubGoalsAccountedFor
  <2> SUFFICES ASSUME SubGoalsInv, Closed PROVE SubGoalsAccountedFor
    BY DEF SubGoalsAccountedFor, Closed
  <2>1. Through(answer, subFile, goalFile.results, Len(SubOrder))
    BY DEF SubGoalsInv, Results
  <2>2. PICK k \in 0 .. Len(goalFile.results) :
          LeadsTo(answer, subFile, goalFile.results, k, Len(SubOrder))
    BY <2>1 DEF Through
  <2> QED BY <2>2 DEF SubGoalsAccountedFor, LeadsTo
<1> QED BY <1>1, SubGoalsInvariant, PTL

----------------------------------------------------------------------------
(***************************************************************************)
(* What an install and an uninstall leave, for any skills, checkouts and    *)
(* bounds.  A run works step by step, so the invariant says of each step    *)
(* what the steps before it have made sure of; the runs before it only      *)
(* matter for what they left in the home, of which it assumes the types.    *)
(***************************************************************************)

InstallSpec == InstallInit /\ [][InstallNext]_installVars

Steps == {"idle", "skills", "copy", "bash", "ps1", "manifest", "key", "installed",
          "unskills", "unbash", "unps1", "unmanifest", "unkey", "uninstalled"}

Contents == [kind : {"none", "link", "copy", "part"}, of : Roots \cup {NoRoot}, at : Nat]

Manifests == [file : {"none", "list", "broken"},
              ofs : (Roots \cup {NoRoot}) \X Nat, others : BOOLEAN]

RunOK ==
  /\ step \in Steps
  /\ root \in Roots \cup {NoRoot}
  /\ step # "idle" => root \in Roots
  /\ unseen \in Seq(SkillIds)
  /\ left \subseteq SkillIds
  /\ warned \in BOOLEAN

HomeOK ==
  /\ bridge \in [SkillIds -> Contents]
  /\ shim \in [{"bash", "ps1"} -> Roots \cup {NoRoot, Torn}]
  /\ manifest \in Manifests
  /\ known \in [Roots -> Nat]

OutsideOK ==
  /\ key \in Nat
  /\ release \in [Roots -> Nat]
  /\ deaths \in Nat

InstallTypeOK == RunOK /\ HomeOK /\ OutsideOK

Served(s) == bridge[s] \in {Link(root), Copied("copy", root)}

\* What an install has behind it at each of its steps.
Installing ==
  /\ step = "copy" => unseen # <<>> /\ bridge[Current] = Copied("part", root)
  /\ step \in {"skills", "copy"} =>
       \A s \in SkillIds : s \in left \/ Served(s) \/ \E i \in DOMAIN unseen : unseen[i] = s
  /\ step \in {"bash", "ps1", "manifest", "key", "installed"} =>
       \A s \in SkillIds \ left : Served(s)
  /\ step \in {"ps1", "manifest", "key", "installed"} => shim["bash"] = root
  /\ step \in {"manifest", "key", "installed"} => shim["ps1"] = root
  /\ step \in {"key", "installed"} =>
       manifest.file = "list" /\ manifest.ofs = <<root, release[root]>>
  /\ step = "installed" => (key # 0 => known[root] = key)

\* What an uninstall that has not warned of anything has behind it.
Uninstalling ==
  /\ manifest.file = "none" => manifest.ofs = NoManifest.ofs
  /\ step \in {"unbash", "unps1", "unmanifest", "unkey"} /\ ~warned =>
       bridge = [s \in SkillIds |-> Nothing]
  /\ step \in {"unps1", "unmanifest", "unkey"} /\ ~warned => shim["bash"] = NoRoot
  /\ step \in {"unmanifest", "unkey"} /\ ~warned => shim["ps1"] = NoRoot
  /\ step = "unkey" => manifest.file = "broken" \/ manifest.ofs = NoManifest.ofs

InstallInv == InstallTypeOK /\ Installing /\ Uninstalling
-----------------------------------------------------------------------------
LEMMA ContentTypes ==
  ASSUME RunOK, HomeOK, OutsideOK
  PROVE  /\ Nothing \in Contents
         /\ NoManifest \in Manifests
         /\ step # "idle" => /\ Link(root) \in Contents
                            /\ Copied("part", root) \in Contents
                            /\ <<root, release[root]>> \in (Roots \cup {NoRoot}) \X Nat
         /\ \A s \in SkillIds : Remains(s) \subseteq Contents
<1>1. Nothing \in Contents
  BY DEF Nothing, Contents
<1>2. NoManifest \in Manifests
  BY DEF NoManifest, Manifests
<1>3. ASSUME step # "idle"
      PROVE  /\ Link(root) \in Contents
             /\ Copied("part", root) \in Contents
             /\ <<root, release[root]>> \in (Roots \cup {NoRoot}) \X Nat
  BY <1>3 DEF RunOK, OutsideOK, Link, Copied, Contents
<1>4. ASSUME NEW s \in SkillIds PROVE Remains(s) \subseteq Contents
  <2>1. bridge[s] \in Contents
    BY DEF HomeOK
  <2>2. [bridge[s] EXCEPT !.kind = "part"] \in Contents
    BY <2>1 DEF Contents
  <2> QED BY <1>1, <2>1, <2>2 DEF Remains
<1> QED BY <1>1, <1>2, <1>3, <1>4

LEMMA InitInstall == InstallInit => InstallInv
<1> SUFFICES ASSUME InstallInit PROVE InstallInv
  OBVIOUS
<1> USE DEF InstallInit
<1>1. RunOK
  <2>1. <<>> \in Seq(SkillIds)
    OBVIOUS
  <2>2. left \subseteq SkillIds /\ warned \in BOOLEAN
    OBVIOUS
  <2> QED BY <2>1, <2>2 DEF RunOK, Steps
<1>2. Nothing \in Contents /\ NoManifest \in Manifests
  BY DEF Nothing, Contents, NoManifest, Manifests
<1>3. HomeOK /\ OutsideOK
  BY <1>2 DEF HomeOK, OutsideOK
<1>4. Installing /\ Uninstalling
  BY DEF Installing, Uninstalling, NoManifest
<1> QED BY <1>1, <1>3, <1>4 DEF InstallInv, InstallTypeOK

(* What the skill steps do to the bookkeeping: a skill that is still to come *)
(* is in the tail, unless it is the current one.                             *)
LEMMA RestOfSkills ==
  ASSUME NEW q \in Seq(SkillIds), q # <<>>
  PROVE  /\ Head(q) \in SkillIds /\ Tail(q) \in Seq(SkillIds)
         /\ \A i \in DOMAIN q : q[i] = Head(q) \/ \E j \in DOMAIN Tail(q) : Tail(q)[j] = q[i]
<1>1. Len(q) \in Nat /\ Len(q) > 0 /\ DOMAIN q = 1 .. Len(q) /\ Head(q) = q[1]
  BY EmptySeq, LenProperties
<1>2. /\ Head(q) \in SkillIds /\ Tail(q) \in Seq(SkillIds)
      /\ Len(Tail(q)) = Len(q) - 1
      /\ \A i \in 1 .. Len(Tail(q)) : Tail(q)[i] = q[i + 1]
  BY HeadTailProperties
<1>3. ASSUME NEW i \in DOMAIN q, i # 1
      PROVE  \E j \in DOMAIN Tail(q) : Tail(q)[j] = q[i]
  <2>1. i - 1 \in 1 .. Len(Tail(q)) /\ (i - 1) + 1 = i
    BY <1>1, <1>2, <1>3
  <2>2. DOMAIN Tail(q) = 1 .. Len(Tail(q))
    BY <1>2, LenProperties
  <2> QED BY <2>1, <2>2, <1>2
<1> QED BY <1>1, <1>2, <1>3

LEMMA RunStep == InstallTypeOK /\ Installing /\ [InstallNext]_installVars => RunOK'
<1> SUFFICES ASSUME InstallTypeOK, Installing, [InstallNext]_installVars PROVE RunOK'
  OBVIOUS
<1> USE InstallerAssumption DEF InstallTypeOK, RunOK
<1>1. ASSUME NEW r \in Roots, StartInstall(r) \/ StartUninstall(r) PROVE RunOK'
  BY <1>1 DEF StartInstall, StartUninstall, StartRun, Steps
<1>2. ASSUME NEW q \in BOOLEAN, step # "idle", unseen # <<>>, Pass(q) PROVE RunOK'
  BY <1>2, RestOfSkills DEF Pass, Steps, Current
<1>3. CASE KeepSkill \/ LinkSkill \/ EndCopy
  BY <1>2, <1>3 DEF KeepSkill, LinkSkill, EndCopy, Installing
<1>4. CASE BeginCopy
  BY <1>2, <1>4 DEF BeginCopy, Go, Steps
<1>5. ASSUME NEW s \in Steps, Go(s), step # "idle", warned' \in BOOLEAN PROVE RunOK'
  BY <1>5 DEF Go
<1>6. CASE SkillsDone
  BY <1>5, <1>6 DEF SkillsDone, Steps
<1>7. CASE WriteShim("bash", "ps1") \/ WriteShim("ps1", "manifest")
  BY <1>5, <1>7 DEF WriteShim, Steps
<1>8. CASE WriteManifest \/ RegisterKey
  BY <1>5, <1>8 DEF WriteManifest, RegisterKey, Steps
<1>9. CASE RemoveSkills
  <2>1. warned' \in BOOLEAN
    BY <1>9 DEF RemoveSkills
  <2> QED BY <1>5, <1>9, <2>1 DEF RemoveSkills, Steps
<1>10. CASE RemoveShim("unbash", "bash", "unps1") \/ RemoveShim("unps1", "ps1", "unmanifest")
  BY <1>5, <1>10 DEF RemoveShim, Steps
<1>11. CASE RemoveEntry \/ RemoveKey
  BY <1>5, <1>11 DEF RemoveEntry, RemoveKey, Steps
<1>12. CASE Report
  BY <1>5, <1>12 DEF Report, Steps
<1>13. CASE Die
  BY <1>5, <1>13 DEF Die, Steps
<1>14. CASE (\E r \in Roots : Update(r)) \/ NewKey \/ EditManifest \/ UNCHANGED installVars
  BY <1>14 DEF Update, NewKey, EditManifest, installVars, run
<1> QED
  BY <1>1, <1>3, <1>4, <1>6, <1>7, <1>8, <1>9, <1>10, <1>11, <1>12, <1>13, <1>14
  DEF InstallNext

LEMMA HomeStep == InstallTypeOK /\ Installing /\ [InstallNext]_installVars => HomeOK'
<1> SUFFICES ASSUME InstallTypeOK, Installing, [InstallNext]_installVars PROVE HomeOK'
  OBVIOUS
<1> USE InstallerAssumption DEF HomeOK
<1>0. RunOK /\ HomeOK /\ OutsideOK
  BY DEF InstallTypeOK
<1>1. step \in {"skills", "copy"} /\ unseen # <<>> => Current \in SkillIds
  BY <1>0, RestOfSkills DEF RunOK, Current
<1>2. CASE KeepSkill
  BY <1>0, <1>2 DEF KeepSkill, Pass
<1>3. CASE LinkSkill
  BY <1>0, <1>1, <1>3, ContentTypes DEF LinkSkill, Pass
<1>4. CASE BeginCopy
  BY <1>0, <1>1, <1>4, ContentTypes DEF BeginCopy, Pass
<1>5. CASE EndCopy
  <2>1. Current \in SkillIds /\ bridge[Current] \in Contents
    BY <1>0, <1>1, <1>5 DEF EndCopy, Installing
  <2>2. [bridge[Current] EXCEPT !.kind = "copy"] \in Contents
    BY <2>1 DEF Contents
  <2>3. bridge' \in [SkillIds -> Contents]
    BY <1>0, <1>5, <2>1, <2>2 DEF EndCopy
  <2> QED BY <1>0, <1>5, <2>3 DEF EndCopy, Pass
<1>6. CASE WriteShim("bash", "ps1") \/ WriteShim("ps1", "manifest")
  BY <1>0, <1>6 DEF WriteShim, RunOK
<1>7. CASE WriteManifest
  <2>1. manifest' \in Manifests
    BY <1>0, <1>7, ContentTypes DEF WriteManifest, Manifests
  <2> QED BY <1>0, <1>7, <2>1 DEF WriteManifest
<1>8. CASE RegisterKey
  BY <1>0, <1>8 DEF RegisterKey, OutsideOK
<1>9. CASE RemoveSkills
  <2>1. bridge' \in [SkillIds -> Contents]
    BY <1>0, <1>9, ContentTypes DEF RemoveSkills, Removals
  <2> QED BY <1>0, <1>9, <2>1 DEF RemoveSkills
<1>10. CASE RemoveShim("unbash", "bash", "unps1") \/ RemoveShim("unps1", "ps1", "unmanifest")
  BY <1>0, <1>10 DEF RemoveShim
<1>11. CASE RemoveEntry
  <2>1. NoManifest.ofs \in (Roots \cup {NoRoot}) \X Nat
    BY DEF NoManifest
  <2>2. manifest' \in Manifests
    BY <1>0, <1>11, <2>1, ContentTypes DEF RemoveEntry, Manifests
  <2> QED BY <1>0, <1>11, <2>2 DEF RemoveEntry
<1>12. CASE RemoveKey
  BY <1>0, <1>12 DEF RemoveKey
<1>13. CASE Die
  <2>1. bridge' \in [SkillIds -> Contents]
    BY <1>0, <1>13, ContentTypes DEF Die, Removals
  <2>2. shim' \in [{"bash", "ps1"} -> Roots \cup {NoRoot, Torn}]
    BY <1>0, <1>13 DEF Die
  <2>3. known' \in [Roots -> Nat]
    BY <1>0, <1>13 DEF Die, TornKey
  <2> QED BY <1>0, <1>13, <2>1, <2>2, <2>3 DEF Die
<1>14. CASE EditManifest
  <2>1. manifest' \in Manifests
    BY <1>0, <1>14 DEF EditManifest, Manifests
  <2> QED BY <1>0, <1>14, <2>1 DEF EditManifest
<1>15. CASE SkillsDone \/ Report \/ NewKey \/ UNCHANGED installVars
  BY <1>0, <1>15 DEF SkillsDone, Report, NewKey, installVars, home
<1>16. CASE \E r \in Roots : StartInstall(r) \/ StartUninstall(r) \/ Update(r)
  BY <1>0, <1>16 DEF StartInstall, StartUninstall, StartRun, Update, home
<1> QED
  BY <1>2, <1>3, <1>4, <1>5, <1>6, <1>7, <1>8, <1>9, <1>10, <1>11, <1>12, <1>13, <1>14,
     <1>15, <1>16 DEF InstallNext

LEMMA OutsideStep == OutsideOK /\ [InstallNext]_installVars => OutsideOK'
<1> SUFFICES ASSUME OutsideOK, [InstallNext]_installVars PROVE OutsideOK'
  OBVIOUS
<1> USE DEF OutsideOK
<1>1. CASE UNCHANGED outside
  BY <1>1 DEF outside
<1>2. CASE Die \/ NewKey
  BY <1>2 DEF Die, NewKey
<1>3. ASSUME NEW r \in Roots, Update(r) PROVE OutsideOK'
  BY <1>3 DEF Update
<1>4. CASE UNCHANGED installVars
  BY <1>4, <1>1 DEF installVars
<1> QED
  BY <1>1, <1>2, <1>3, <1>4
  DEF InstallNext, StartInstall, StartUninstall, StartRun, KeepSkill, LinkSkill, BeginCopy,
      EndCopy, SkillsDone, Pass, WriteShim, WriteManifest, RegisterKey, RemoveSkills,
      RemoveShim, RemoveEntry, RemoveKey, Report, EditManifest, outside
LEMMA InstallingStep ==
  InstallTypeOK /\ Installing /\ [InstallNext]_installVars => Installing'
<1> SUFFICES ASSUME InstallTypeOK, Installing, [InstallNext]_installVars PROVE Installing'
  OBVIOUS
<1> DEFINE Done == \A s \in SkillIds \ left : Served(s)
           Ahead(s) == \E i \in DOMAIN unseen : unseen[i] = s
<1>0. RunOK /\ HomeOK /\ OutsideOK
  BY DEF InstallTypeOK
<1>1. step \in {"skills", "copy"} /\ unseen # <<>> =>
        /\ Current \in SkillIds
        /\ \A s \in SkillIds : Ahead(s) => s = Current \/ \E j \in DOMAIN Tail(unseen) : Tail(unseen)[j] = s
  BY <1>0, RestOfSkills DEF RunOK, Current
<1>2. CASE \E r \in Roots : StartInstall(r) \/ StartUninstall(r)
  <2>1. CASE \E r \in Roots : StartUninstall(r)
    BY <2>1 DEF StartUninstall, StartRun, Installing
  <2>2. CASE \E r \in Roots : StartInstall(r)
    <3>1. step' = "skills" /\ unseen' = SkillOrder
      BY <2>2 DEF StartInstall, StartRun
    <3>2. \A s \in SkillIds : \E i \in DOMAIN unseen' : unseen'[i] = s
      BY <3>1 DEF SkillIds
    <3> QED BY <3>1, <3>2 DEF Installing
  <2> QED BY <1>2, <2>1, <2>2
\* A skill is passed: every other one is where it was, and this one is served or left.
<1>3. ASSUME NEW c \in SkillIds, c = Current, NEW q \in BOOLEAN, Pass(q),
             step \in {"skills", "copy"}, unseen # <<>>,
             \A s \in SkillIds \ {c} : bridge'[s] = bridge[s],
             q \/ Served(c)'
      PROVE  Installing'
  <2>1. step' = "skills" /\ root' = root /\ release' = release /\ unseen' = Tail(unseen)
    BY <1>3 DEF Pass, outside
  <2>2. ASSUME NEW s \in SkillIds
        PROVE  s \in left' \/ Served(s)' \/ \E i \in DOMAIN unseen' : unseen'[i] = s
    <3>1. CASE s = c
      BY <1>3, <3>1 DEF Pass
    <3>2. CASE s # c
      <4>1. s \in left \/ Served(s) \/ Ahead(s)
        BY <1>3 DEF Installing
      <4>2. s \in left => s \in left'
        BY <1>3 DEF Pass
      <4>3. Served(s) => Served(s)'
        BY <1>3, <2>1, <3>2 DEF Served, Link, Copied
      <4>4. Ahead(s) => \E i \in DOMAIN unseen' : unseen'[i] = s
        BY <1>1, <1>3, <2>1, <3>2
      <4> QED BY <4>1, <4>2, <4>3, <4>4
    <3> QED BY <3>1, <3>2
  <2> QED BY <2>1, <2>2 DEF Installing
<1>4. CASE KeepSkill
  <2>1. PICK c \in SkillIds : c = Current
    BY <1>1, <1>4 DEF KeepSkill
  <2>2. PICK q \in BOOLEAN : q = (bridge[Current] # Link(root))
    OBVIOUS
  <2>3. Pass(q) /\ bridge' = bridge /\ step = "skills" /\ unseen # <<>>
    BY <1>4, <2>2 DEF KeepSkill
  <2>4. q \/ Served(c)'
    BY <2>1, <2>2, <2>3 DEF Pass, Served, Link
  <2> QED BY <1>3, <2>1, <2>3, <2>4
<1>5. CASE LinkSkill
  <2>1. PICK c \in SkillIds : c = Current
    BY <1>1, <1>5 DEF LinkSkill
  <2>2. /\ Pass(FALSE) /\ step = "skills" /\ unseen # <<>>
        /\ bridge' = [bridge EXCEPT ![c] = Link(root)]
    BY <1>5, <2>1 DEF LinkSkill
  <2>3. bridge'[c] = Link(root) /\ \A s \in SkillIds \ {c} : bridge'[s] = bridge[s]
    BY <1>0, <2>2 DEF HomeOK
  <2>4. Served(c)'
    BY <2>2, <2>3 DEF Pass, Served, Link
  <2> QED BY <1>3, <2>1, <2>2, <2>3, <2>4
<1>6. CASE BeginCopy
  <2>1. PICK c \in SkillIds : c = Current
    BY <1>1, <1>6 DEF BeginCopy
  <2>2. step = "skills" /\ unseen # <<>>
    BY <1>6 DEF BeginCopy
  <2>3. CASE Pass(TRUE) /\ UNCHANGED bridge
    BY <1>3, <2>1, <2>2, <2>3
  <2>4. CASE /\ bridge' = [bridge EXCEPT ![Current] = Copied("part", root)]
             /\ Go("copy")
             /\ UNCHANGED <<warned, shim, manifest, known, outside>>
    <3>1. bridge'[c] = Copied("part", root) /\ \A s \in SkillIds \ {c} : bridge'[s] = bridge[s]
      BY <1>0, <2>1, <2>4 DEF HomeOK
    <3>2. step' = "copy" /\ UNCHANGED <<root, unseen, left, release>>
      BY <2>4 DEF Go, outside
    <3>3. Current' = c
      BY <2>1, <3>2 DEF Current
    <3>4. bridge'[Current'] = Copied("part", root)'
      BY <3>1, <3>2, <3>3 DEF Copied
    <3>5. ASSUME NEW s \in SkillIds PROVE s \in left' \/ Served(s)' \/ Ahead(s)'
      <4>1. s \in left \/ Served(s) \/ Ahead(s)
        BY <2>2 DEF Installing
      <4>2. Served(s) /\ s # c => Served(s)'
        BY <3>1, <3>2 DEF Served, Link, Copied
      <4>3. Ahead(c)
        <5>1. unseen \in Seq(SkillIds) /\ Head(unseen) = unseen[1] /\ 1 \in DOMAIN unseen
          BY <1>0, <2>2, EmptySeq, LenProperties DEF RunOK
        <5> QED BY <2>1, <5>1 DEF Current
      <4> QED BY <3>2, <4>1, <4>2, <4>3
    <3> QED BY <2>2, <3>2, <3>4, <3>5 DEF Installing
  <2> QED BY <1>6, <2>3, <2>4 DEF BeginCopy
<1>7. CASE EndCopy
  <2>1. step = "copy" /\ unseen # <<>> /\ bridge[Current] = Copied("part", root)
    BY <1>7 DEF EndCopy, Installing
  <2>2. PICK c \in SkillIds : c = Current
    BY <1>1, <2>1
  <2>3. CASE UNCHANGED bridge /\ Pass(TRUE)
    BY <1>3, <2>1, <2>2, <2>3
  <2>4. CASE bridge' = [bridge EXCEPT ![Current].kind = "copy"] /\ Pass(FALSE)
    <3>1. [bridge[c] EXCEPT !.kind = "copy"] = Copied("copy", root)
      BY <2>1, <2>2 DEF Copied
    <3>2. bridge'[c] = Copied("copy", root) /\ \A s \in SkillIds \ {c} : bridge'[s] = bridge[s]
      <4>1. bridge' = [bridge EXCEPT ![c] = [bridge[c] EXCEPT !.kind = "copy"]]
        BY <2>2, <2>4
      <4>2. c \in DOMAIN bridge
        BY <1>0, <2>2 DEF HomeOK
      <4> QED BY <3>1, <4>1, <4>2
    <3>3. Served(c)'
      BY <2>4, <3>2 DEF Pass, outside, Served, Copied
    <3> QED BY <1>3, <2>1, <2>2, <2>4, <3>2, <3>3
  <2> QED BY <1>7, <2>3, <2>4 DEF EndCopy
<1>8. CASE SkillsDone
  <2>1. /\ step = "skills" /\ unseen = <<>> /\ step' = "bash"
        /\ UNCHANGED <<root, left, bridge, release>>
    BY <1>8 DEF SkillsDone, Go, home, outside
  <2>2. \A s \in SkillIds \ left : Served(s)
    BY <2>1 DEF Installing
  <2>3. \A s \in SkillIds \ left' : Served(s)'
    BY <2>1, <2>2 DEF Served, Link, Copied
  <2> QED BY <2>1, <2>3 DEF Installing
\* The steps after the skills leave these alone and add their own part.
<1>9. ASSUME UNCHANGED <<root, left, bridge, release>>, Done PROVE Done'
  BY <1>9 DEF Served, Link, Copied
<1>10. CASE WriteShim("bash", "ps1")
  <2>1. /\ step = "bash" /\ step' = "ps1" /\ shim' = [shim EXCEPT !["bash"] = root]
        /\ UNCHANGED <<root, left, bridge, release>>
    BY <1>10 DEF WriteShim, Go, outside
  <2>2. Done'
    BY <1>9, <2>1 DEF Installing
  <2>3. shim'["bash"] = root'
    BY <1>0, <2>1 DEF HomeOK
  <2> QED BY <2>1, <2>2, <2>3 DEF Installing
<1>11. CASE WriteShim("ps1", "manifest")
  <2>1. /\ step = "ps1" /\ step' = "manifest" /\ shim' = [shim EXCEPT !["ps1"] = root]
        /\ UNCHANGED <<root, left, bridge, release>>
    BY <1>11 DEF WriteShim, Go, outside
  <2>2. Done'
    BY <1>9, <2>1 DEF Installing
  <2>3. shim'["ps1"] = root' /\ shim'["bash"] = root'
    BY <1>0, <2>1 DEF HomeOK, Installing
  <2> QED BY <2>1, <2>2, <2>3 DEF Installing
<1>12. CASE WriteManifest
  <2>1. /\ step = "manifest" /\ step' = "key" /\ UNCHANGED <<root, left, bridge, release, shim>>
        /\ manifest'.file = "list" /\ manifest'.ofs = <<root, release[root]>>
    BY <1>12 DEF WriteManifest, Go, outside
  <2>2. Done'
    BY <1>9, <2>1 DEF Installing
  <2> QED BY <2>1, <2>2 DEF Installing
<1>13. CASE RegisterKey
  <2>1. /\ step = "key" /\ step' = "installed"
        /\ UNCHANGED <<root, left, bridge, release, shim, manifest, key>>
    BY <1>13 DEF RegisterKey, Go, outside
  <2>2. Done'
    BY <1>9, <2>1 DEF Installing
  <2>3. root \in Roots
    BY <1>0, <2>1 DEF RunOK
  <2>4. key # 0 => known'[root] = key
    BY <1>0, <1>13, <2>3 DEF RegisterKey, HomeOK
  <2> QED BY <2>1, <2>2, <2>4 DEF Installing
<1>14. CASE \/ RemoveSkills \/ RemoveEntry \/ RemoveKey \/ Report \/ Die
            \/ RemoveShim("unbash", "bash", "unps1") \/ RemoveShim("unps1", "ps1", "unmanifest")
  <2>1. step' \in {"unbash", "unps1", "unmanifest", "unkey", "uninstalled", "idle"}
    BY <1>14 DEF RemoveSkills, RemoveShim, RemoveEntry, RemoveKey, Report, Die, Go
  <2> QED BY <2>1 DEF Installing
<1>15. CASE (\E r \in Roots : Update(r)) \/ NewKey \/ EditManifest
  <2>1. step' = "idle"
    BY <1>15 DEF Update, NewKey, EditManifest, run
  <2> QED BY <2>1 DEF Installing
<1>16. CASE UNCHANGED installVars
  <2>1. UNCHANGED <<step, root, unseen, left, bridge, shim, manifest, known, key, release>>
    BY <1>16 DEF installVars, run, home, outside
  <2> QED BY <2>1 DEF Installing, Served, Link, Copied, Current
<1> QED
  BY <1>2, <1>4, <1>5, <1>6, <1>7, <1>8, <1>10, <1>11, <1>12, <1>13, <1>14, <1>15, <1>16
  DEF InstallNext

LEMMA UninstallingStep ==
  InstallTypeOK /\ Uninstalling /\ [InstallNext]_installVars => Uninstalling'
<1> SUFFICES ASSUME InstallTypeOK, Uninstalling, [InstallNext]_installVars
             PROVE  Uninstalling'
  OBVIOUS
<1>0. RunOK /\ HomeOK /\ OutsideOK
  BY DEF InstallTypeOK
<1>1. ASSUME UNCHANGED manifest,
             step' \notin {"unbash", "unps1", "unmanifest", "unkey"}
      PROVE  Uninstalling'
  BY <1>1 DEF Uninstalling
<1>2. CASE \/ KeepSkill \/ LinkSkill \/ BeginCopy \/ EndCopy \/ SkillsDone \/ RegisterKey
           \/ WriteShim("bash", "ps1") \/ WriteShim("ps1", "manifest")
           \/ \E r \in Roots : StartInstall(r) \/ StartUninstall(r) \/ Update(r)
           \/ RemoveKey \/ Report \/ Die \/ NewKey
  BY <1>1, <1>2 DEF KeepSkill, LinkSkill, BeginCopy, EndCopy, SkillsDone, RegisterKey, WriteShim,
     StartInstall, StartUninstall, StartRun, Update, RemoveKey, Report, Die, NewKey, Pass, Go,
     home, run
<1>3. CASE WriteManifest
  BY <1>3 DEF WriteManifest, Go, Uninstalling
<1>4. CASE RemoveSkills
  <2>1. step' = "unbash" /\ manifest' = manifest
    BY <1>4 DEF RemoveSkills, Go
  <2>2. bridge' \in [SkillIds -> UNION {Remains(s) : s \in SkillIds}]
    BY <1>4 DEF RemoveSkills, Removals
  <2>3. ~warned' => \A s \in SkillIds : bridge'[s] = Nothing
    BY <1>4 DEF RemoveSkills
  <2>4. ~warned' => bridge' = [s \in SkillIds |-> Nothing]
    BY <2>2, <2>3
  <2> QED BY <2>1, <2>4 DEF Uninstalling, Nothing
<1>5. CASE RemoveShim("unbash", "bash", "unps1")
  <2>1. /\ step = "unbash" /\ step' = "unps1" /\ UNCHANGED <<bridge, manifest>>
        /\ ~warned' => ~warned /\ shim' = [shim EXCEPT !["bash"] = NoRoot]
    BY <1>5 DEF RemoveShim, Go
  <2>2. ~warned' => shim'["bash"] = NoRoot
    BY <1>0, <2>1 DEF HomeOK
  <2> QED BY <2>1, <2>2 DEF Uninstalling, Nothing
<1>6. CASE RemoveShim("unps1", "ps1", "unmanifest")
  <2>1. /\ step = "unps1" /\ step' = "unmanifest" /\ UNCHANGED <<bridge, manifest>>
        /\ ~warned' => ~warned /\ shim' = [shim EXCEPT !["ps1"] = NoRoot]
    BY <1>6 DEF RemoveShim, Go
  <2>2. ~warned' => shim'["ps1"] = NoRoot /\ shim'["bash"] = shim["bash"]
    BY <1>0, <2>1 DEF HomeOK
  <2> QED BY <2>1, <2>2 DEF Uninstalling, Nothing
<1>7. CASE RemoveEntry
  <2>1. step = "unmanifest" /\ step' = "unkey" /\ UNCHANGED <<bridge, shim, warned>>
    BY <1>7 DEF RemoveEntry, Go
  <2>2. /\ manifest'.file = "none" => manifest'.ofs = NoManifest.ofs
        /\ manifest'.file = "broken" \/ manifest'.ofs = NoManifest.ofs
    BY <1>0, <1>7 DEF RemoveEntry, HomeOK, Manifests, NoManifest, Uninstalling
  <2> QED BY <2>1, <2>2 DEF Uninstalling, Nothing
<1>8. CASE EditManifest
  <2>1. step' = "idle" /\ manifest'.file # "none"
    BY <1>0, <1>8 DEF EditManifest, run, HomeOK, Manifests
  <2> QED BY <2>1 DEF Uninstalling
<1>9. CASE UNCHANGED installVars
  <2>1. UNCHANGED <<step, warned, bridge, shim, manifest>>
    BY <1>9 DEF installVars, run, home
  <2> QED BY <2>1 DEF Uninstalling, Nothing
<1> QED
  BY <1>2, <1>3, <1>4, <1>5, <1>6, <1>7, <1>8, <1>9 DEF InstallNext

(* The types of the installer's state and what each step has behind it.      *)
THEOREM InstallInvariant == InstallSpec => []InstallInv
<1>1. InstallInit => InstallInv
  BY InitInstall
<1>2. InstallInv /\ [InstallNext]_installVars => InstallInv'
  BY RunStep, HomeStep, OutsideStep, InstallingStep, UninstallingStep
  DEF InstallInv, InstallTypeOK
<1> QED BY <1>1, <1>2, PTL DEF InstallSpec

(* An install that reports a skill as linked or copied, a shim, the manifest *)
(* or the key has them in place when it ends (runInstall).                   *)
THEOREM InstallsWhatItReports == InstallSpec => []InstalledIsServed
<1>1. InstallInv => InstalledIsServed
  <2> SUFFICES ASSUME InstallInv, step = "installed" PROVE InstalledIsServed
    BY DEF InstalledIsServed
  <2>1. DOMAIN shim = {"bash", "ps1"}
    BY DEF InstallInv, InstallTypeOK, HomeOK
  <2> QED BY <2>1 DEF InstallInv, Installing, InstalledIsServed, Served
<1> QED BY <1>1, InstallInvariant, PTL

(* An uninstall without a warning leaves nothing, and no run loses entries   *)
(* of others from a manifest that can be read (runUninstall).                *)
THEOREM UninstallLeavesNothing == InstallSpec => UninstallReverses
<1> DEFINE Reverses ==
      /\ step' = "uninstalled" /\ ~warned' =>
           /\ bridge' = [s \in SkillIds |-> Nothing]
           /\ \A f \in DOMAIN shim : shim'[f] = NoRoot
           /\ manifest'.file = "broken" \/ manifest'.ofs = NoManifest.ofs
           /\ known'[root] = 0
      /\ manifest.file = "list" /\ manifest.others => manifest'.others
<1>1. ASSUME InstallInv, InstallNext PROVE Reverses
  <2>0. RunOK /\ HomeOK /\ OutsideOK /\ Uninstalling
    BY <1>1 DEF InstallInv, InstallTypeOK
  <2>1. ASSUME manifest.file = "list", manifest.others PROVE manifest'.others
    <3>1. CASE WriteManifest
      <4>1. manifest'.others = (manifest.file = "list" /\ manifest.others)
        BY <3>1 DEF WriteManifest
      <4> QED BY <2>1, <4>1
    <3>2. CASE RemoveEntry
      <4>1. manifest' = [manifest EXCEPT !.ofs = NoManifest.ofs]
        BY <2>1, <3>2 DEF RemoveEntry
      <4>2. manifest'.others = manifest.others
        BY <2>0, <4>1 DEF HomeOK, Manifests
      <4> QED BY <2>1, <4>2
    <3>3. CASE EditManifest
      <4>1. CASE manifest' = [manifest EXCEPT !.file = "list", !.others = TRUE]
        BY <2>0, <4>1 DEF HomeOK, Manifests
      <4>2. CASE manifest' = [manifest EXCEPT !.file = "broken"]
        <5>1. manifest'.others = manifest.others
          BY <2>0, <4>2 DEF HomeOK, Manifests
        <5> QED BY <2>1, <5>1
      <4> QED BY <3>3, <4>1, <4>2 DEF EditManifest
    <3>4. CASE UNCHANGED manifest
      BY <2>1, <3>4
    <3> QED
      BY <1>1, <3>1, <3>2, <3>3, <3>4
      DEF InstallNext, StartInstall, StartUninstall, StartRun, Update, KeepSkill, LinkSkill,
          BeginCopy, EndCopy, SkillsDone, Pass, WriteShim, RegisterKey, RemoveSkills, RemoveShim,
          RemoveKey, Report, Die, NewKey, home
  <2>2. ASSUME step' = "uninstalled", ~warned'
        PROVE  /\ bridge' = [s \in SkillIds |-> Nothing]
               /\ \A f \in DOMAIN shim : shim'[f] = NoRoot
               /\ manifest'.file = "broken" \/ manifest'.ofs = NoManifest.ofs
               /\ known'[root] = 0
    <3>1. RemoveKey
      BY <1>1, <2>2
      DEF InstallNext, StartInstall, StartUninstall, StartRun, Update, KeepSkill, LinkSkill,
          BeginCopy, EndCopy, SkillsDone, Pass, WriteShim, WriteManifest, RegisterKey,
          RemoveSkills, RemoveShim, RemoveEntry, Report, Die, NewKey, EditManifest, Go, run
    <3>2. step = "unkey" /\ ~warned /\ known' = [known EXCEPT ![root] = 0]
          /\ UNCHANGED <<bridge, shim, manifest>>
      BY <2>2, <3>1 DEF RemoveKey
    <3>3. known'[root] = 0
      BY <2>0, <3>2 DEF RunOK, HomeOK
    <3>4. DOMAIN shim = {"bash", "ps1"}
      BY <2>0 DEF HomeOK
    <3> QED BY <2>0, <3>2, <3>3, <3>4 DEF Uninstalling
  <2> QED BY <2>1, <2>2
<1>2. InstallInv /\ [InstallNext]_installVars => [Reverses]_installVars
  BY <1>1
<1> QED BY <1>2, InstallInvariant, PTL DEF InstallSpec, UninstallReverses

----------------------------------------------------------------------------
(***************************************************************************)
(* The mutation sweep, for any mutations, files, edits, sweeps and kills.   *)
(* What was saved says what a revert can take back; what differs from the   *)
(* tree that was found, while nothing has failed, is the operator's and is  *)
(* still there when the hash is taken.                                      *)
(***************************************************************************)

Content ==
  [edit : Nat, with : SUBSET (Mutations \cup {CutOff}), late : BOOLEAN]

Stages ==
  {"idle", "apply", "read", "write", "verify", "defend", "revert", "ended"}

Held == stage \in {"read", "write", "verify", "defend", "revert"}

\* The verdict on the mutation it is at may be there.
Seen == stage \in {"verify", "revert"}

SweepTypeOK ==
  /\ tree \in [SweepFiles -> Content] /\ baseline \in [SweepFiles -> Content]
  /\ saved \in [Mutations -> Content] /\ text \in Content
  /\ stage \in Stages
  /\ chosen \in Seq(Mutations) /\ index \in Nat \ {0}
  /\ Held => index <= Len(chosen)
  /\ escaped \subseteq Mutations /\ alone \subseteq Mutations
  /\ touched \subseteq Mutations /\ stuck \subseteq Mutations
  /\ clean \in BOOLEAN
  /\ edits \in Nat /\ sweeps \in Nat /\ kills \in Nat

\* A content the operator has left, and that is not the mark of an empty place.
Real(c) == c.edit <= edits /\ (c.late => c.edit > 0)

Saved(m) == saved[m] # NotSaved

\* What was saved belongs to the mutation the sweep is at, or to one that a
\* failed revert has left, and then to its file's history: of two contents of
\* a file, of which one is saved, the younger came late.
SavedInv ==
  /\ \A f \in SweepFiles : Real(tree[f]) /\ Real(baseline[f])
  /\ \A m \in Mutations : Saved(m) =>
       /\ Real(saved[m])
       /\ m \in stuck \/ (Held /\ m = Mutation)
       /\ tree[FileOf[m]].edit > saved[m].edit => tree[FileOf[m]].late
       /\ saved[m].edit > tree[FileOf[m]].edit => saved[m].late
       /\ \A n \in Mutations : Saved(n) /\ FileOf[n] = FileOf[m] =>
            (saved[n].edit > saved[m].edit => saved[n].late)

\* What the mutation has read is of that history too.
TextInv ==
  stage = "write" =>
    /\ Real(text)
    /\ tree[File].edit > text.edit => tree[File].late
    /\ \A m \in Mutations : Saved(m) /\ FileOf[m] = File =>
         /\ text.edit > saved[m].edit => text.late
         /\ saved[m].edit > text.edit => saved[m].late

\* What the file of f will be when the mutation it is at is reverted.
Before(f) == IF Held /\ f = File THEN saved[Mutation] ELSE tree[f]

Edited == \E f \in SweepFiles : Before(f).edit > baseline[f].edit

\* While nothing has failed, the tree is the one the sweep found, but for the
\* mutation it is at and for edits, which are there to stay.
FoundInv ==
  escaped = {} /\ clean /\ stuck = {} =>
    /\ stage # "defend"
    /\ stage \notin {"idle", "ended"} =>
         /\ Held => Saved(Mutation)
         /\ stage = "read" => tree[File] = saved[Mutation] \/ Mutation \in touched
         /\ stage = "write" => text = saved[Mutation] \/ Mutation \in touched
         /\ \A f \in SweepFiles :
              Before(f) = baseline[f] \/ Before(f).edit > baseline[f].edit
         /\ \A i \in DOMAIN chosen :
              (i < index \/ (Seen /\ i = index)) =>
                chosen[i] \in alone \cup touched \/ Edited
    /\ stage = "ended" =>
         /\ \A i \in DOMAIN chosen : chosen[i] \in alone \cup touched
         /\ \A f \in SweepFiles : tree[f].with \subseteq baseline[f].with

SweepInv == SweepTypeOK /\ SavedInv /\ TextInv /\ FoundInv
----------------------------------------------------------------------------
LEMMA WithFields ==
  ASSUME NEW c \in Content, NEW x \in Mutations \cup {CutOff}
  PROVE  /\ With(c, x) \in Content /\ With(c, x).edit = c.edit /\ With(c, x).late = c.late
         /\ With(c, x).with = c.with \cup {x}
BY DEF With, Content

LEMMA EmptyPlace ==
  /\ Pristine \in Content /\ Pristine.edit = 0 /\ Pristine.late = FALSE
  /\ NotSaved \in Content /\ NotSaved.edit = 0 /\ NotSaved.late = TRUE
BY DEF Pristine, NotSaved, Content

\* No content that somebody left is taken for an empty place.
LEMMA RealIsSaved ==
  ASSUME NEW c, Real(c)
  PROVE  c # NotSaved
BY EmptyPlace DEF Real

LEMMA AtMutation ==
  ASSUME SweepTypeOK, index <= Len(chosen)
  PROVE  /\ Mutation \in Mutations /\ File \in SweepFiles /\ File = FileOf[Mutation]
         /\ index \in DOMAIN chosen
<1>1. index \in 1 .. Len(chosen) /\ chosen \in Seq(Mutations)
  BY DEF SweepTypeOK
<1>2. Mutation \in Mutations /\ index \in DOMAIN chosen
  BY <1>1 DEF Mutation
<1> QED BY <1>2, SweepAssumption DEF File, Mutations

LEMMA SweepInitially == SweepInit => SweepInv
<1> SUFFICES ASSUME SweepInit PROVE SweepInv
  OBVIOUS
<1>1. SweepTypeOK
  BY EmptyPlace DEF SweepInit, SweepTypeOK, Stages, Held
<1>2. SavedInv
  BY EmptyPlace DEF SweepInit, SavedInv, Real, Saved
<1>3. FoundInv
  BY DEF SweepInit, FoundInv
<1> QED BY <1>1, <1>2, <1>3 DEF SweepInit, SweepInv, TextInv

\* Where a step leaves the tree: one file gets something in it, or nothing does.
Marked(x) == tree' = [tree EXCEPT ![File] = With(@, x)]

LEMMA MarkedTree ==
  ASSUME SweepTypeOK, index <= Len(chosen), NEW x \in Mutations \cup {CutOff},
         tree' = tree \/ Marked(x)
  PROVE  /\ tree' \in [SweepFiles -> Content]
         /\ \A f \in SweepFiles : tree'[f].edit = tree[f].edit /\ tree'[f].late = tree[f].late
         /\ \A f \in SweepFiles : f # File => tree'[f] = tree[f]
<1>1. File \in SweepFiles /\ tree \in [SweepFiles -> Content]
  BY AtMutation DEF SweepTypeOK
<1>2. With(tree[File], x) \in Content
  BY <1>1, WithFields
<1>3. \A f \in SweepFiles : tree'[f] = IF Marked(x) /\ f = File THEN With(tree[f], x) ELSE tree[f]
  BY <1>1 DEF Marked
<1> QED BY <1>1, <1>2, <1>3, WithFields DEF Marked

LEMMA SweepTypes == SweepTypeOK /\ [SweepNext]_sweepVars => SweepTypeOK'
<1> SUFFICES ASSUME SweepTypeOK, [SweepNext]_sweepVars PROVE SweepTypeOK'
  OBVIOUS
<1> USE DEF SweepTypeOK
<1>1. CASE StartSweep
  <2>1. PICK n \in 1 .. Len(SweepOrder) : \E place \in [1 .. n -> DOMAIN SweepOrder] :
          chosen' = [i \in 1 .. n |-> SweepOrder[place[i]]]
    BY <1>1 DEF StartSweep
  <2>2. PICK place \in [1 .. n -> DOMAIN SweepOrder] :
          chosen' = [i \in 1 .. n |-> SweepOrder[place[i]]]
    BY <2>1
  <2>3. n \in Nat /\ \A i \in 1 .. n : SweepOrder[place[i]] \in Mutations
    BY <2>2, SweepAssumption DEF Mutations
  <2>4. chosen' \in Seq(Mutations)
    BY <2>2, <2>3
  <2> QED BY <1>1, <2>4, EmptyPlace DEF StartSweep, Stages, Held
<1>2. CASE Save \/ Read \/ Write \/ ApplyThrows
  <2>1. /\ index <= Len(chosen) /\ Mutation \in Mutations /\ File \in SweepFiles
    BY <1>2, AtMutation DEF Save, Read, Write, ApplyThrows, Held
  <2>2. saved' \in [Mutations -> Content] /\ text' \in Content
    BY <1>2, <2>1 DEF Save, Read, Write, ApplyThrows
  <2>3. With(text, Mutation) \in Content
    BY <2>1, WithFields
  <2>4. tree' \in [SweepFiles -> Content]
    BY <1>2, <2>1, <2>3, MarkedTree DEF Save, Read, Write, ApplyThrows, Marked
  <2>5. escaped' \subseteq Mutations /\ alone' \subseteq Mutations /\ stage' \in Stages
    BY <1>2, <2>1 DEF Save, Read, Write, ApplyThrows, Stages
  <2>6. UNCHANGED <<baseline, chosen, index, clean, touched, stuck, edits, sweeps, kills>>
    BY <1>2 DEF Save, Read, Write, ApplyThrows
  <2> QED BY <2>1, <2>2, <2>4, <2>5, <2>6
<1>3. CASE VerifierEnds
  BY <1>3, AtMutation DEF VerifierEnds, Stages, Held
<1>4. CASE Defend \/ Revert
  <2>1. /\ index <= Len(chosen) /\ Mutation \in Mutations /\ File \in SweepFiles
    BY <1>4, AtMutation DEF Defend, Revert, Held
  <2>2. tree' \in [SweepFiles -> Content]
    <3>1. CASE Restore
      BY <2>1, <3>1 DEF Restore
    <3>2. CASE RestoreThrows
      BY <2>1, <3>2, MarkedTree DEF RestoreThrows, Marked
    <3> QED BY <1>4, <3>1, <3>2 DEF Defend, Revert
  <2>3. saved' \in [Mutations -> Content]
    BY <1>4, <2>1, EmptyPlace DEF Defend, Revert, Restore, RestoreThrows
  <2>4. stuck' \subseteq Mutations /\ clean' \in BOOLEAN
    BY <1>4, <2>1 DEF Defend, Revert
  <2>5. stage' \in Stages /\ index' \in Nat \ {0} /\ chosen' \in Seq(Mutations)
        /\ (Held' => index' <= Len(chosen'))
    BY <1>4, <2>1 DEF Defend, Revert, Stages, Held
  <2> QED BY <1>4, <2>2, <2>3, <2>4, <2>5 DEF Defend, Revert
<1>5. CASE EndSweep \/ ReturnSweep
  BY <1>5 DEF EndSweep, ReturnSweep, Stages, Held
<1>6. CASE KillSweep
  <2>1. tree' \in [SweepFiles -> Content]
    BY <1>6, MarkedTree DEF KillSweep, Marked, Held, SweepTypeOK
  <2> QED BY <1>6, <2>1, EmptyPlace DEF KillSweep, Stages, Held
<1>7. ASSUME NEW f \in SweepFiles, Edit(f) PROVE SweepTypeOK'
  <2>1. PICK W \in {{}, tree[f].with}, late \in BOOLEAN :
          tree' = [tree EXCEPT ![f] = [edit |-> edits + 1, with |-> W, late |-> late]]
    <3>1. (AtIt(f) \/ \E m \in stuck : FileOf[m] = f) \in BOOLEAN
      OBVIOUS
    <3> QED BY <1>7, <3>1 DEF Edit
  <2>2. [edit |-> edits + 1, with |-> W, late |-> late] \in Content
    BY <2>1 DEF Content
  <2>3. tree' \in [SweepFiles -> Content] /\ edits' \in Nat
    <3> DEFINE c == [edit |-> edits + 1, with |-> W, late |-> late]
    <3>1. tree' = [tree EXCEPT ![f] = c] /\ c \in Content
      BY <2>1, <2>2
    <3> HIDE DEF c
    <3>2. tree' \in [SweepFiles -> Content]
      BY <3>1
    <3> QED BY <1>7, <3>2 DEF Edit
  <2>4. UNCHANGED <<baseline, saved, text, stage, chosen, index, escaped, clean, stuck,
                    sweeps, kills>>
    BY <1>7 DEF Edit
  <2>5. alone' \subseteq Mutations /\ touched' \subseteq Mutations
    BY <1>7, AtMutation DEF Edit, AtIt, Held
  <2> QED BY <2>3, <2>4, <2>5 DEF Held
<1>8. CASE UNCHANGED sweepVars
  BY <1>8 DEF sweepVars, Held
<1> QED BY <1>1, <1>2, <1>3, <1>4, <1>5, <1>6, <1>7, <1>8 DEF SweepNext

LEMMA ContentFields ==
  ASSUME SweepTypeOK
  PROVE  /\ \A f \in SweepFiles : /\ tree[f].edit \in Nat /\ baseline[f].edit \in Nat
                                  /\ tree[f].late \in BOOLEAN
         /\ \A m \in Mutations : /\ saved[m].edit \in Nat /\ saved[m].late \in BOOLEAN
                                 /\ FileOf[m] \in SweepFiles
         /\ edits \in Nat
BY SweepAssumption DEF SweepTypeOK, Content

\* A step that neither edits nor restores keeps the history.
LEMMA HistoryKept ==
  ASSUME SweepTypeOK, SweepTypeOK', SavedInv,
         \A f \in SweepFiles : tree'[f].edit = tree[f].edit /\ tree'[f].late = tree[f].late,
         \A m \in Mutations : Saved(m)' =>
           /\ (Saved(m) /\ saved'[m] = saved[m]) \/ saved'[m] = tree[FileOf[m]]
           /\ m \in stuck' \/ (Held' /\ m = Mutation'),
         baseline' = baseline \/ baseline' = tree, edits' = edits
  PROVE  SavedInv'
<1>1. \A m \in Mutations : FileOf[m] \in SweepFiles
  BY SweepAssumption
<1>2. \A m \in Mutations : Saved(m)' =>
        saved'[m] = tree[FileOf[m]] \/ (Saved(m) /\ saved'[m] = saved[m])
  OBVIOUS
<1>3. \A f \in SweepFiles : Real(tree[f])' /\ Real(baseline[f])'
  BY DEF SavedInv, Real
<1>4. ASSUME NEW m \in Mutations, Saved(m)'
      PROVE  /\ Real(saved[m])'
             /\ tree'[FileOf[m]].edit > saved'[m].edit => tree'[FileOf[m]].late
             /\ saved'[m].edit > tree'[FileOf[m]].edit => saved'[m].late
  BY <1>1, <1>2, <1>4, ContentFields DEF SavedInv, Real
<1>5. ASSUME NEW m \in Mutations, NEW n \in Mutations, Saved(m)', Saved(n)',
             FileOf[n] = FileOf[m], saved'[n].edit > saved'[m].edit
      PROVE  saved'[n].late
  BY <1>1, <1>2, <1>5, ContentFields DEF SavedInv
<1> QED BY <1>3, <1>4, <1>5 DEF SavedInv

LEMMA SavedSteps == SweepTypeOK /\ SavedInv /\ TextInv /\ [SweepNext]_sweepVars => SavedInv'
<1> SUFFICES ASSUME SweepTypeOK, SavedInv, TextInv, [SweepNext]_sweepVars PROVE SavedInv'
  OBVIOUS
<1>0. SweepTypeOK' /\ \A m \in Mutations : FileOf[m] \in SweepFiles
  BY SweepTypes, SweepAssumption
<1>1. CASE StartSweep
  <2>1. tree' = tree /\ edits' = edits /\ baseline' = tree /\ ~Held
    BY <1>1 DEF StartSweep, Held
  <2>2. \A m \in Mutations : Saved(m)' => Saved(m) /\ saved'[m] = saved[m] /\ m \in stuck'
    BY <1>1, <2>1 DEF StartSweep, Saved, SavedInv
  <2> QED BY <1>0, <2>1, <2>2, HistoryKept
<1>2. CASE Save \/ Read \/ ApplyThrows
  <2>1. /\ index <= Len(chosen) /\ Mutation \in Mutations /\ File \in SweepFiles
        /\ File = FileOf[Mutation]
    BY <1>2, AtMutation DEF Save, Read, ApplyThrows, Held, SweepTypeOK
  <2>2. \A f \in SweepFiles : tree'[f].edit = tree[f].edit /\ tree'[f].late = tree[f].late
    BY <1>2, <2>1, MarkedTree DEF Save, Read, ApplyThrows, Marked
  <2>3. \A m \in Mutations : \/ saved'[m] = saved[m]
                             \/ m = Mutation /\ ~Saved(m) /\ saved'[m] = tree[FileOf[m]]
    BY <1>2, <2>1 DEF Save, Read, ApplyThrows, Saved, SweepTypeOK
  <2>4. Held' /\ Mutation' = Mutation /\ UNCHANGED <<baseline, stuck, edits>>
    BY <1>2 DEF Save, Read, ApplyThrows, Held, Mutation
  <2>5. \A m \in Mutations : Saved(m)' =>
          \/ Saved(m) /\ saved'[m] = saved[m]
          \/ m = Mutation /\ saved'[m] = tree[FileOf[m]]
    BY <2>3 DEF Saved
  <2>6. \A m \in Mutations : Saved(m)' => m \in stuck' \/ (Held' /\ m = Mutation')
    BY <2>4, <2>5 DEF SavedInv
  <2> QED BY <1>0, <2>2, <2>4, <2>5, <2>6, HistoryKept
<1>3. CASE VerifierEnds \/ EndSweep \/ ReturnSweep \/ UNCHANGED sweepVars
  <2>1. /\ UNCHANGED <<tree, baseline, saved, chosen, index, stuck, edits>>
        /\ Mutation' = Mutation /\ (Held => Held')
    BY <1>3 DEF VerifierEnds, EndSweep, ReturnSweep, sweepVars, Held, Mutation
  <2>2. \A m \in Mutations : Saved(m)' =>
          /\ Saved(m) /\ saved'[m] = saved[m]
          /\ m \in stuck' \/ (Held' /\ m = Mutation')
    BY <2>1 DEF Saved, SavedInv
  <2> QED BY <1>0, <2>1, <2>2, HistoryKept
<1>4. CASE (Defend \/ Revert) /\ Restore
  <2>1. /\ index <= Len(chosen) /\ Mutation \in Mutations /\ File \in SweepFiles
        /\ File = FileOf[Mutation]
    BY <1>4, AtMutation DEF Defend, Revert, Held, SweepTypeOK
  <2>2. UNCHANGED <<baseline, edits>> /\ stuck \subseteq stuck'
    BY <1>4 DEF Defend, Revert
  <2>3. \A m \in Mutations :
          saved'[m] = IF m = Mutation THEN NotSaved ELSE saved[m]
    BY <1>4, <2>1 DEF Restore, SweepTypeOK
  <2>4. \A m \in Mutations : Saved(m)' => Saved(m) /\ saved'[m] = saved[m] /\ m \in stuck'
    BY <2>2, <2>3 DEF Saved, SavedInv
  <2>5. \A f \in SweepFiles :
          tree'[f] = IF f = File /\ Saved(Mutation) THEN saved[Mutation] ELSE tree[f]
    BY <1>4, <2>1 DEF Restore, Saved, SweepTypeOK
  <2>6. \A f \in SweepFiles : Real(tree[f])' /\ Real(baseline[f])'
    BY <2>1, <2>2, <2>5 DEF SavedInv, Real
  <2>7. ASSUME NEW m \in Mutations, Saved(m)'
        PROVE  /\ tree'[FileOf[m]].edit > saved'[m].edit => tree'[FileOf[m]].late
               /\ saved'[m].edit > tree'[FileOf[m]].edit => saved'[m].late
    BY <1>0, <2>1, <2>4, <2>5, <2>7 DEF SavedInv
  <2>8. \A m \in Mutations : Saved(m)' =>
          /\ Real(saved[m])' /\ m \in stuck'
          /\ \A n \in Mutations : Saved(n)' /\ FileOf[n] = FileOf[m] =>
               (saved'[n].edit > saved'[m].edit => saved'[n].late)
    BY <2>2, <2>4 DEF SavedInv, Real
  <2> QED BY <2>6, <2>7, <2>8 DEF SavedInv
<1>5. CASE (Defend \/ Revert) /\ RestoreThrows /\ stuck' = stuck \cup {Mutation}
  <2>1. index <= Len(chosen)
    BY <1>5 DEF Defend, Revert, Held, SweepTypeOK
  <2>2. \A f \in SweepFiles : tree'[f].edit = tree[f].edit /\ tree'[f].late = tree[f].late
    BY <1>5, <2>1, MarkedTree DEF RestoreThrows, Marked
  <2>3. UNCHANGED <<saved, baseline, edits>> /\ stuck' = stuck \cup {Mutation}
    BY <1>5 DEF Defend, Revert, RestoreThrows
  <2> QED BY <1>0, <2>2, <2>3, HistoryKept DEF SavedInv, Saved
<1>6. CASE KillSweep
  <2>1. \A f \in SweepFiles : tree'[f].edit = tree[f].edit /\ tree'[f].late = tree[f].late
    BY <1>6, MarkedTree DEF KillSweep, Marked, Held, SweepTypeOK
  <2>2. \A m \in Mutations : ~Saved(m)'
    BY <1>6 DEF KillSweep, Saved
  <2> QED BY <1>0, <1>6, <2>1, <2>2, HistoryKept DEF KillSweep
<1>8. CASE Write
  <2>1. /\ index <= Len(chosen) /\ Mutation \in Mutations /\ File \in SweepFiles
        /\ Held /\ Held' /\ Mutation' = Mutation
        /\ UNCHANGED <<saved, baseline, stuck, edits>>
    BY <1>8, AtMutation DEF Write, Held, Mutation, SweepTypeOK
  <2>2. /\ tree'[File].edit = text.edit /\ tree'[File].late = text.late
        /\ \A f \in SweepFiles : f # File => tree'[f] = tree[f]
    <3>1. tree'[File] = With(text, Mutation)
      BY <1>8, <2>1 DEF Write, SweepTypeOK
    <3>2. \A f \in SweepFiles : f # File => tree'[f] = tree[f]
      BY <1>8, <2>1 DEF Write, SweepTypeOK
    <3> QED BY <2>1, <3>1, <3>2, WithFields DEF SweepTypeOK
  <2>3. /\ Real(text)
        /\ \A m \in Mutations : Saved(m) /\ FileOf[m] = File =>
             /\ text.edit > saved[m].edit => text.late
             /\ saved[m].edit > text.edit => saved[m].late
    BY <1>8 DEF Write, TextInv
  <2>4. \A f \in SweepFiles : Real(tree[f])' /\ Real(baseline[f])'
    BY <2>1, <2>2, <2>3 DEF SavedInv, Real
  <2>5. ASSUME NEW m \in Mutations, Saved(m)'
        PROVE  /\ Saved(m) /\ saved'[m] = saved[m]
               /\ tree'[FileOf[m]].edit > saved'[m].edit => tree'[FileOf[m]].late
               /\ saved'[m].edit > tree'[FileOf[m]].edit => saved'[m].late
    BY <1>0, <2>1, <2>2, <2>3, <2>5 DEF SavedInv, Saved
  <2>6. ASSUME NEW m \in Mutations, Saved(m)'
        PROVE  /\ Real(saved[m])' /\ (m \in stuck' \/ (Held' /\ m = Mutation'))
               /\ \A n \in Mutations : Saved(n)' /\ FileOf[n] = FileOf[m] =>
                    (saved'[n].edit > saved'[m].edit => saved'[n].late)
    BY <2>1, <2>5, <2>6 DEF SavedInv, Real, Saved
  <2> QED BY <2>4, <2>5, <2>6 DEF SavedInv
<1>7. ASSUME NEW f \in SweepFiles, Edit(f) PROVE SavedInv'
  <2>1. /\ UNCHANGED <<saved, baseline, stuck, stage, chosen, index>> /\ edits' = edits + 1
        /\ Held' = Held /\ Mutation' = Mutation /\ edits \in Nat
    BY <1>7 DEF Edit, Held, Mutation, SweepTypeOK
  <2>2. /\ tree'[f].edit = edits + 1
        /\ tree'[f].late = ((Held /\ f = File) \/ \E m \in stuck : FileOf[m] = f)
        /\ \A g \in SweepFiles : g # f => tree'[g] = tree[g]
    <3> DEFINE late == AtIt(f) \/ \E m \in stuck : FileOf[m] = f
    <3>1. PICK W : tree' = [tree EXCEPT ![f] = [edit |-> edits + 1, with |-> W,
                                                late |-> late]]
      BY <1>7 DEF Edit
    <3>2. late = ((Held /\ f = File) \/ \E m \in stuck : FileOf[m] = f)
      BY DEF Held, AtIt
    <3> HIDE DEF late
    <3>3. tree'[f] = [edit |-> edits + 1, with |-> W, late |-> late]
      BY <3>1 DEF SweepTypeOK
    <3>4. \A g \in SweepFiles : g # f => tree'[g] = tree[g]
      BY <3>1 DEF SweepTypeOK
    <3> QED BY <3>2, <3>3, <3>4
  <2>3. \A m \in Mutations : (Saved(m)' <=> Saved(m)) /\ saved'[m] = saved[m]
    BY <2>1 DEF Saved
  <2>4. \A g \in SweepFiles : Real(tree[g])' /\ Real(baseline[g])'
    <3>1. \A g \in SweepFiles : g # f => Real(tree[g])'
      BY <2>1, <2>2, ContentFields DEF SavedInv, Real
    <3>2. Real(tree[f])'
      BY <2>1, <2>2 DEF Real
    <3>3. \A g \in SweepFiles : Real(baseline[g])'
      BY <2>1, ContentFields DEF SavedInv, Real
    <3> QED BY <3>1, <3>2, <3>3
  <2>5. ASSUME NEW m \in Mutations, Saved(m)
        PROVE  /\ Real(saved[m])'
               /\ tree'[FileOf[m]].edit > saved'[m].edit => tree'[FileOf[m]].late
               /\ saved'[m].edit > tree'[FileOf[m]].edit => saved'[m].late
    <3>1. Real(saved[m]) /\ saved[m].edit \in Nat /\ saved'[m] = saved[m]
      BY <2>3, <2>5, ContentFields DEF SavedInv
    <3>2. Real(saved[m])'
      BY <2>1, <3>1 DEF Real
    <3>3. CASE FileOf[m] = f
      <4>1. tree'[f].late
        BY <2>2, <2>5, <3>3 DEF SavedInv, File
      <4>2. ~(saved'[m].edit > tree'[f].edit)
        BY <2>1, <2>2, <3>1 DEF Real
      <4> QED BY <3>2, <3>3, <4>1, <4>2
    <3>4. CASE FileOf[m] # f
      BY <1>0, <2>2, <2>5, <3>1, <3>2, <3>4 DEF SavedInv
    <3> QED BY <3>3, <3>4
  <2>6. ASSUME NEW m \in Mutations, Saved(m)
        PROVE  /\ m \in stuck' \/ (Held' /\ m = Mutation')
               /\ \A n \in Mutations : Saved(n)' /\ FileOf[n] = FileOf[m] =>
                    (saved'[n].edit > saved'[m].edit => saved'[n].late)
    BY <2>1, <2>3, <2>6 DEF SavedInv
  <2> QED BY <2>3, <2>4, <2>5, <2>6 DEF SavedInv
<1> QED BY <1>1, <1>2, <1>3, <1>4, <1>5, <1>6, <1>7, <1>8
        DEF SweepNext, Defend, Revert

\* What is read is the file as it is; then only an edit comes before the write.
LEMMA TextSteps == SweepTypeOK /\ SavedInv /\ TextInv /\ [SweepNext]_sweepVars => TextInv'
<1> SUFFICES ASSUME SweepTypeOK, SavedInv, TextInv, [SweepNext]_sweepVars, stage' = "write"
             PROVE  TextInv'
  BY DEF TextInv
<1> USE ContentFields
<1>1. CASE Read
  <2>1. /\ File' = File /\ File \in SweepFiles /\ text' = tree[File]
        /\ UNCHANGED <<tree, saved, edits>>
    BY <1>1, AtMutation DEF Read, File, Mutation, Held, SweepTypeOK
  <2> QED BY <2>1 DEF TextInv, SavedInv, Real, Saved
<1>2. ASSUME NEW f \in SweepFiles, Edit(f) PROVE TextInv'
  <2>1. /\ stage = "write" /\ File' = File /\ UNCHANGED <<text, saved>>
        /\ edits' = edits + 1
    BY <1>2 DEF Edit, File, Mutation
  <2>2. File \in SweepFiles
    BY <2>1, AtMutation DEF Held, SweepTypeOK
  <2>3. tree'[File] = tree[File] \/ tree'[File].late
    <3>1. f # File => tree'[File] = tree[File]
      BY <1>2, <2>2 DEF Edit, SweepTypeOK
    <3>2. f = File => tree'[File].late
      <4> DEFINE late == AtIt(f) \/ \E m \in stuck : FileOf[m] = f
      <4>1. PICK W : tree' = [tree EXCEPT ![f] = [edit |-> edits + 1, with |-> W,
                                                  late |-> late]]
        BY <1>2 DEF Edit
      <4>2. f = File => late
        BY <2>1 DEF AtIt
      <4> HIDE DEF late
      <4>3. tree'[f] = [edit |-> edits + 1, with |-> W, late |-> late]
        BY <4>1 DEF SweepTypeOK
      <4> QED BY <4>2, <4>3
    <3> QED BY <3>1, <3>2
  <2>4. Real(text)'
    BY <2>1 DEF TextInv, Real, SweepTypeOK, Content
  <2> QED BY <2>1, <2>2, <2>3, <2>4 DEF TextInv, Saved
<1>3. CASE UNCHANGED sweepVars
  BY <1>3 DEF sweepVars, TextInv, Real, Saved, File, Mutation
<1> QED BY <1>1, <1>2, <1>3 DEF SweepNext, StartSweep, Save, Write, ApplyThrows, VerifierEnds,
        Defend, Revert, EndSweep, ReturnSweep, KillSweep

\* While nothing has failed, what a step does not touch stays as it was found.
LEMMA FoundSteps ==
  SweepTypeOK /\ SavedInv /\ FoundInv /\ [SweepNext]_sweepVars => FoundInv'
<1> SUFFICES ASSUME SweepTypeOK, SavedInv, FoundInv, [SweepNext]_sweepVars,
                    escaped' = {}, clean', stuck' = {}
             PROVE  FoundInv'
  BY DEF FoundInv
<1> DEFINE Untouched ==
             \A f \in SweepFiles :
               Before(f) = baseline[f] \/ Before(f).edit > baseline[f].edit
           Passed(i) == i < index \/ (Seen /\ i = index)
           Verified == \A i \in DOMAIN chosen :
                         Passed(i) => chosen[i] \in alone \cup touched \/ Edited
           AsRead == /\ stage = "read" => tree[File] = saved[Mutation] \/ Mutation \in touched
                     /\ stage = "write" => text = saved[Mutation] \/ Mutation \in touched
<1>0. /\ SweepTypeOK' /\ chosen \in Seq(Mutations) /\ index \in Nat
      /\ DOMAIN chosen \subseteq Nat
  BY SweepTypes DEF SweepTypeOK
<1>1. CASE StartSweep
  <2>1. \A f \in SweepFiles : Before(f)' = baseline'[f]
    BY <1>1 DEF StartSweep, Before, Held
  <2>2. \A i \in DOMAIN chosen' : ~ Passed(i)'
    <3>1. DOMAIN chosen' \subseteq Nat \ {0} /\ index' = 1 /\ ~ Seen'
      BY <1>0, <1>1 DEF StartSweep, Seen, SweepTypeOK
    <3> QED BY <3>1
  <2> QED BY <1>1, <2>1, <2>2 DEF FoundInv, StartSweep, Held
<1>2. CASE Save
  <2>1. /\ index <= Len(chosen) /\ Mutation \in Mutations /\ File \in SweepFiles
        /\ File = FileOf[Mutation]
    BY <1>2, AtMutation DEF Save
  <2>2. /\ ~Held /\ Held' /\ ~Seen /\ ~Seen' /\ stage = "apply" /\ stage' = "read"
        /\ Mutation' = Mutation /\ File' = File
        /\ UNCHANGED <<tree, baseline, chosen, index, escaped, clean, stuck, alone, touched>>
    BY <1>2 DEF Save, Held, Seen, Mutation, File
  <2>3. ~Saved(Mutation) /\ saved'[Mutation] = tree[File]
    <3>1. ~Saved(Mutation)
      BY <2>1, <2>2 DEF SavedInv
    <3> QED BY <1>2, <2>1, <3>1 DEF Save, Saved, SweepTypeOK
  <2>4. Saved(Mutation)'
    BY <2>1, <2>2, <2>3, RealIsSaved DEF SavedInv, Saved
  <2>5. \A f \in SweepFiles : Before(f)' = tree[f] /\ Before(f) = tree[f]
    BY <2>1, <2>2, <2>3 DEF Before
  <2>6. Untouched /\ Verified
    BY <2>2 DEF FoundInv
  <2>7. Edited' <=> Edited
    BY <2>2, <2>5 DEF Edited
  <2> QED BY <2>2, <2>3, <2>4, <2>5, <2>6, <2>7 DEF FoundInv
<1>3. CASE Read
  <2>1. /\ Held /\ Held' /\ ~Seen /\ ~Seen' /\ stage = "read" /\ stage' = "write"
        /\ Mutation' = Mutation /\ File' = File /\ text' = tree[File]
        /\ UNCHANGED <<tree, baseline, saved, chosen, index, escaped, clean, stuck, alone,
                       touched>>
    BY <1>3 DEF Read, Held, Seen, Mutation, File
  <2>2. \A f : Before(f)' = Before(f)
    BY <2>1 DEF Before
  <2>3. Untouched /\ Verified /\ Saved(Mutation) /\ AsRead
    BY <2>1 DEF FoundInv
  <2>4. Saved(Mutation)' /\ (Edited' <=> Edited)
    BY <2>1, <2>2, <2>3 DEF Saved, Edited
  <2> QED BY <2>1, <2>2, <2>3, <2>4 DEF FoundInv
<1>4. CASE Write
  <2>1. /\ index <= Len(chosen) /\ Mutation \in Mutations /\ File \in SweepFiles
    BY <1>4, AtMutation DEF Write, Held, SweepTypeOK
  <2>2. /\ Held /\ Held' /\ ~Seen /\ stage = "write" /\ stage' = "verify"
        /\ Mutation' = Mutation /\ File' = File
        /\ UNCHANGED <<baseline, saved, chosen, index, escaped, clean, stuck, touched>>
        /\ alone \subseteq alone'
    BY <1>4 DEF Write, Held, Seen, Mutation, File
  <2>3. Untouched /\ Verified /\ Saved(Mutation) /\ AsRead
    BY <2>2 DEF FoundInv
  <2>4. \A f \in SweepFiles : Before(f)' = Before(f) /\ (f # File => Before(f) = tree[f])
    BY <1>4, <2>1, <2>2 DEF Before, Write, SweepTypeOK
  <2>5. Edited' <=> Edited
    BY <2>2, <2>4 DEF Edited
  <2>6. Mutation \in alone' \cup touched' \/ Edited'
    <3>1. CASE text = saved[Mutation] /\ \A f \in SweepFiles : Before(f) = baseline[f]
      <4>1. /\ \A f \in SweepFiles : f # File => tree[f] = baseline[f]
            /\ text = baseline[File]
        BY <2>1, <2>2, <2>4, <3>1 DEF Before
      <4>2. [tree EXCEPT ![File] = With(text, Mutation)]
              = [baseline EXCEPT ![File] = With(baseline[File], Mutation)]
        BY <2>1, <4>1 DEF SweepTypeOK
      <4> QED BY <1>4, <4>2 DEF Write
    <3>2. CASE Mutation \in touched
      BY <2>2, <3>2
    <3>3. CASE \E f \in SweepFiles : Before(f) # baseline[f]
      BY <2>3, <2>5, <3>3 DEF Edited
    <3> QED BY <2>2, <2>3, <3>1, <3>2, <3>3
  <2>7. ASSUME NEW i \in DOMAIN chosen, Passed(i)'
        PROVE  chosen[i] \in alone' \cup touched' \/ Edited'
    <3>1. CASE i < index
      BY <2>2, <2>3, <2>5, <3>1
    <3>2. CASE i = index
      BY <2>6, <3>2 DEF Mutation
    <3> QED BY <2>2, <2>7, <3>1, <3>2
  <2>8. Saved(Mutation)'
    BY <2>2, <2>3 DEF Saved
  <2> QED BY <2>2, <2>3, <2>4, <2>7, <2>8 DEF FoundInv
<1>5. CASE ApplyThrows
  BY <1>5 DEF ApplyThrows
<1>6. CASE VerifierEnds
  <2>1. /\ UNCHANGED <<tree, baseline, saved, chosen, index, clean, alone, touched, stuck>>
        /\ stage = "verify" /\ stage' = "revert" /\ Held /\ Held' /\ Seen /\ Seen'
        /\ escaped = {} /\ Mutation' = Mutation /\ File' = File
    BY <1>6 DEF VerifierEnds, Held, Seen, Mutation, File
  <2>2. \A f : Before(f)' = Before(f)
    BY <2>1 DEF Before
  <2>3. Untouched /\ Verified /\ Saved(Mutation)
    BY <2>1 DEF FoundInv
  <2> QED BY <2>1, <2>2, <2>3 DEF FoundInv, Edited, Saved
<1>7. CASE Defend
  BY <1>7 DEF Defend, FoundInv
<1>8. CASE Revert
  <2>1. /\ index <= Len(chosen) /\ Mutation \in Mutations /\ File \in SweepFiles
        /\ Held /\ ~Held' /\ Seen /\ ~Seen' /\ stage = "revert" /\ stage' = "apply"
        /\ index' = index + 1
        /\ UNCHANGED <<baseline, chosen, escaped, alone, touched>>
    BY <1>8, AtMutation DEF Revert, Held, Seen, SweepTypeOK
  <2>2. Restore /\ UNCHANGED <<clean, stuck>>
    BY <1>8, <2>1 DEF Revert
  <2>3. Untouched /\ Verified /\ Saved(Mutation)
    BY <2>1, <2>2 DEF FoundInv
  <2>4. \A f \in SweepFiles : Before(f)' = Before(f)
    BY <2>1, <2>2, <2>3 DEF Before, Restore, Saved, SweepTypeOK
  <2>5. Edited' <=> Edited
    BY <2>1, <2>4 DEF Edited
  <2>6. \A i \in DOMAIN chosen : Passed(i)' => Passed(i)
    BY <1>0, <2>1
  <2> QED BY <2>1, <2>3, <2>4, <2>5, <2>6 DEF FoundInv
<1>9. CASE EndSweep
  <2>1. /\ UNCHANGED <<tree, baseline, chosen, index, alone, touched>>
        /\ stage = "apply" /\ stage' = "ended" /\ ~Held /\ tree = baseline
        /\ index > Len(chosen) /\ escaped = {} /\ clean /\ stuck = {}
    BY <1>9 DEF EndSweep, Held
  <2>2. ~Edited
    BY <2>1, ContentFields DEF Edited, Before
  <2>3. Verified
    BY <2>1 DEF FoundInv
  <2>4. \A i \in DOMAIN chosen : i < index
    BY <1>0, <2>1
  <2>5. \A i \in DOMAIN chosen : chosen[i] \in alone \cup touched
    BY <2>2, <2>3, <2>4
  <2> QED BY <2>1, <2>5 DEF FoundInv
<1>10. CASE ReturnSweep \/ KillSweep
  BY <1>10 DEF ReturnSweep, KillSweep, FoundInv
<1>11. ASSUME NEW f \in SweepFiles, Edit(f) PROVE FoundInv'
  <2>1. /\ UNCHANGED <<baseline, saved, text, stage, chosen, index, escaped, clean, stuck>>
        /\ Held' = Held /\ Seen' = Seen /\ Mutation' = Mutation /\ File' = File
        /\ escaped = {} /\ clean /\ stuck = {}
        /\ touched \subseteq touched'
    BY <1>11 DEF Edit, Held, Seen, Mutation, File
  <2>2. PICK W \in {{}, tree[f].with} :
          /\ tree'[f].edit = edits + 1 /\ tree'[f].with = W
          /\ \A g \in SweepFiles : g # f => tree'[g] = tree[g]
    BY <1>11 DEF Edit, SweepTypeOK
  <2>3. edits + 1 > baseline[f].edit
    BY ContentFields DEF SavedInv, Real
  <2>4. \A g \in SweepFiles :
          \/ Before(g)' = Before(g)
          \/ g = f /\ Before(g)'.edit > baseline[g].edit
    BY <2>1, <2>2, <2>3 DEF Before
  <2>5. Edited => Edited'
    BY <2>1, <2>4 DEF Edited
  <2>6. CASE stage \notin {"idle", "ended"}
    <3>1. Untouched /\ Verified /\ AsRead /\ (Held => Saved(Mutation))
      BY <2>1, <2>6 DEF FoundInv
    <3>2. \A g \in SweepFiles :
            Before(g)' = baseline'[g] \/ Before(g)'.edit > baseline'[g].edit
      BY <2>1, <2>4, <3>1
    <3>3. AsRead'
      <4>1. CASE f = File /\ stage \in {"read", "write"}
        BY <1>11, <2>1, <4>1 DEF Edit, AtIt
      <4>2. CASE f # File
        BY <2>1, <2>2, <3>1, <4>2, AtMutation DEF Held, SweepTypeOK
      <4> QED BY <2>1, <4>1, <4>2
    <3>4. CASE stage = "verify"
      <4>1. Mutation \in touched' \/ Edited'
        <5>1. CASE f = File
          BY <1>11, <3>4, <5>1 DEF Edit, AtIt
        <5>2. CASE f # File
          BY <2>1, <2>2, <2>3, <5>2 DEF Edited, Before
        <5> QED BY <5>1, <5>2
      <4>2. alone' = alone \ {Mutation}
        BY <1>11, <3>4 DEF Edit
      <4>3. ASSUME NEW i \in DOMAIN chosen', Passed(i)'
            PROVE  chosen'[i] \in alone' \cup touched' \/ Edited'
        BY <2>1, <2>5, <3>1, <4>1, <4>2, <4>3
      <4>4. /\ (Held => Saved(Mutation))' /\ stage' \notin {"idle", "ended", "defend"}
        BY <2>1, <3>1, <3>4 DEF Saved
      <4> QED BY <2>1, <3>2, <3>3, <4>3, <4>4 DEF FoundInv
    <3>5. CASE stage # "verify"
      <4>1. alone' = alone
        BY <1>11, <3>5 DEF Edit
      <4>2. ASSUME NEW i \in DOMAIN chosen, Passed(i)
            PROVE  chosen[i] \in alone' \cup touched' \/ Edited'
        BY <2>1, <2>5, <3>1, <4>1, <4>2
      <4> QED BY <2>1, <2>6, <3>1, <3>2, <3>3, <4>2 DEF FoundInv, Saved
    <3> QED BY <3>4, <3>5
  <2>7. CASE stage = "ended"
    <3>1. \A g \in SweepFiles : tree'[g].with \subseteq tree[g].with
      BY <2>2
    <3>2. alone' = alone
      BY <1>11, <2>7 DEF Edit
    <3> QED BY <2>1, <2>7, <3>1, <3>2 DEF FoundInv
  <2> QED BY <2>1, <2>6, <2>7 DEF FoundInv
<1>12. CASE UNCHANGED sweepVars
  <2>1. /\ UNCHANGED <<tree, baseline, saved, text, stage, chosen, index, escaped, clean,
                       alone, touched, stuck>>
        /\ Held' = Held /\ Seen' = Seen /\ Mutation' = Mutation /\ File' = File
    BY <1>12 DEF sweepVars, Held, Seen, Mutation, File
  <2>2. \A f : Before(f)' = Before(f)
    BY <2>1 DEF Before
  <2> QED BY <2>1, <2>2 DEF FoundInv, Edited, Saved
<1> QED BY <1>1, <1>2, <1>3, <1>4, <1>5, <1>6, <1>7, <1>8, <1>9, <1>10, <1>11, <1>12
        DEF SweepNext

\* The invariant of the sweep.
THEOREM SweepInvariant == SweepSpec => []SweepInv
<1>1. SweepInv /\ [SweepNext]_sweepVars => SweepInv'
  BY SweepTypes, SavedSteps, TextSteps, FoundSteps DEF SweepInv
<1> QED BY <1>1, SweepInitially, PTL DEF SweepSpec

\* A sweep that returns ok has verified every mutation in the tree it found and
\* nothing else, but for one whose own file the operator edited under it, and
\* leaves none there (mutation-runner.js:157-233).
THEOREM OkSweepsAreEarned == SweepSpec => []OkIsEarned
<1>1. SweepInv => OkIsEarned
  BY DEF SweepInv, FoundInv, OkIsEarned
<1> QED BY <1>1, SweepInvariant, PTL

\* A revert takes back an edit of the operator only if the edit came late: while
\* the sweep was at a mutation of the file, or after a revert failed in the same
\* process (mutation-runner.js:183, mutations.js).
THEOREM EditsOutliveSweeps == SweepSpec => EditsSurvive
<1>1. SweepInv /\ [SweepNext]_sweepVars =>
        [\A f \in SweepFiles : tree'[f].edit < tree[f].edit => tree[f].late]_sweepVars
  <2> SUFFICES ASSUME SweepTypeOK, SavedInv, TextInv, SweepNext, NEW f \in SweepFiles,
                      tree'[f].edit < tree[f].edit
               PROVE  tree[f].late
    BY DEF SweepInv
  <2> USE ContentFields
  <2>1. CASE Write
    <3>1. File \in SweepFiles /\ Mutation \in Mutations /\ text \in Content
      BY <2>1, AtMutation DEF Write, Held, SweepTypeOK
    <3>2. tree'[f] = IF f = File THEN With(text, Mutation) ELSE tree[f]
      BY <2>1, <3>1 DEF Write, SweepTypeOK
    <3>3. f = File /\ tree[File].edit > text.edit
      BY <3>1, <3>2, WithFields DEF Content
    <3> QED BY <2>1, <3>3 DEF Write, TextInv
  <2>2. CASE (Defend \/ Revert) /\ Restore
    <3>1. Mutation \in Mutations /\ File = FileOf[Mutation]
      BY <2>2, AtMutation DEF Defend, Revert, Held, SweepTypeOK
    <3>2. f = File /\ Saved(Mutation) /\ tree'[f] = saved[Mutation]
      BY <2>2, <3>1 DEF Restore, Saved, SweepTypeOK
    <3> QED BY <3>1, <3>2 DEF SavedInv
  <2>3. CASE (Defend \/ Revert) /\ RestoreThrows
    BY <2>3, MarkedTree DEF Defend, Revert, Held, RestoreThrows, Marked, SweepTypeOK
  <2>4. CASE KillSweep \/ ApplyThrows
    BY <2>4, MarkedTree DEF KillSweep, ApplyThrows, Held, Marked, SweepTypeOK
  <2>5. ASSUME NEW g \in SweepFiles, Edit(g) PROVE FALSE
    <3>1. tree'[f].edit = edits + 1 \/ tree'[f] = tree[f]
      BY <2>5 DEF Edit, SweepTypeOK
    <3> QED BY <3>1 DEF SavedInv, Real
  <2>6. CASE StartSweep \/ Save \/ Read \/ VerifierEnds \/ EndSweep \/ ReturnSweep
    BY <2>6 DEF StartSweep, Save, Read, VerifierEnds, EndSweep, ReturnSweep
  <2> QED BY <2>1, <2>2, <2>3, <2>4, <2>5, <2>6 DEF SweepNext, Defend, Revert
<1> QED BY <1>1, SweepInvariant, PTL DEF SweepSpec, EditsSurvive
-----------------------------------------------------------------------------
(* Natural numbers: induction over a set, which needs no operator.           *)

LEMMA LeastNatural ==
  ASSUME NEW T \in SUBSET Nat, T # {}
  PROVE  \E x \in T : \A y \in T : x <= y
<1>1. PICK x \in T : \A y \in T : ~ (<<y, x>> \in OpToRel(<, Nat))
  BY WFMin, NatLessThanWellFounded
<1>2. ASSUME NEW y \in T PROVE x <= y
  <2>1. ~ (<<y, x>> \in OpToRel(<, Nat))
    BY <1>1
  <2>2. ~ (y < x)
    BY <2>1 DEF OpToRel
  <2> QED BY <2>2
<1> QED BY <1>2

LEMMA SetInduction ==
  ASSUME NEW S, 0 \in S, \A n \in Nat : n \in S => n + 1 \in S
  PROVE  Nat \subseteq S
<1> SUFFICES ASSUME Nat \ S # {} PROVE FALSE
  OBVIOUS
<1>1. PICK m \in Nat \ S : \A y \in Nat \ S : m <= y
  BY LeastNatural
<1>2. m - 1 \in Nat /\ m - 1 \in S
  BY <1>1
<1> QED BY <1>1, <1>2

(***************************************************************************)
(* The service clock.  The history is the set of units that some window     *)
(* covers; the spans cover the same units; and after each span the loop     *)
(* holds, in its total, how many of the units covered so far come before    *)
(* the current span, which covers the rest of them.                         *)
(***************************************************************************)
Windows == [from : Nat, to : Nat]

Covers(w, u) == w.from <= u /\ (w.to = NoEnd \/ u < w.to)

ClockInv ==
  /\ clock \in Nat /\ Opened <= clock
  /\ windows \in Seq(Windows)
  /\ \A i \in DOMAIN windows : Opened <= windows[i].from /\ windows[i].from <= clock
  /\ \A i, j \in Openings : i = j
  /\ paused = {u \in Opened .. clock - 1 : \E i \in DOMAIN windows : Covers(windows[i], u)}

LEMMA WindowFields ==
  ASSUME NEW w \in Windows, NEW c \in Nat
  PROVE  /\ w.from \in Nat /\ w.to \in Nat
         /\ [w EXCEPT !.to = c] = [from |-> w.from, to |-> c]
         /\ [from |-> w.from, to |-> c] \in Windows
BY DEF Windows

LEMMA ClockStart == ClockInit => ClockInv
BY DEF ClockInit, ClockInv, Opened, Openings

LEMMA PauseStep ==
  ASSUME ClockInv, NEW until \in NoEnd .. MaxClock, Pause(until)
  PROVE  ClockInv'
<1> DEFINE w == [from |-> clock, to |-> until]
<1>1. /\ w \in Windows /\ windows' = Append(windows, w) /\ windows \in Seq(Windows)
      /\ clock \in Nat /\ UNCHANGED <<clock, paused>>
  BY ClockAssumption DEF ClockInv, Pause, Windows, NoEnd
<1>2. /\ windows' \in Seq(Windows) /\ DOMAIN windows' = DOMAIN windows \cup {Len(windows) + 1}
      /\ windows'[Len(windows) + 1] = w
      /\ \A i \in DOMAIN windows : windows'[i] = windows[i]
      /\ Len(windows) + 1 \notin DOMAIN windows
  BY <1>1
<1>3. \A i, j \in Openings' : i = j
  BY <1>2 DEF Pause, Openings
<1>4. \A i \in DOMAIN windows' : Opened <= windows'[i].from /\ windows'[i].from <= clock'
  BY <1>1, <1>2 DEF ClockInv
<1>5. \A u \in Opened .. clock - 1 :
        (\E i \in DOMAIN windows' : Covers(windows'[i], u))
          <=> (\E i \in DOMAIN windows : Covers(windows[i], u))
  BY <1>1, <1>2 DEF Covers, Opened
<1> QED BY <1>1, <1>2, <1>3, <1>4, <1>5 DEF ClockInv

LEMMA ResumeStep ==
  ASSUME ClockInv, Resume
  PROVE  ClockInv'
<1>1. PICK m \in Openings : m = Max(Openings)
  <2>1. PICK m \in Openings : \A j \in Openings : j = m
    BY DEF ClockInv, Resume
  <2>2. m \in Nat /\ \A y \in Openings : m >= y
    BY <2>1 DEF Openings, ClockInv
  <2>3. Max(Openings) \in Openings
    BY <2>2 DEF Max
  <2> QED BY <2>3
<1>2. /\ m \in DOMAIN windows /\ windows[m].to = NoEnd
      /\ windows \in Seq(Windows) /\ clock \in Nat
      /\ windows' = [windows EXCEPT ![m].to = clock]
      /\ UNCHANGED <<clock, paused>>
  BY <1>1 DEF ClockInv, Resume, Openings
<1>3. /\ windows[m] \in Windows
      /\ [windows[m] EXCEPT !.to = clock] = [from |-> windows[m].from, to |-> clock]
      /\ [from |-> windows[m].from, to |-> clock] \in Windows
  BY <1>2, WindowFields
<1>4. /\ windows' \in Seq(Windows)
      /\ DOMAIN windows' = DOMAIN windows
      /\ windows'[m] = [from |-> windows[m].from, to |-> clock]
      /\ \A i \in DOMAIN windows : i # m => windows'[i] = windows[i]
  <2>1. windows' = [windows EXCEPT ![m] = [from |-> windows[m].from, to |-> clock]]
    BY <1>2, <1>3
  <2> QED BY <1>2, <1>3, <2>1
<1>5. Openings' \subseteq Openings
  BY <1>2, <1>4 DEF Openings, NoEnd, ClockInv, Opened
<1>6. \A i \in DOMAIN windows' : Opened <= windows'[i].from /\ windows'[i].from <= clock'
  BY <1>2, <1>4 DEF ClockInv
<1>7. \A u \in Opened .. clock - 1 :
        (\E i \in DOMAIN windows' : Covers(windows'[i], u))
          <=> (\E i \in DOMAIN windows : Covers(windows[i], u))
  <2> TAKE u \in Opened .. clock - 1
  <2>1. \A i \in DOMAIN windows : i # m => (Covers(windows'[i], u) <=> Covers(windows[i], u))
    BY <1>4
  <2>2. u < clock
    BY <1>2 DEF Opened
  <2>3. Covers(windows'[m], u) <=> Covers(windows[m], u)
    BY <1>2, <1>4, <2>2 DEF Covers
  <2> QED BY <1>2, <1>4, <2>1, <2>3
<1> QED BY <1>2, <1>4, <1>5, <1>6, <1>7 DEF ClockInv

LEMMA TickStep ==
  ASSUME ClockInv, Tick
  PROVE  ClockInv'
<1>1. /\ clock \in Nat /\ Opened <= clock /\ clock' = clock + 1 /\ windows' = windows
      /\ windows \in Seq(Windows)
  BY DEF ClockInv, Tick
<1>2. \A i \in DOMAIN windows :
        windows[i].from \in Nat /\ windows[i].to \in Nat /\ windows[i].from <= clock
  <2> TAKE i \in DOMAIN windows
  <2>1. windows[i] \in Windows /\ 0 \in Nat
    BY <1>1
  <2> QED BY <2>1, WindowFields DEF ClockInv
<1>3. (\E i \in DOMAIN windows : windows[i].to = NoEnd \/ clock < windows[i].to)
        <=> (\E i \in DOMAIN windows : Covers(windows[i], clock))
  BY <1>2 DEF Covers
<1>4. Opened .. clock' - 1 = (Opened .. clock - 1) \cup {clock}
  BY <1>1 DEF Opened
<1>5. paused' = {u \in Opened .. clock' - 1 : \E i \in DOMAIN windows' : Covers(windows'[i], u)}
  <2>1. paused = {u \in Opened .. clock - 1 : \E i \in DOMAIN windows : Covers(windows[i], u)}
    BY DEF ClockInv
  <2>2. paused' = IF \E i \in DOMAIN windows : Covers(windows[i], clock)
                  THEN paused \cup {clock} ELSE paused
    BY <1>3 DEF Tick
  <2> QED BY <1>1, <1>4, <2>1, <2>2
<1>6. \A i, j \in Openings' : i = j
  BY <1>1 DEF ClockInv, Openings
<1>7. clock' \in Nat /\ Opened <= clock' /\ windows' \in Seq(Windows)
  BY <1>1 DEF Opened
<1>8. \A i \in DOMAIN windows' : Opened <= windows'[i].from /\ windows'[i].from <= clock'
  BY <1>1, <1>2 DEF ClockInv
<1> QED BY <1>5, <1>6, <1>7, <1>8 DEF ClockInv

LEMMA ClockSteps == ClockInv /\ [ClockNext]_slaVars => ClockInv'
<1> SUFFICES ASSUME ClockInv, [ClockNext]_slaVars PROVE ClockInv'
  OBVIOUS
<1>1. CASE CloseTicket \/ ReopenTicket \/ UNCHANGED slaVars
  BY <1>1 DEF CloseTicket, ReopenTicket, slaVars, ClockInv, Openings
<1> QED BY <1>1, PauseStep, ResumeStep, TickStep DEF ClockNext
-----------------------------------------------------------------------------
(* The sort.                                                                 *)

LEMMA LastingFacts ==
  ASSUME ClockInv, NEW t \in Opened .. clock
  PROVE  /\ t \in Nat /\ Lasting(t) \subseteq DOMAIN windows
         /\ DOMAIN windows \subseteq Nat
         /\ IsFiniteSet(Lasting(t)) /\ Cardinality(Lasting(t)) \in Nat
         /\ \A i \in DOMAIN windows : windows[i].from \in Nat /\ windows[i].to \in Nat
<1>1. t \in Nat
  BY DEF ClockInv, Opened
<1>2. windows \in Seq(Windows) /\ DOMAIN windows = 1 .. Len(windows) /\ Len(windows) \in Nat
  BY DEF ClockInv
<1>3. Lasting(t) \subseteq DOMAIN windows
  BY DEF Lasting
<1>4. IsFiniteSet(DOMAIN windows)
  BY <1>2, FS_Interval
<1>5. IsFiniteSet(Lasting(t)) /\ Cardinality(Lasting(t)) \in Nat
  BY <1>3, <1>4, FS_Subset, FS_CardinalityType
<1>6. \A i \in DOMAIN windows : windows[i].from \in Nat /\ windows[i].to \in Nat
  <2> TAKE i \in DOMAIN windows
  <2>1. windows[i] \in Windows /\ 0 \in Nat
    BY <1>2
  <2> QED BY <2>1, WindowFields
<1> QED BY <1>1, <1>2, <1>3, <1>5, <1>6

\* One window is earlier than another for all that begin at the same time.
LEMMA EarlierOrders ==
  ASSUME ClockInv, NEW t \in Opened .. clock
  PROVE  /\ \A i \in Lasting(t) : ~Earlier(i, i)
         /\ \A i, j \in Lasting(t) : i # j => Earlier(i, j) \/ Earlier(j, i)
         /\ \A i, j, k \in Lasting(t) : Earlier(i, j) /\ Earlier(j, k) => Earlier(i, k)
BY LastingFacts DEF Earlier

LEMMA OrderExists ==
  ASSUME ClockInv, NEW t \in Opened .. clock
  PROVE  \E order \in [1 .. Cardinality(Lasting(t)) -> Lasting(t)] :
           \A k, l \in DOMAIN order : k < l => Earlier(order[k], order[l])
<1> DEFINE S == Lasting(t)
           n == Cardinality(S)
           Ahead(i) == {j \in S : Earlier(j, i)}
           rank == [i \in S |-> Cardinality(Ahead(i)) + 1]
<1>1. IsFiniteSet(S) /\ n \in Nat
  BY LastingFacts
<1>2. \A i \in S : IsFiniteSet(Ahead(i)) /\ Cardinality(Ahead(i)) \in Nat
  BY <1>1, FS_Subset, FS_CardinalityType
<1>3. ASSUME NEW i \in S PROVE Cardinality(Ahead(i)) < n
  <2>1. Ahead(i) \subseteq S /\ i \notin Ahead(i)
    BY EarlierOrders
  <2>2. Cardinality(Ahead(i)) <= n /\ Cardinality(Ahead(i)) # n
    BY <1>1, <1>3, <2>1, FS_Subset
  <2> QED BY <1>1, <1>2, <2>2
<1>4. ASSUME NEW i \in S, NEW j \in S, Earlier(i, j)
      PROVE  Cardinality(Ahead(i)) < Cardinality(Ahead(j))
  <2>1. Ahead(i) \subseteq Ahead(j) /\ i \in Ahead(j) /\ i \notin Ahead(i)
    BY <1>4, EarlierOrders
  <2>2. /\ Cardinality(Ahead(i)) <= Cardinality(Ahead(j))
        /\ Cardinality(Ahead(i)) # Cardinality(Ahead(j))
    BY <1>2, <2>1, FS_Subset
  <2> QED BY <1>2, <2>2
<1>5. rank \in [S -> 1 .. n]
  BY <1>1, <1>2, <1>3
<1>6. ASSUME NEW i \in S, NEW j \in S, rank[i] = rank[j] PROVE i = j
  <2>1. Cardinality(Ahead(i)) = Cardinality(Ahead(j))
    <3>1. rank[i] = Cardinality(Ahead(i)) + 1 /\ rank[j] = Cardinality(Ahead(j)) + 1
      OBVIOUS
    <3>2. Cardinality(Ahead(i)) \in Nat /\ Cardinality(Ahead(j)) \in Nat
      BY <1>2
    <3>3. rank[i] = rank[j]
      BY <1>6
    <3> HIDE DEF rank, Ahead
    <3> QED BY <3>1, <3>2, <3>3
  <2>2. ~Earlier(i, j) /\ ~Earlier(j, i)
    <3> HIDE DEF Ahead
    <3> QED BY <1>2, <1>4, <2>1
  <2> QED BY <2>2, EarlierOrders
<1>7. rank \in Injection(S, 1 .. n)
  <2> HIDE DEF rank, n, S
  <2> QED BY <1>5, <1>6 DEF Injection, IsInjective
<1>8. \A k \in 1 .. n : \E i \in S : rank[i] = k
  <2>1. IsFiniteSet(1 .. n) /\ Cardinality(1 .. n) = n
    BY <1>1, FS_Interval
  <2>2. rank \in Surjection(S, 1 .. n)
    BY <1>7, <2>1, FS_Injection
  <2> QED BY <2>2 DEF Surjection
<1> DEFINE order == [k \in 1 .. n |-> CHOOSE i \in S : rank[i] = k]
<1>9. \A k \in 1 .. n : order[k] \in S /\ rank[order[k]] = k
  BY <1>8
<1>10. order \in [1 .. n -> S]
  BY <1>9
<1>11. \A k, l \in 1 .. n : k < l => Earlier(order[k], order[l])
  <2> TAKE k, l \in 1 .. n
  <2> HAVE k < l
  <2>1. order[k] \in S /\ order[l] \in S /\ rank[order[k]] = k /\ rank[order[l]] = l
    BY <1>9
  <2>2. order[k] # order[l]
    <3> HIDE DEF order, rank
    <3> QED BY <2>1
  <2>3. ~Earlier(order[l], order[k])
    <3> HIDE DEF order
    <3> SUFFICES ASSUME Earlier(order[l], order[k]) PROVE FALSE
      OBVIOUS
    <3>1. Cardinality(Ahead(order[l])) < Cardinality(Ahead(order[k]))
      BY <1>4, <2>1
    <3>2. /\ Cardinality(Ahead(order[l])) \in Nat /\ Cardinality(Ahead(order[k])) \in Nat
          /\ rank[order[l]] = Cardinality(Ahead(order[l])) + 1
          /\ rank[order[k]] = Cardinality(Ahead(order[k])) + 1
      BY <1>2, <2>1
    <3> HIDE DEF rank, Ahead
    <3> QED BY <2>1, <3>1, <3>2
  <2> QED BY <2>1, <2>2, <2>3, EarlierOrders
<1> QED BY <1>10, <1>11

LEMMA SortedFacts ==
  ASSUME ClockInv, NEW t \in Opened .. clock
  PROVE  /\ Sorted(t) \in [1 .. Cardinality(Lasting(t)) -> Lasting(t)]
         /\ \A k, l \in DOMAIN Sorted(t) : k < l => Earlier(Sorted(t)[k], Sorted(t)[l])
         /\ \A i \in Lasting(t) : \E k \in DOMAIN Sorted(t) : Sorted(t)[k] = i
<1> DEFINE S == Lasting(t)
           n == Cardinality(S)
<1>1. /\ Sorted(t) \in [1 .. n -> S]
      /\ \A k, l \in DOMAIN Sorted(t) : k < l => Earlier(Sorted(t)[k], Sorted(t)[l])
  BY OrderExists DEF Sorted
<1>2. n \in Nat /\ IsFiniteSet(S)
  BY LastingFacts
<1>3. \A k, l \in 1 .. n : Sorted(t)[k] = Sorted(t)[l] => k = l
  BY <1>1, <1>2, EarlierOrders
<1>4. Sorted(t) \in Surjection(1 .. n, S)
  <2>1. Sorted(t) \in Injection(1 .. n, S)
    <3> HIDE DEF n, S
    <3> QED BY <1>1, <1>3 DEF Injection, IsInjective
  <2>2. Cardinality(1 .. n) = n
    BY <1>2, FS_Interval
  <2> QED BY <1>2, <2>1, <2>2, FS_Injection
<1> QED BY <1>1, <1>4 DEF Surjection
-----------------------------------------------------------------------------
(* The spans, which cover what the windows cover up to t.                    *)

Within(s, u) == s.from <= u /\ u < s.to

LEMMA LeastOfTwo ==
  ASSUME NEW a \in Nat, NEW b \in Nat
  PROVE  /\ Min({a, b}) = IF a <= b THEN a ELSE b
         /\ Max({a, b}) = IF a <= b THEN b ELSE a
<1>1. \E x \in {a, b} : \A y \in {a, b} : x <= y
  OBVIOUS
<1>2. \E x \in {a, b} : \A y \in {a, b} : x >= y
  OBVIOUS
<1>3. Min({a, b}) \in {a, b} /\ \A y \in {a, b} : Min({a, b}) <= y
  BY <1>1 DEF Min
<1>4. Max({a, b}) \in {a, b} /\ \A y \in {a, b} : Max({a, b}) >= y
  BY <1>2 DEF Max
<1> QED BY <1>3, <1>4

LEMMA SpanFacts ==
  ASSUME ClockInv, NEW t \in Opened .. clock
  PROVE  /\ Spans(t) \in Seq(Windows)
         /\ \A k, l \in DOMAIN Spans(t) : k < l => Spans(t)[k].from <= Spans(t)[l].from
         /\ \A u \in Nat : (\E k \in DOMAIN Spans(t) : Within(Spans(t)[k], u))
                             <=> (u \in paused /\ u < t)
<1> DEFINE n == Cardinality(Lasting(t))
           Span(i) == [from |-> windows[i].from, to |-> Min({End(i, t), t})]
<1>1. /\ n \in Nat /\ t \in Nat /\ Lasting(t) \subseteq DOMAIN windows
      /\ DOMAIN windows \subseteq Nat
      /\ \A i \in DOMAIN windows : windows[i].from \in Nat /\ windows[i].to \in Nat
  BY LastingFacts
<1>2. /\ Sorted(t) \in [1 .. n -> Lasting(t)]
      /\ \A k, l \in 1 .. n : k < l => Earlier(Sorted(t)[k], Sorted(t)[l])
      /\ \A i \in Lasting(t) : \E k \in 1 .. n : Sorted(t)[k] = i
  <2> HIDE DEF n
  <2> QED BY SortedFacts DEF n
<1>3. Spans(t) = [k \in 1 .. n |-> Span(Sorted(t)[k])]
  BY <1>2 DEF Spans
<1>4. ASSUME NEW i \in Lasting(t)
      PROVE  /\ End(i, t) \in Nat /\ Span(i) \in Windows
             /\ Span(i).from = windows[i].from
             /\ \A u \in Nat : u < Span(i).to <=> u < End(i, t) /\ u < t
  <2>1. End(i, t) \in Nat
    BY <1>1 DEF End
  <2>2. Min({End(i, t), t}) = IF End(i, t) <= t THEN End(i, t) ELSE t
    BY <1>1, <2>1, LeastOfTwo
  <2>3. windows[i].from \in Nat /\ Min({End(i, t), t}) \in Nat
    BY <1>1, <2>1, <2>2
  <2> QED BY <1>1, <2>1, <2>2, <2>3 DEF Windows
<1> HIDE DEF n, Span
<1>5. \A k \in 1 .. n : Spans(t)[k] = Span(Sorted(t)[k]) /\ Sorted(t)[k] \in Lasting(t)
  BY <1>2, <1>3
<1>6. Spans(t) \in Seq(Windows) /\ DOMAIN Spans(t) = 1 .. n
  BY <1>1, <1>3, <1>4, <1>5
<1>7. \A k, l \in 1 .. n : k < l => Spans(t)[k].from <= Spans(t)[l].from
  <2> TAKE k, l \in 1 .. n
  <2> HAVE k < l
  <2>1. Earlier(Sorted(t)[k], Sorted(t)[l])
    BY <1>2
  <2>2. /\ Sorted(t)[k] \in Lasting(t) /\ Sorted(t)[l] \in Lasting(t)
        /\ Spans(t)[k] = Span(Sorted(t)[k]) /\ Spans(t)[l] = Span(Sorted(t)[l])
    BY <1>5
  <2>3. /\ Spans(t)[k].from = windows[Sorted(t)[k]].from
        /\ Spans(t)[l].from = windows[Sorted(t)[l]].from
    BY <1>4, <2>2
  <2> QED BY <1>1, <2>1, <2>2, <2>3 DEF Earlier
<1>8. ASSUME NEW u \in Nat
      PROVE  (\E k \in 1 .. n : Within(Spans(t)[k], u)) <=> (u \in paused /\ u < t)
  <2>1. (\E k \in 1 .. n : Within(Spans(t)[k], u))
          <=> (\E i \in Lasting(t) : Within(Span(i), u))
    BY <1>2, <1>5
  <2>2. \A i \in Lasting(t) : Within(Span(i), u)
          <=> (windows[i].from <= u /\ u < End(i, t) /\ u < t)
    BY <1>4 DEF Within
  <2>3. ASSUME u < t, NEW i \in DOMAIN windows
        PROVE  Covers(windows[i], u)
                 <=> (i \in Lasting(t) /\ windows[i].from <= u /\ u < End(i, t))
    BY <1>1, <2>3 DEF Covers, Lasting, End
  <2>4. u < t => (u \in paused <=> \E i \in DOMAIN windows : Covers(windows[i], u))
    <3>1. \A i \in DOMAIN windows : Covers(windows[i], u) => Opened <= u
      BY <1>1 DEF ClockInv, Covers, Opened
    <3> QED BY <1>1, <3>1 DEF ClockInv, Opened
  <2> QED BY <1>1, <2>1, <2>2, <2>3, <2>4
<1> QED BY <1>6, <1>7, <1>8
-----------------------------------------------------------------------------
(* The loop over the spans.                                                  *)

LEMMA LoopDefined ==
  ASSUME NEW spans \in Seq(Windows), spans # <<>>
  PROVE  /\ AfterEach(spans)[1] = [total |-> 0, cur |-> spans[1]]
         /\ \A k \in DOMAIN spans :
              k # 1 => AfterEach(spans)[k] = Merge(AfterEach(spans)[k - 1], spans[k])
<1> DEFINE First == [total |-> 0, cur |-> spans[1]]
           IsRun(g, n) ==
             g = [k \in 1 .. n |-> IF k = 1 THEN First ELSE Merge(g[k - 1], spans[k])]
           Runnable == {n \in Nat : \E g : IsRun(g, n)}
<1>1. 0 \in Runnable
  <2>1. IsRun([k \in 1 .. 0 |-> First], 0)
    OBVIOUS
  <2> QED BY <2>1
<1>2. ASSUME NEW n \in Nat, n \in Runnable PROVE n + 1 \in Runnable
  <2>1. PICK g : IsRun(g, n)
    BY <1>2
  <2> DEFINE h == [k \in 1 .. n + 1 |->
                     IF k <= n THEN g[k]
                     ELSE IF k = 1 THEN First ELSE Merge(g[k - 1], spans[k])]
  <2>2. ASSUME NEW k \in 1 .. n + 1
        PROVE  h[k] = IF k = 1 THEN First ELSE Merge(h[k - 1], spans[k])
    <3>1. CASE k <= n
      <4>1. g[k] = IF k = 1 THEN First ELSE Merge(g[k - 1], spans[k])
        BY <2>1, <3>1
      <4>2. h[k] = g[k] /\ (k # 1 => h[k - 1] = g[k - 1])
        BY <3>1
      <4> HIDE DEF h, First
      <4> QED BY <4>1, <4>2
    <3>2. CASE k = n + 1
      <4>1. h[k] = IF k = 1 THEN First ELSE Merge(g[k - 1], spans[k])
        BY <3>2
      <4>2. k # 1 => h[k - 1] = g[k - 1]
        BY <3>2
      <4> HIDE DEF h, First
      <4> QED BY <4>1, <4>2
    <3> QED BY <3>1, <3>2
  <2>3. IsRun(h, n + 1)
    <3>1. h = [k \in 1 .. n + 1 |-> h[k]]
      OBVIOUS
    <3> HIDE DEF h, First
    <3> QED BY <2>2, <3>1
  <2> HIDE DEF h, IsRun
  <2> QED BY <2>3
<1>3. Len(spans) \in Runnable /\ DOMAIN spans = 1 .. Len(spans) /\ 1 \in DOMAIN spans
  <2> HIDE DEF Runnable
  <2>1. Nat \subseteq Runnable
    BY <1>1, <1>2, SetInduction
  <2> QED BY <2>1
<1>4. IsRun(AfterEach(spans), Len(spans))
  <2>1. \E g : g = [k \in DOMAIN spans |-> IF k = 1 THEN First ELSE Merge(g[k - 1], spans[k])]
    BY <1>3
  <2> QED BY <1>3, <2>1 DEF AfterEach
<1> HIDE DEF First
<1>5. \A k \in DOMAIN spans :
        AfterEach(spans)[k] = IF k = 1 THEN First ELSE Merge(AfterEach(spans)[k - 1], spans[k])
  BY <1>3, <1>4
<1> QED BY <1>3, <1>5 DEF First

Below(S, m) == {u \in S : u < m}

Covered(spans, k) == {u \in Nat : \E i \in 1 .. k : Within(spans[i], u)}

\* What the loop holds after the k-th span.
Holds(spans, k) ==
  LET acc == AfterEach(spans)[k]
  IN  /\ acc.total \in Nat /\ acc.cur.from \in Nat /\ acc.cur.to \in Nat
      /\ acc.cur.from <= spans[k].from
      /\ acc.total = Cardinality(Below(Covered(spans, k), acc.cur.from))
      /\ \A u \in Nat : Within(acc.cur, u) <=> u \in Covered(spans, k) /\ acc.cur.from <= u

LEMMA UnitsBelow ==
  ASSUME NEW S \in SUBSET Nat, NEW m \in Nat
  PROVE  IsFiniteSet(Below(S, m)) /\ Cardinality(Below(S, m)) \in Nat
<1>1. IsFiniteSet(Below(S, m))
  BY FS_BoundedSetOfNaturals DEF Below
<1> QED BY <1>1, FS_CardinalityType

LEMMA SameBelow ==
  ASSUME NEW S \in SUBSET Nat, NEW T \in SUBSET Nat, NEW m, NEW n,
         \A u \in Nat : u \in S /\ u < m <=> u \in T /\ u < n
  PROVE  Below(S, m) = Below(T, n)
BY DEF Below

LEMMA LengthCounts ==
  ASSUME NEW s, s.from \in Nat, s.to \in Nat
  PROVE  /\ Length(s) = Cardinality({u \in Nat : Within(s, u)}) /\ Length(s) \in Nat
         /\ IsFiniteSet({u \in Nat : Within(s, u)})
<1>1. CASE s.from < s.to
  <2>1. {u \in Nat : Within(s, u)} = s.from .. s.to - 1
    BY <1>1 DEF Within
  <2>2. IsFiniteSet(s.from .. s.to - 1) /\ Cardinality(s.from .. s.to - 1) = s.to - s.from
    <3>1. s.from \in Int /\ s.to - 1 \in Int /\ ~(s.from > s.to - 1)
      BY <1>1
    <3>2. s.to - 1 - s.from + 1 = s.to - s.from
      OBVIOUS
    <3> HIDE <1>1
    <3> QED BY <3>1, <3>2, FS_Interval
  <2>3. Length(s) = s.to - s.from /\ s.to - s.from \in Nat
    BY <1>1 DEF Length
  <2> QED BY <2>1, <2>2, <2>3
<1>2. CASE ~(s.from < s.to)
  <2>1. {u \in Nat : Within(s, u)} = {}
    BY <1>2 DEF Within
  <2> QED BY <1>2, <2>1, FS_EmptySet DEF Length
<1> QED BY <1>1, <1>2

\* The units before the current span with those in it.
LEMMA CloseSpan ==
  ASSUME NEW S \in SUBSET Nat, NEW s, s.from \in Nat, s.to \in Nat,
         NEW m \in Nat, s.from <= m, s.to <= m,
         \A u \in Nat : Within(s, u) <=> u \in S /\ s.from <= u
  PROVE  Cardinality(Below(S, m)) = Cardinality(Below(S, s.from)) + Length(s)
<1> DEFINE D == Below(S, s.from)
           U == {u \in Nat : Within(s, u)}
<1>1. IsFiniteSet(D) /\ Cardinality(D) \in Nat
  BY UnitsBelow
<1>2. IsFiniteSet(U) /\ Cardinality(U) = Length(s) /\ Length(s) \in Nat
  BY LengthCounts
<1>3. D \cap U = {}
  BY DEF Within, Below
<1>4. Below(S, m) = D \cup U
  <2>1. \A u \in Nat : u \in S /\ u < m <=> (u \in S /\ u < s.from) \/ Within(s, u)
    BY DEF Within
  <2> QED BY <2>1 DEF Below
<1>5. Cardinality(D \cup U) = Cardinality(D) + Cardinality(U) - Cardinality(D \cap U)
  BY <1>1, <1>2, FS_Union
<1> HIDE DEF D, U
<1>6. Cardinality(Below(S, m)) = Cardinality(D) + Length(s) - 0
  BY <1>2, <1>3, <1>4, <1>5, FS_EmptySet
<1> QED BY <1>1, <1>2, <1>6 DEF D

LEMMA LoopStep ==
  ASSUME NEW spans \in Seq(Windows), NEW k \in Nat, k # 0, k + 1 \in DOMAIN spans,
         spans[k].from <= spans[k + 1].from, Holds(spans, k)
  PROVE  Holds(spans, k + 1)
<1> DEFINE acc == AfterEach(spans)[k]
           cur == acc.cur
           s == spans[k + 1]
           C == Covered(spans, k)
           held == AfterEach(spans)[k + 1]
<1>1. held = Merge(acc, s)
  <2>1. spans # <<>> /\ k + 1 # 1 /\ (k + 1) - 1 = k
    OBVIOUS
  <2> QED BY <2>1, LoopDefined
<1>2. /\ acc.total \in Nat /\ cur.from \in Nat /\ cur.to \in Nat
      /\ cur.from <= spans[k].from
      /\ acc.total = Cardinality(Below(C, cur.from))
      /\ \A u \in Nat : Within(cur, u) <=> u \in C /\ cur.from <= u
  BY DEF Holds
<1>3. s.from \in Nat /\ s.to \in Nat /\ spans[k].from \in Nat
  <2>1. s \in Windows /\ spans[k] \in Windows /\ 0 \in Nat
    OBVIOUS
  <2> QED BY <2>1, WindowFields
<1>4. cur.from <= s.from
  BY <1>2, <1>3
<1>5. C \subseteq Nat /\ \A u \in Nat : u \in Covered(spans, k + 1) <=> u \in C \/ Within(s, u)
  BY DEF Covered
<1>6. Covered(spans, k + 1) \subseteq Nat
  BY DEF Covered
<1> HIDE DEF acc, s, C, held
<1>7. CASE s.from <= cur.to
  <2>1. Max({cur.to, s.to}) = IF cur.to <= s.to THEN s.to ELSE cur.to
    BY <1>2, <1>3, LeastOfTwo
  <2>2. held.total = acc.total /\ held.cur.from = cur.from
        /\ held.cur.to = IF cur.to <= s.to THEN s.to ELSE cur.to
    BY <1>1, <1>7, <2>1 DEF Merge
  <2>3. Below(Covered(spans, k + 1), cur.from) = Below(C, cur.from)
    <3>1. \A u \in Nat : u \in Covered(spans, k + 1) /\ u < cur.from <=> u \in C /\ u < cur.from
      BY <1>2, <1>3, <1>4, <1>5 DEF Within
    <3> QED BY <1>5, <1>6, <3>1, SameBelow
  <2>4. \A u \in Nat : Within(held.cur, u) <=> Within(cur, u) \/ Within(s, u)
    <3>1. /\ held.cur.from <= s.from /\ s.from <= cur.to
          /\ held.cur.to \in {cur.to, s.to} /\ cur.to <= held.cur.to /\ s.to <= held.cur.to
      BY <1>2, <1>3, <1>4, <1>7, <2>2
    <3> HIDE DEF cur
    <3> QED BY <1>2, <1>3, <2>2, <3>1 DEF Within
  <2>5. \A u \in Nat : Within(s, u) => cur.from <= u
    BY <1>2, <1>3, <1>4 DEF Within
  <2> QED BY <1>2, <1>3, <1>4, <1>5, <2>2, <2>3, <2>4, <2>5 DEF Holds, held, s
<1>8. CASE ~(s.from <= cur.to)
  <2>1. held.total = acc.total + Length(cur) /\ held.cur = s
    BY <1>1, <1>8 DEF Merge
  <2>2. Below(Covered(spans, k + 1), s.from) = Below(C, s.from)
    <3>1. \A u \in Nat : u \in Covered(spans, k + 1) /\ u < s.from <=> u \in C /\ u < s.from
      BY <1>3, <1>5 DEF Within
    <3> QED BY <1>5, <1>6, <3>1, SameBelow
  <2>3. Cardinality(Below(C, s.from)) = acc.total + Length(cur)
    <3>1. cur.from <= s.from /\ cur.to <= s.from
      BY <1>2, <1>3, <1>4, <1>8
    <3>2. /\ cur.from \in Nat /\ cur.to \in Nat /\ s.from \in Nat /\ C \in SUBSET Nat
          /\ \A u \in Nat : Within(cur, u) <=> u \in C /\ cur.from <= u
      BY <1>2, <1>3, <1>5
    <3>3. acc.total = Cardinality(Below(C, cur.from))
      BY <1>2
    <3> HIDE DEF cur
    <3>4. Cardinality(Below(C, s.from)) = Cardinality(Below(C, cur.from)) + Length(cur)
      BY <3>1, <3>2, CloseSpan
    <3> QED BY <3>3, <3>4
  <2>4. Length(cur) \in Nat
    BY <1>2, LengthCounts
  <2>5. \A u \in Nat : u \in C => ~(s.from <= u)
    <3> TAKE u \in Nat
    <3> SUFFICES ASSUME u \in C, s.from <= u PROVE FALSE
      OBVIOUS
    <3>1. cur.from <= u
      BY <1>2, <1>3, <1>4
    <3>2. u < cur.to
      BY <1>2, <3>1 DEF Within
    <3> QED BY <1>2, <1>3, <1>8, <3>2
  <2>6. \A u \in Nat : Within(s, u) <=> u \in Covered(spans, k + 1) /\ s.from <= u
    BY <1>5, <2>5 DEF Within
  <2>7. held.total \in Nat /\ held.total = Cardinality(Below(Covered(spans, k + 1), s.from))
    BY <1>2, <2>1, <2>2, <2>3, <2>4
  <2>8. s.from <= s.from
    BY <1>3
  <2> QED BY <1>3, <2>1, <2>6, <2>7, <2>8 DEF Holds, held, s
<1> QED BY <1>7, <1>8

LEMMA LoopHolds ==
  ASSUME NEW spans \in Seq(Windows), spans # <<>>,
         \A k, l \in DOMAIN spans : k < l => spans[k].from <= spans[l].from
  PROVE  Holds(spans, Len(spans))
<1> DEFINE Done == {n \in Nat : n \in DOMAIN spans => Holds(spans, n)}
<1>1. 0 \in Done
  OBVIOUS
<1>2. Holds(spans, 1)
  <2>1. AfterEach(spans)[1] = [total |-> 0, cur |-> spans[1]]
    BY LoopDefined
  <2>2. spans[1].from \in Nat /\ spans[1].to \in Nat
    <3>1. spans[1] \in Windows /\ 0 \in Nat
      OBVIOUS
    <3> QED BY <3>1, WindowFields
  <2>3. \A u \in Nat : u \in Covered(spans, 1) <=> Within(spans[1], u)
    BY DEF Covered
  <2>4. Below(Covered(spans, 1), spans[1].from) = {}
    <3>1. \A u \in Nat : ~(u \in Covered(spans, 1) /\ u < spans[1].from)
      BY <2>2, <2>3 DEF Within
    <3> QED BY <3>1 DEF Below, Covered
  <2>5. \A u \in Nat : Within(spans[1], u) <=> u \in Covered(spans, 1) /\ spans[1].from <= u
    BY <2>3 DEF Within
  <2>6. Cardinality(Below(Covered(spans, 1), spans[1].from)) = 0
    BY <2>4, FS_EmptySet
  <2> QED BY <2>1, <2>2, <2>5, <2>6 DEF Holds
<1>3. ASSUME NEW n \in Nat, n \in Done PROVE n + 1 \in Done
  <2>1. CASE n = 0
    BY <1>2, <2>1
  <2>2. CASE n # 0
    <3> SUFFICES ASSUME n + 1 \in DOMAIN spans PROVE Holds(spans, n + 1)
      OBVIOUS
    <3>1. n \in DOMAIN spans
      BY <2>2
    <3> QED BY <1>3, <2>2, <3>1, LoopStep
  <2> QED BY <2>1, <2>2
<1>4. Len(spans) \in Nat /\ Len(spans) \in DOMAIN spans
  OBVIOUS
<1>5. Nat \subseteq Done
  <2> HIDE DEF Done
  <2> QED BY <1>1, <1>3, SetInduction
<1> QED BY <1>4, <1>5

LEMMA PausedIsCounted ==
  ASSUME ClockInv, NEW t \in Opened .. clock
  PROVE  PausedHours(t) = Cardinality(Below(paused, t))
<1> DEFINE spans == Spans(t)
           n == Len(spans)
           last == AfterEach(spans)[n]
<1>1. /\ spans \in Seq(Windows)
      /\ \A k, l \in DOMAIN spans : k < l => spans[k].from <= spans[l].from
      /\ \A u \in Nat : (\E k \in DOMAIN spans : Within(spans[k], u)) <=> (u \in paused /\ u < t)
  BY SpanFacts
<1>2. paused \subseteq Nat
  BY DEF ClockInv, Opened
<1>3. PausedHours(t) = IF spans = <<>> THEN 0 ELSE last.total + Length(last.cur)
  BY DEF PausedHours
<1> HIDE DEF spans
<1>4. CASE spans = <<>>
  <2>1. Below(paused, t) = {}
    <3>1. \A u \in Nat : ~(u \in paused /\ u < t)
      BY <1>1, <1>4
    <3> QED BY <1>2, <3>1 DEF Below
  <2> QED BY <1>3, <1>4, <2>1, FS_EmptySet
<1>5. CASE spans # <<>>
  <2>1. Holds(spans, n)
    BY <1>1, <1>5, LoopHolds
  <2>2. DOMAIN spans = 1 .. n
    BY <1>1
  <2>3. \A u \in Nat : u \in Covered(spans, n) <=> u \in paused /\ u < t
    BY <1>1, <2>2 DEF Covered
  <2> DEFINE C == Covered(spans, n)
             m == last.cur.from + last.cur.to
  <2>4. /\ last.cur.from \in Nat /\ last.cur.to \in Nat
        /\ last.total = Cardinality(Below(C, last.cur.from))
        /\ \A u \in Nat : Within(last.cur, u) <=> u \in C /\ last.cur.from <= u
    BY <2>1 DEF Holds
  <2>5. C \subseteq Nat
    BY DEF Covered
  <2> HIDE DEF C, last
  <2>6. Cardinality(Below(C, m)) = last.total + Length(last.cur)
    <3>1. m \in Nat /\ last.cur.from <= m /\ last.cur.to <= m
      BY <2>4
    <3> HIDE DEF m
    <3> QED BY <2>4, <2>5, <3>1, CloseSpan
  <2>7. Below(C, m) = C
    <3>1. \A u \in Nat : u \in C => u < m
      <4> TAKE u \in Nat
      <4> HAVE u \in C
      <4>1. u < last.cur.from \/ Within(last.cur, u)
        BY <2>4
      <4> QED BY <2>4, <4>1 DEF Within
    <3> HIDE DEF m
    <3> QED BY <2>5, <3>1 DEF Below
  <2>8. C = Below(paused, t)
    <3>1. \A u \in Nat : u \in C <=> u \in paused /\ u < t
      BY <2>3 DEF C
    <3> QED BY <1>2, <2>5, <3>1 DEF Below
  <2> QED BY <1>3, <1>5, <2>6, <2>7, <2>8
<1> QED BY <1>4, <1>5

LEMMA ClockTells == ClockInv => ElapsedIsUnpaused
<1> SUFFICES ASSUME ClockInv PROVE ElapsedIsUnpaused
  OBVIOUS
<1> DEFINE Ran(t) == Cardinality((Opened .. t - 1) \ paused)
<1>1. ASSUME NEW t \in Opened .. clock PROVE Elapsed(t) = Ran(t)
  <2>1. t \in Nat /\ Opened <= t /\ t <= clock /\ clock \in Nat
    BY DEF ClockInv, Opened
  <2>2. IsFiniteSet(Opened .. t - 1) /\ Cardinality(Opened .. t - 1) = t - Opened
    BY <2>1, FS_Interval DEF Opened
  <2>3. (Opened .. t - 1) \cap paused = Below(paused, t)
    <3>1. paused \subseteq Opened .. clock - 1
      BY DEF ClockInv
    <3>2. \A u \in Opened .. clock - 1 : u \in Opened .. t - 1 <=> u < t
      BY <2>1 DEF Opened
    <3>3. Opened .. t - 1 \subseteq Opened .. clock - 1
      BY <2>1 DEF Opened
    <3> QED BY <3>1, <3>2, <3>3 DEF Below
  <2>4. Ran(t) = t - Opened - Cardinality(Below(paused, t))
    <3>1. Ran(t) = Cardinality(Opened .. t - 1) - Cardinality((Opened .. t - 1) \cap paused)
      BY <2>2, FS_Difference
    <3> QED BY <2>2, <2>3, <3>1
  <2> QED BY <2>4, PausedIsCounted DEF Elapsed
<1>2. clock \in Opened .. clock
  BY DEF ClockInv, Opened
<1>3. Breached(clock) => Ran(clock) > SlaHours
  BY <1>1, <1>2 DEF Breached
<1> QED BY <1>1, <1>3 DEF ElapsedIsUnpaused

\* Whenever a reader asks, and about whichever moment, the service clock shows the
\* time that passed outside every pause (ticket-store.js:257-287, 1279).
THEOREM ClockIsRight == ClockSpec => []ElapsedIsUnpaused
<1>1. ClockSpec => []ClockInv
  BY ClockStart, ClockSteps, PTL DEF ClockSpec
<1> QED BY <1>1, ClockTells, PTL
=============================================================================
