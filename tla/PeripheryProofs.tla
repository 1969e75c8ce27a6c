--------------------------- MODULE PeripheryProofs ---------------------------
(* The components around the blackboard, each on its own, for any number of  *)
(* deliveries, tasks, messages and subscriptions: what the webhook's answers *)
(* say of the ledger, when a TaskFlow log is as good as a map of tasks, that *)
(* the bus calls no handler twice before its set of seen ids is full, where  *)
(* the implementations of a signature agree, and which bytes a hook runs.    *)
EXTENDS Bus, Taskflow, Webhook, Hooks, SequenceTheorems, TLAPS

-----------------------------------------------------------------------------
(* The webhook.  The invariant ties each request's status to the records on  *)
(* the ledger: what is written is written under the request that the only    *)
(* running handler is at.                                                    *)

Statuses == {"body", "claim", "fact", "answer", "202", "400", "401", "404", "405", "413",
             "500", "dropped", "lost"}

InHandler == {"claim", "fact", "answer"}

Attempts == [delivery : Deliveries, status : Statuses]
Records  == [kind : {"task-claim", "fact"}, for : Nat]

WebhookOK ==
  /\ attempt \in Seq(Attempts)
  /\ ledger \in Seq(Records)
  /\ handling = 0 \/ (handling \in DOMAIN attempt /\ Status(handling) \in InHandler)
  /\ \A a \in DOMAIN attempt : Status(a) \in InHandler => handling = a
  /\ \A i \in DOMAIN ledger : ledger[i].for \in DOMAIN attempt

Signed(a) == attempt[a].delivery.key = Key(attempt[a].delivery)

\* What the status of a request tells.
Told(a) ==
  /\ Status(a) \in InHandler => Signed(a)
  /\ Has("task-claim", a) => Signed(a)
  /\ Has("task-claim", a) => Status(a) \in {"fact", "answer", "202", "500", "lost"}
  /\ Has("fact", a) => Has("task-claim", a) /\ Status(a) \in {"answer", "202", "lost"}
  /\ Status(a) = "fact" => Has("task-claim", a)
  /\ Status(a) \in {"answer", "202"} => Has("task-claim", a) /\ Has("fact", a)

WebhookInv == WebhookOK /\ \A a \in DOMAIN attempt : Told(a)

LEMMA WebhookSeq ==
  ASSUME WebhookOK
  PROVE  /\ Len(attempt) \in Nat /\ DOMAIN attempt = 1 .. Len(attempt)
         /\ \A a \in DOMAIN attempt : attempt[a] \in Attempts
BY LenProperties, ElementOfSeq DEF WebhookOK

\* One request gets another status, of a set that allows it.
LEMMA StatusChanges ==
  ASSUME WebhookInv, NEW a \in DOMAIN attempt, NEW s \in Statuses, SetStatus(a, s),
         UNCHANGED ledger,
         s \in InHandler => handling' = a /\ Signed(a),
         handling' \in {0, a},
         s \notin InHandler => handling' = 0,
         handling \in {0, a},
         Has("task-claim", a) => s \in {"fact", "answer", "202", "500", "lost"},
         Has("fact", a) => s \in {"answer", "202", "lost"},
         s = "fact" => Has("task-claim", a),
         s \in {"answer", "202"} => Has("task-claim", a) /\ Has("fact", a)
  PROVE  WebhookInv'
<1>0. WebhookOK
  BY DEF WebhookInv
<1>1. /\ attempt' \in Seq(Attempts) /\ DOMAIN attempt' = DOMAIN attempt
      /\ \A b \in DOMAIN attempt : attempt'[b].delivery = attempt[b].delivery
      /\ \A b \in DOMAIN attempt \ {a} : attempt'[b] = attempt[b]
      /\ attempt'[a].status = s
  BY <1>0, WebhookSeq DEF SetStatus, WebhookOK, Attempts
<1>2. WebhookOK'
  BY <1>0, <1>1 DEF WebhookOK, Status
<1>3. \A kind, b : Has(kind, b)' = Has(kind, b)
  BY DEF Has
<1>4. ASSUME NEW b \in DOMAIN attempt PROVE Told(b)'
  <2>1. Told(b) /\ Signed(b)' = Signed(b)
    BY <1>1 DEF WebhookInv, Signed, Key, Match, Matching
  <2>2. CASE b = a
    BY <1>1, <1>3, <2>1, <2>2 DEF Told, Status
  <2>3. CASE b # a
    BY <1>1, <1>3, <2>1, <2>3 DEF Told, Status
  <2> QED BY <2>2, <2>3
<1> QED BY <1>1, <1>2, <1>4 DEF WebhookInv

\* The running handler writes a record, and its request moves on.
LEMMA Writes ==
  ASSUME WebhookInv, NEW a \in DOMAIN attempt, handling = a, UNCHANGED handling,
         NEW kind \in {"task-claim", "fact"}, NEW s \in {"fact", "answer"}, SetStatus(a, s),
         ledger' = Append(ledger, [kind |-> kind, for |-> a]),
         \/ Status(a) = "claim" /\ kind = "task-claim" /\ s = "fact"
         \/ Status(a) = "fact" /\ kind = "fact" /\ s = "answer"
  PROVE  WebhookInv'
<1>0. WebhookOK /\ Told(a)
  BY DEF WebhookInv
<1>1. /\ attempt' \in Seq(Attempts) /\ DOMAIN attempt' = DOMAIN attempt
      /\ \A b \in DOMAIN attempt : attempt'[b].delivery = attempt[b].delivery
      /\ \A b \in DOMAIN attempt \ {a} : attempt'[b] = attempt[b]
      /\ attempt'[a].status = s
  BY <1>0, WebhookSeq DEF SetStatus, WebhookOK, Attempts, Statuses
<1>2. [kind |-> kind, for |-> a] \in Records /\ ledger \in Seq(Records)
  BY <1>0, WebhookSeq DEF Records, WebhookOK
<1>3. /\ ledger' \in Seq(Records)
      /\ DOMAIN ledger \subseteq DOMAIN ledger'
      /\ \A i \in DOMAIN ledger : ledger'[i] = ledger[i]
      /\ \A i \in DOMAIN ledger' \ DOMAIN ledger : ledger'[i] = [kind |-> kind, for |-> a]
      /\ \E i \in DOMAIN ledger' : ledger'[i] = [kind |-> kind, for |-> a]
  BY <1>2
<1>4. WebhookOK'
  BY <1>0, <1>1, <1>3 DEF WebhookOK, Status, InHandler
<1>5. ASSUME NEW b, NEW k PROVE Has(k, b)' <=> Has(k, b) \/ (b = a /\ k = kind)
  BY <1>3 DEF Has
<1>6. ASSUME NEW b \in DOMAIN attempt PROVE Told(b)'
  <2>1. Told(b) /\ Signed(b)' = Signed(b)
    BY <1>1 DEF WebhookInv, Signed, Key, Match, Matching
  <2>2. CASE b = a
    BY <1>1, <1>5, <2>1, <2>2 DEF Told, Status, InHandler
  <2>3. CASE b # a
    BY <1>1, <1>5, <2>1, <2>3 DEF Told, Status
  <2> QED BY <2>2, <2>3
<1> QED BY <1>1, <1>4, <1>6 DEF WebhookInv

LEMMA RequestStep ==
  ASSUME WebhookInv, NEW d \in Deliveries, Request(d) PROVE WebhookInv'
<1>0. WebhookOK
  BY DEF WebhookInv
<1>1. PICK s \in {"405", "404", "body"} :
        attempt' = Append(attempt, [delivery |-> d, status |-> s])
  BY DEF Request
<1>2. [delivery |-> d, status |-> s] \in Attempts /\ attempt \in Seq(Attempts)
  BY <1>0 DEF Attempts, Statuses, WebhookOK
<1>3. /\ attempt' \in Seq(Attempts)
      /\ DOMAIN attempt \subseteq DOMAIN attempt'
      /\ \A a \in DOMAIN attempt : attempt'[a] = attempt[a]
      /\ \A a \in DOMAIN attempt' \ DOMAIN attempt : attempt'[a].status = s
  BY <1>1, <1>2
<1>4. handling = 0 /\ UNCHANGED <<handling, ledger>>
  BY DEF Request
<1>5. \A a \in DOMAIN attempt' : Status(a)' \in InHandler => a \in DOMAIN attempt
  BY <1>3 DEF Status, InHandler
<1>6. WebhookOK'
  BY <1>0, <1>3, <1>4, <1>5 DEF WebhookOK, Status
<1>7. ASSUME NEW a \in DOMAIN attempt' PROVE Told(a)'
  <2>1. CASE a \in DOMAIN attempt
    <3>1. Told(a)
      BY <2>1 DEF WebhookInv
    <3>2. Status(a)' = Status(a) /\ Signed(a)' = Signed(a)
      BY <1>3, <2>1 DEF Status, Signed, Key, Match, Matching
    <3>3. \A k : Has(k, a)' = Has(k, a)
      BY <1>4 DEF Has
    <3> QED BY <3>1, <3>2, <3>3 DEF Told
  <2>2. CASE a \notin DOMAIN attempt
    <3>1. \A k : ~Has(k, a)'
      BY <1>0, <1>4, <2>2 DEF WebhookOK, Has
    <3>2. Status(a)' \in {"405", "404", "body"}
      BY <1>3, <2>2 DEF Status
    <3> QED BY <3>1, <3>2 DEF Told, InHandler
  <2> QED BY <2>1, <2>2
<1> QED BY <1>6, <1>7 DEF WebhookInv

\* The process ends: its open requests do, too.
LEMMA EndStep ==
  ASSUME WebhookInv, NEW how \in {"dropped", "lost"}, End(how),
         how = "dropped" => handling = 0
  PROVE  WebhookInv'
<1>0. WebhookOK
  BY DEF WebhookInv
<1>1. /\ DOMAIN attempt' = DOMAIN attempt /\ handling' = 0 /\ ledger' = ledger
      /\ \A a \in DOMAIN attempt :
           attempt'[a] = IF Status(a) \in {"body", "claim", "fact", "answer"}
                         THEN [attempt[a] EXCEPT !.status = how] ELSE attempt[a]
  BY DEF End
<1>2. ASSUME NEW a \in DOMAIN attempt
      PROVE  /\ attempt'[a] \in Attempts /\ attempt'[a].delivery = attempt[a].delivery
             /\ Status(a)' = IF Status(a) \in {"body", "claim", "fact", "answer"}
                             THEN how ELSE Status(a)
  BY <1>0, <1>1, WebhookSeq DEF Status, Attempts, Statuses
<1>3. attempt' \in Seq(Attempts)
  <2>1. DOMAIN attempt' = 1 .. Len(attempt) /\ Len(attempt) \in Nat
    BY <1>0, <1>1, WebhookSeq
  <2>2. attempt' = [a \in 1 .. Len(attempt) |-> attempt'[a]]
    BY <1>0, <2>1, WebhookSeq DEF End
  <2> QED BY <1>2, <2>1, <2>2
<1>4. WebhookOK'
  BY <1>0, <1>1, <1>2, <1>3 DEF WebhookOK, InHandler
<1>5. ASSUME NEW a \in DOMAIN attempt PROVE Told(a)'
  <2>1. Told(a) /\ Signed(a)' = Signed(a)
    BY <1>2 DEF WebhookInv, Signed, Key, Match, Matching
  <2>2. \A k : Has(k, a)' = Has(k, a)
    BY <1>1 DEF Has
  <2>3. how = "dropped" => Status(a) \notin InHandler
    BY <1>0 DEF WebhookOK
  <2> QED BY <1>2, <2>1, <2>2, <2>3 DEF Told, InHandler
<1> QED BY <1>1, <1>4, <1>5 DEF WebhookInv

LEMMA HandlerSteps ==
  ASSUME WebhookInv, NEW a \in DOMAIN attempt, Handle(a) PROVE WebhookInv'
<1>0. WebhookOK /\ Told(a)
  BY DEF WebhookInv
<1>1. CASE Check(a)
  <2>1. Status(a) = "body" /\ handling = 0 /\ ledger' = ledger
    BY <1>1 DEF Check
  <2>2. ~Has("task-claim", a) /\ ~Has("fact", a)
    BY <1>0, <2>1 DEF Told
  <2>3. \/ \E s \in {"400", "401", "413"} : SetStatus(a, s) /\ UNCHANGED handling
        \/ SetStatus(a, "claim") /\ handling' = a /\ Signed(a)
    BY <1>1 DEF Check, Refusal, Signed
  <2>4. CASE SetStatus(a, "claim") /\ handling' = a /\ Signed(a)
    BY <2>1, <2>2, <2>4, StatusChanges DEF Statuses, InHandler
  <2>5. CASE \E s \in {"400", "401", "413"} : SetStatus(a, s) /\ UNCHANGED handling
    <3>1. PICK s \in {"400", "401", "413"} : SetStatus(a, s) /\ UNCHANGED handling
      BY <2>5
    <3>2. s \in Statuses \ InHandler /\ s \notin {"fact", "answer", "202"}
      BY DEF Statuses, InHandler
    <3> QED BY <2>1, <2>2, <3>1, <3>2, StatusChanges
  <2> QED BY <2>3, <2>4, <2>5
<1>2. CASE WriteFails(a)
  <2>1. /\ SetStatus(a, "500") /\ handling = a /\ handling' = 0 /\ ledger' = ledger
        /\ Status(a) \in {"claim", "fact"}
    BY <1>2 DEF WriteFails
  <2>2. ~Has("fact", a)
    BY <1>0, <2>1 DEF Told
  <2> QED BY <2>1, <2>2, StatusChanges DEF Statuses, InHandler
<1>3. CASE Claim(a)
  BY <1>3, Writes DEF Claim
<1>4. CASE Record(a)
  BY <1>4, Writes DEF Record
<1>5. CASE Answer(a)
  <2>1. /\ SetStatus(a, "202") /\ handling = a /\ handling' = 0 /\ ledger' = ledger
        /\ Status(a) = "answer"
    BY <1>5 DEF Answer
  <2>2. Has("task-claim", a) /\ Has("fact", a)
    BY <1>0, <2>1 DEF Told
  <2> QED BY <2>1, <2>2, StatusChanges DEF Statuses, InHandler
<1> QED BY <1>1, <1>2, <1>3, <1>4, <1>5 DEF Handle

LEMMA WebhookInductive == WebhookInv /\ [WebhookNext]_webVars => WebhookInv'
<1> SUFFICES ASSUME WebhookInv, [WebhookNext]_webVars PROVE WebhookInv'
  OBVIOUS
<1>1. ASSUME UNCHANGED <<attempt, handling, ledger>> PROVE WebhookInv'
  <2>1. WebhookOK'
    BY <1>1 DEF WebhookInv, WebhookOK, Status
  <2>2. ASSUME NEW a \in DOMAIN attempt PROVE Told(a)'
    <3>1. \A k : Has(k, a)' = Has(k, a)
      BY <1>1 DEF Has
    <3>2. Status(a)' = Status(a) /\ Signed(a)' = Signed(a) /\ Told(a)
      BY <1>1 DEF Status, Signed, Key, Match, Matching, WebhookInv
    <3> QED BY <3>1, <3>2 DEF Told
  <2> QED BY <1>1, <2>1, <2>2 DEF WebhookInv
<1>2. CASE Start \/ Signal \/ UNCHANGED webVars
  BY <1>1, <1>2 DEF Start, Signal, webVars
<1>3. CASE Exit
  BY <1>3, EndStep DEF Exit
<1>4. CASE Crash
  BY <1>4, EndStep DEF Crash
<1>5. CASE \E d \in Deliveries : Request(d)
  BY <1>5, RequestStep
<1>6. CASE \E a \in DOMAIN attempt : Handle(a)
  BY <1>6, HandlerSteps
<1> QED BY <1>2, <1>3, <1>4, <1>5, <1>6 DEF WebhookNext

(* The answers of the webhook are true of the ledger, and what is on the     *)
(* ledger was signed, whatever fails, stops or crashes (server.js).          *)
THEOREM AnswersAreTrue == WebhookSpec => []LedgerMatchesAnswers
<1>1. WebhookInit => WebhookInv
  BY EmptySeq DEF WebhookInit, WebhookInv, WebhookOK
<1>2. WebhookInv => LedgerMatchesAnswers
  BY DEF WebhookInv, Told, LedgerMatchesAnswers, Signed
<1> QED BY <1>1, <1>2, WebhookInductive, PTL DEF WebhookSpec
-----------------------------------------------------------------------------
(* TaskFlow: the newest event of a task decides.                             *)

\* Each task with events has a newest one.  Induction over the log is induction
\* over the steps, so this is part of the invariant.
TaskflowInv ==
  /\ events \in Seq(Event)
  /\ \A t \in Ids : EventsOf(t) # {} => \E i \in EventsOf(t) : \A j \in EventsOf(t) : j <= i

RawState(t) == IF Exists(t) THEN Latest(t).state ELSE "absent"
RawAgent(t) == IF Exists(t) THEN Latest(t).agent ELSE NoAgent

LEMMA Newest ==
  ASSUME TaskflowInv, NEW e \in Event, events' = Append(events, e)
  PROVE  /\ TaskflowInv'
         /\ \A t \in Ids \ {e.task} :
              /\ Exists(t)' = Exists(t)
              /\ RawState(t)' = RawState(t) /\ RawAgent(t)' = RawAgent(t)
         /\ Exists(e.task)' <=> Exists(e.task) \/ e.kind = "task-created"
         /\ Exists(e.task)' => RawState(e.task)' = e.state /\ RawAgent(e.task)' = e.agent
<1> DEFINE n == Len(events) + 1
<1>1. /\ n \in Nat /\ DOMAIN events = 1 .. n - 1 /\ events' \in Seq(Event)
      /\ DOMAIN events' = 1 .. n /\ events'[n] = e
      /\ \A i \in 1 .. n - 1 : events'[i] = events[i]
  <2>1. events \in Seq(Event)
    BY DEF TaskflowInv
  <2> QED BY <2>1
<1> HIDE DEF n
<1>2. ASSUME NEW t \in Ids \ {e.task}
      PROVE  /\ Exists(t)' = Exists(t)
             /\ RawState(t)' = RawState(t) /\ RawAgent(t)' = RawAgent(t)
  <2>1. EventsOf(t)' = EventsOf(t)
    BY <1>1, <1>2 DEF EventsOf
  <2>2. \A i \in EventsOf(t) : events'[i] = events[i]
    BY <1>1 DEF EventsOf
  <2>3. Exists(t)' = Exists(t)
    BY <2>1, <2>2 DEF Exists
  <2>4. ASSUME Exists(t) PROVE Latest(t)' = Latest(t)
    <3>1. PICK i \in EventsOf(t) : \A j \in EventsOf(t) : j <= i
      BY <2>4 DEF TaskflowInv, Exists
    <3>2. (CHOOSE k \in EventsOf(t) : \A j \in EventsOf(t) : j <= k) \in EventsOf(t)
      BY <3>1, Zenon
    <3> QED BY <2>1, <2>2, <3>2, Zenon DEF Latest
  <2> QED BY <2>3, <2>4, Zenon DEF RawState, RawAgent
<1>3. Exists(e.task)' <=> Exists(e.task) \/ e.kind = "task-created"
  BY <1>1 DEF Exists, EventsOf
<1>4. Latest(e.task)' = e
  <2>1. n \in EventsOf(e.task)' /\ \A j \in EventsOf(e.task)' : j <= n
    BY <1>1 DEF EventsOf
  <2>2. EventsOf(e.task)' \subseteq Nat
    BY <1>1 DEF EventsOf
  <2>3. ASSUME NEW k \in EventsOf(e.task)', \A j \in EventsOf(e.task)' : j <= k PROVE k = n
    BY <2>1, <2>2, <2>3
  <2>4. (CHOOSE k \in EventsOf(e.task)' : \A j \in EventsOf(e.task)' : j <= k) = n
    BY <2>1, <2>3, Zenon
  <2> QED BY <1>1, <2>4, Zenon DEF Latest
<1>5. Exists(e.task)' => RawState(e.task)' = e.state /\ RawAgent(e.task)' = e.agent
  BY <1>4 DEF RawState, RawAgent
<1>6. TaskflowInv'
  <2>1. ASSUME NEW t \in Ids, EventsOf(t)' # {}
        PROVE  \E i \in EventsOf(t)' : \A j \in EventsOf(t)' : j <= i
    <3>1. CASE t = e.task
      <4>1. n \in EventsOf(t)' /\ \A j \in EventsOf(t)' : j <= n
        BY <1>1, <3>1 DEF EventsOf
      <4> QED BY <4>1
    <3>2. CASE t # e.task
      <4>1. EventsOf(t)' = EventsOf(t)
        BY <1>1, <3>2 DEF EventsOf
      <4> QED BY <2>1, <4>1 DEF TaskflowInv
    <3> QED BY <3>1, <3>2
  <2> QED BY <1>1, <2>1 DEF TaskflowInv
<1> QED BY <1>2, <1>3, <1>5, <1>6

\* What the snapshot says of a task, where there is a snapshot.
LEMMA Raw ==
  /\ SnapshotThrows => \A t \in Ids : StateOf(t) = "lost" /\ AgentOf(t) = NoAgent
  /\ ~SnapshotThrows => \A t \in Ids : StateOf(t) = RawState(t) /\ AgentOf(t) = RawAgent(t)
BY DEF StateOf, AgentOf, RawState, RawAgent

LEMMA RawType ==
  ASSUME TaskflowInv, NEW t \in Ids
  PROVE  /\ Exists(t) => RawState(t) \in {"queued", "claimed", "waiting", "done", "failed", "blocked"}
         /\ ~Exists(t) => RawState(t) = "absent" /\ RawAgent(t) = NoAgent
<1>1. ASSUME Exists(t)
      PROVE  (CHOOSE i \in EventsOf(t) : \A j \in EventsOf(t) : j <= i) \in EventsOf(t)
  <2>1. \E i \in EventsOf(t) : \A j \in EventsOf(t) : j <= i
    BY <1>1 DEF TaskflowInv, Exists
  <2> QED BY <2>1, Zenon
<1>2. Exists(t) => Latest(t) \in Event
  BY <1>1 DEF Latest, EventsOf, TaskflowInv
<1> QED BY <1>2 DEF RawState, RawAgent, Event

\* The snapshot throws from the first event of an inherited id that is not there.
LEMMA Throwing ==
  ASSUME TaskflowInv, NEW e \in Event, events' = Append(events, e)
  PROVE  SnapshotThrows' <=>
           \/ SnapshotThrows
           \/ e.task \in Inherited /\ ~Exists(e.task) /\ e.kind # "task-created"
<1> DEFINE n == Len(events) + 1
<1>1. /\ n \in Nat /\ DOMAIN events = 1 .. n - 1
      /\ DOMAIN events' = 1 .. n /\ events'[n] = e
      /\ \A i \in 1 .. n - 1 : events'[i] = events[i]
  <2>1. events \in Seq(Event)
    BY DEF TaskflowInv
  <2> QED BY <2>1
<1> HIDE DEF n
<1>2. ASSUME NEW t, NEW i \in EventsOf(t)
      PROVE  /\ i \in EventsOf(t)' /\ i < n
             /\ (\A j \in EventsOf(t)' : j <= i => events'[j].kind # "task-created") <=>
                (\A j \in EventsOf(t) : j <= i => events[j].kind # "task-created")
  BY <1>1, <1>2 DEF EventsOf
<1>3. ASSUME NEW t, NEW i \in EventsOf(t)', i \notin EventsOf(t)
      PROVE  i = n /\ t = e.task
  BY <1>1, <1>3 DEF EventsOf
<1>4. n \in EventsOf(e.task)'
  BY <1>1 DEF EventsOf
<1>5. (\A j \in EventsOf(e.task)' : j <= n => events'[j].kind # "task-created") <=>
      ~Exists(e.task) /\ e.kind # "task-created"
  BY <1>1 DEF EventsOf, Exists
<1>6. SnapshotThrows => SnapshotThrows'
  BY <1>2 DEF SnapshotThrows
<1>7. e.task \in Inherited /\ ~Exists(e.task) /\ e.kind # "task-created" => SnapshotThrows'
  BY <1>4, <1>5 DEF SnapshotThrows
<1>8. ASSUME SnapshotThrows'
      PROVE  \/ SnapshotThrows
             \/ e.task \in Inherited /\ ~Exists(e.task) /\ e.kind # "task-created"
  <2>0. PICK t \in Inherited :
          \E i \in EventsOf(t)' :
            \A j \in EventsOf(t)' : j <= i => events'[j].kind # "task-created"
    BY <1>8 DEF SnapshotThrows
  <2>1. PICK i \in EventsOf(t)' :
          \A j \in EventsOf(t)' : j <= i => events'[j].kind # "task-created"
    BY <2>0
  <2>2. CASE i \in EventsOf(t)
    BY <1>2, <2>1, <2>2 DEF SnapshotThrows
  <2>3. CASE i \notin EventsOf(t)
    BY <1>3, <1>5, <2>1, <2>3
  <2> QED BY <2>2, <2>3
<1> QED BY <1>6, <1>7, <1>8

\* What an event does to the map.
LEMMA EventStep ==
  ASSUME TaskflowInv, NEW e \in Event, events' = Append(events, e)
  PROVE  /\ TaskflowInv'
         /\ \/ /\ ~SnapshotThrows /\ (Exists(e.task) \/ e.kind = "task-created")
               /\ Map!Set(e.task, e.state, e.agent)
            \/ Map!Lose(e.task)
            \/ UNCHANGED <<StateMap, AgentMap>>
<1>0. e.task \in Ids
  BY DEF Event
<1>1. TaskflowInv'
  BY Newest
<1>r. /\ SnapshotThrows' =>
           \A t \in Ids : StateOf(t)' = "lost" /\ AgentOf(t)' = NoAgent
      /\ ~SnapshotThrows' =>
           \A t \in Ids : StateOf(t)' = RawState(t)' /\ AgentOf(t)' = RawAgent(t)'
  BY DEF StateOf, AgentOf, RawState, RawAgent
<1>2. CASE SnapshotThrows
  <2>1. SnapshotThrows'
    BY <1>2, Throwing
  <2>2. \A t \in Ids : StateOf(t)' = StateOf(t) /\ AgentOf(t)' = AgentOf(t)
    BY <1>2, <1>r, <2>1, Raw
  <2> QED BY <1>1, <2>2 DEF StateMap, AgentMap
<1>3. CASE ~SnapshotThrows /\ (Exists(e.task) \/ e.kind = "task-created")
  <2>1. ~SnapshotThrows'
    BY <1>3, Throwing
  <2>2. \A t \in Ids : /\ RawState(t)' = IF t = e.task THEN e.state ELSE RawState(t)
                       /\ RawAgent(t)' = IF t = e.task THEN e.agent ELSE RawAgent(t)
    BY <1>3, Newest
  <2>3. \A t \in Ids : /\ StateMap'[t] = IF t = e.task THEN e.state ELSE StateMap[t]
                       /\ AgentMap'[t] = IF t = e.task THEN e.agent ELSE AgentMap[t]
    BY <1>3, <1>r, <2>1, <2>2, Raw DEF StateMap, AgentMap
  <2>4. /\ StateMap' = [StateMap EXCEPT ![e.task] = e.state]
        /\ AgentMap' = [AgentMap EXCEPT ![e.task] = e.agent]
    BY <1>0, <2>3 DEF StateMap, AgentMap
  <2> QED BY <1>1, <1>3, <2>4 DEF Map!Set
<1>4. CASE ~SnapshotThrows /\ ~Exists(e.task) /\ e.kind # "task-created"
  <2>1. CASE e.task \in Inherited
    <3>1. SnapshotThrows'
      BY <1>4, <2>1, Throwing
    <3>2. StateMap' = [u \in Ids |-> "lost"] /\ AgentMap' = [u \in Ids |-> NoAgent]
      BY <1>r, <3>1 DEF StateMap, AgentMap
    <3>3. StateMap[e.task] = "absent"
      BY <1>0, <1>4, Raw, RawType DEF StateMap
    <3> QED BY <1>1, <2>1, <3>2, <3>3 DEF Map!Lose
  <2>2. CASE e.task \notin Inherited
    <3>1. ~SnapshotThrows'
      BY <1>4, <2>2, Throwing
    <3>2. ~Exists(e.task)'
      BY <1>4, Newest
    <3>3. RawState(e.task)' = RawState(e.task) /\ RawAgent(e.task)' = RawAgent(e.task)
      BY <1>4, <3>2 DEF RawState, RawAgent
    <3>4. \A t \in Ids : RawState(t)' = RawState(t) /\ RawAgent(t)' = RawAgent(t)
      BY <3>3, Newest
    <3>5. \A t \in Ids : StateOf(t)' = StateOf(t) /\ AgentOf(t)' = AgentOf(t)
      BY <1>4, <1>r, <3>1, <3>4, Raw
    <3> QED BY <1>1, <3>5 DEF StateMap, AgentMap
  <2> QED BY <2>1, <2>2
<1> QED BY <1>2, <1>3, <1>4

LEMMA FlowStep ==
  ASSUME TaskflowInv, TaskflowNext
  PROVE  TaskflowInv' /\ (Map!Next \/ UNCHANGED <<StateMap, AgentMap>>)
<1>1. ASSUME NEW t \in Ids, ~SnapshotThrows
      PROVE  /\ StateMap[t] = StateOf(t) /\ StateMap[t] # "lost"
             /\ Exists(t) => Map!There(t)
  BY <1>1, Raw, RawType DEF StateMap, Map!There
<1>2. ASSUME NEW t \in Ids, CreateTask(t)
      PROVE  TaskflowInv' /\ (Map!Next \/ UNCHANGED <<StateMap, AgentMap>>)
  <2> DEFINE e == [kind |-> "task-created", task |-> t, agent |-> NoAgent, state |-> "queued"]
  <2>1. e \in Event /\ events' = Append(events, e)
    BY <1>2 DEF CreateTask, Log, Event
  <2>2. e.task = t /\ e.state = "queued" /\ e.agent = NoAgent
    OBVIOUS
  <2> HIDE DEF e
  <2>3. /\ TaskflowInv'
        /\ \/ ~SnapshotThrows /\ Map!Set(t, "queued", NoAgent)
           \/ Map!Lose(t)
           \/ UNCHANGED <<StateMap, AgentMap>>
    BY <2>1, <2>2, EventStep
  <2>4. ~SnapshotThrows /\ Map!Set(t, "queued", NoAgent) => Map!Create(t)
    BY <1>1 DEF Map!Create
  <2> QED BY <2>3, <2>4 DEF Map!Next
<1>3. ASSUME NEW t \in Ids, NEW a \in Agents, NEW kind, NEW s, Log(kind, t, a, s),
             kind # "task-created",
             [kind |-> kind, task |-> t, agent |-> a, state |-> s] \in Event
      PROVE  /\ TaskflowInv'
             /\ \/ ~SnapshotThrows /\ Map!There(t) /\ Map!Set(t, s, a)
                \/ Map!Next
                \/ UNCHANGED <<StateMap, AgentMap>>
  <2> DEFINE e == [kind |-> kind, task |-> t, agent |-> a, state |-> s]
  <2>1. e \in Event /\ events' = Append(events, e)
    BY <1>3 DEF Log
  <2>2. e.task = t /\ e.state = s /\ e.agent = a /\ e.kind = kind
    OBVIOUS
  <2> HIDE DEF e
  <2>3. /\ TaskflowInv'
        /\ \/ ~SnapshotThrows /\ Exists(t) /\ Map!Set(t, s, a)
           \/ Map!Lose(t)
           \/ UNCHANGED <<StateMap, AgentMap>>
    BY <1>3, <2>1, <2>2, EventStep
  <2> QED BY <1>1, <2>3 DEF Map!Next
<1>4. ASSUME NEW t \in Ids, NEW a \in Agents, ClaimTask(t, a)
      PROVE  TaskflowInv' /\ (Map!Next \/ UNCHANGED <<StateMap, AgentMap>>)
  <2>1. /\ Log("task-claimed", t, a, "claimed") /\ StateOf(t) \notin {"done", "failed"}
        /\ [kind |-> "task-claimed", task |-> t, agent |-> a, state |-> "claimed"] \in Event
    BY <1>4 DEF ClaimTask, Event
  <2>2. ~SnapshotThrows /\ Map!There(t) /\ Map!Set(t, "claimed", a) => Map!Next
    BY <1>1, <2>1 DEF Map!Next, Map!Claim, Map!Terminal
  <2>3. /\ TaskflowInv'
        /\ \/ ~SnapshotThrows /\ Map!There(t) /\ Map!Set(t, "claimed", a)
           \/ Map!Next
           \/ UNCHANGED <<StateMap, AgentMap>>
    BY <1>3, <2>1
  <2> QED BY <2>2, <2>3
<1>5. ASSUME NEW t \in Ids, NEW a \in Agents, NEW kind \in {"task-waiting", "task-blocked"},
             NEW s \in {"waiting", "blocked"}, Log(kind, t, a, s)
      PROVE  TaskflowInv' /\ (Map!Next \/ UNCHANGED <<StateMap, AgentMap>>)
  <2>1. [kind |-> kind, task |-> t, agent |-> a, state |-> s] \in Event /\ kind # "task-created"
    BY DEF Event
  <2>2. Map!There(t) /\ Map!Set(t, s, a) => Map!Next
    BY DEF Map!Next, Map!Pause
  <2>3. /\ TaskflowInv'
        /\ \/ ~SnapshotThrows /\ Map!There(t) /\ Map!Set(t, s, a)
           \/ Map!Next
           \/ UNCHANGED <<StateMap, AgentMap>>
    BY <1>3, <1>5, <2>1
  <2> QED BY <2>2, <2>3
<1>6. ASSUME NEW t \in Ids, NEW a \in Agents, NEW status \in ResultStates,
             CompleteTask(t, a, status)
      PROVE  TaskflowInv' /\ (Map!Next \/ UNCHANGED <<StateMap, AgentMap>>)
  <2>1. PICK s \in {"done", "failed", "blocked"} : Log("task-result", t, a, s)
    BY <1>6 DEF CompleteTask, ResultStates
  <2>2. [kind |-> "task-result", task |-> t, agent |-> a, state |-> s] \in Event
    BY DEF Event
  <2>3. Map!There(t) /\ Map!Set(t, s, a) => Map!Next
    BY DEF Map!Next, Map!Complete
  <2>4. /\ TaskflowInv'
        /\ \/ ~SnapshotThrows /\ Map!There(t) /\ Map!Set(t, s, a)
           \/ Map!Next
           \/ UNCHANGED <<StateMap, AgentMap>>
    BY <1>3, <2>1, <2>2
  <2> QED BY <2>3, <2>4
<1>7. PICK t \in Ids :
        \/ CreateTask(t)
        \/ \E a \in Agents :
             \/ ClaimTask(t, a) \/ WaitTask(t, a) \/ BlockTask(t, a)
             \/ \E status \in ResultStates : CompleteTask(t, a, status)
  BY DEF TaskflowNext
<1> QED BY <1>2, <1>4, <1>5, <1>6, <1>7 DEF WaitTask, BlockTask

\* The log of events and the snapshot that is computed from all of it implement a
\* map from task ids to a state and an agent that is lost, as a whole and for
\* ever, when a task of an inherited id has an event before it is created, and
\* at no other time (taskflow.js:140).
THEOREM LogIsAMap == TaskflowSpec => ActsAsMap
<1>1. TaskflowInit => TaskflowInv /\ Map!Init
  <2>1. ASSUME events = <<>>, NEW t \in Ids
        PROVE  EventsOf(t) = {} /\ StateOf(t) = "absent" /\ AgentOf(t) = NoAgent
    <3>1. ~SnapshotThrows
      BY <2>1 DEF SnapshotThrows, EventsOf
    <3> QED BY <2>1, <3>1 DEF EventsOf, StateOf, AgentOf, Exists
  <2> QED BY <2>1, EmptySeq DEF TaskflowInit, TaskflowInv, Map!Init, StateMap, AgentMap
<1>2. ASSUME TaskflowInv, [TaskflowNext]_events
      PROVE  TaskflowInv' /\ [Map!Next]_<<StateMap, AgentMap>>
  <2>1. CASE UNCHANGED events
    BY <1>2, <2>1 DEF TaskflowInv, EventsOf, StateMap, AgentMap, StateOf, AgentOf, Exists, Latest,
                      SnapshotThrows
  <2>2. CASE TaskflowNext
    BY <1>2, <2>2, FlowStep
  <2> QED BY <1>2, <2>1, <2>2
<1> QED BY <1>1, <1>2, PTL DEF TaskflowSpec, ActsAsMap, Map!Spec
-----------------------------------------------------------------------------
(* The bus: the set of seen ids is a window on the history of calls.         *)

Messages ==
  {SignWith(arm, Create(id, from, body), key) :
     arm \in Arms, id \in EnvelopeIds \cup {NoId}, from \in Names, body \in Body,
     key \in Nat} \cup {Garbled}

MessageIds == {m.id : m \in Messages}

Called(id) == \E i \in DOMAIN calls : calls[i] = id

SendersOK ==
  /\ stream \in Seq(Messages)
  /\ hand \in [Senders -> SUBSET Messages]
  /\ pem \in [Names -> Nat] /\ privCache \in [Senders -> Nat]

LoopsOK ==
  /\ queue \in [Subs -> Seq(Nat)]
  /\ \A c \in Subs : \A k \in DOMAIN queue[c] : queue[c][k] \in DOMAIN stream
  /\ busy \in [Subs -> Nat]
  /\ \A c \in Subs : busy[c] # 0 => busy[c] \in DOMAIN stream /\ Called(stream[busy[c]].id)
  /\ taken \in [Subs -> SUBSET MessageIds]
  /\ \A c \in Subs : \A id \in taken[c] : id = NoId \/ Called(id)
  /\ ~Called(NoId)

\* The seen ids are the last that were called: all of them, as long as there are
\* fewer than the set may hold.
Window ==
  /\ seen \in Seq(MessageIds) /\ calls \in Seq(MessageIds)
  /\ Len(seen) <= DedupeMax /\ Len(seen) <= Len(calls)
  /\ Len(seen) < DedupeMax => Len(seen) = Len(calls)
  /\ \A k \in 1 .. Len(seen) : seen[k] = calls[Len(calls) - Len(seen) + k]

BusInv == SendersOK /\ LoopsOK /\ Window /\ RepeatNeedsEviction

LEMMA BusSeq ==
  ASSUME SendersOK
  PROVE  /\ Len(stream) \in Nat /\ DOMAIN stream = 1 .. Len(stream)
         /\ \A n \in DOMAIN stream : stream[n] \in Messages /\ stream[n].id \in MessageIds
<1>1. /\ Len(stream) \in Nat /\ DOMAIN stream = 1 .. Len(stream)
      /\ \A n \in DOMAIN stream : stream[n] \in Messages
  BY LenProperties, ElementOfSeq DEF SendersOK
<1> QED BY <1>1 DEF MessageIds

LEMMA AppendOf ==
  ASSUME NEW S, NEW q \in Seq(S), NEW x \in S
  PROVE  /\ Len(q) \in Nat /\ DOMAIN q = 1 .. Len(q)
         /\ Append(q, x) \in Seq(S) /\ Len(Append(q, x)) = Len(q) + 1
         /\ DOMAIN Append(q, x) = 1 .. Len(q) + 1
         /\ \A k \in 1 .. Len(q) : Append(q, x)[k] = q[k]
         /\ Append(q, x)[Len(q) + 1] = x
OBVIOUS

LEMMA TailOf ==
  ASSUME NEW S, NEW q \in Seq(S), q # <<>>
  PROVE  /\ Head(q) \in S /\ Head(q) = q[1] /\ 1 \in DOMAIN q
         /\ Tail(q) \in Seq(S) /\ Len(Tail(q)) = Len(q) - 1
         /\ \A k \in DOMAIN Tail(q) : k + 1 \in DOMAIN q /\ Tail(q)[k] = q[k + 1]
OBVIOUS

\* The first goes to the end.
LEMMA RotationOf ==
  ASSUME NEW S, NEW q \in Seq(S), q # <<>>
  PROVE  /\ Append(Tail(q), Head(q)) \in Seq(S)
         /\ \A k \in DOMAIN Append(Tail(q), Head(q)) :
              \E l \in DOMAIN q : Append(Tail(q), Head(q))[k] = q[l]
<1> DEFINE t == Tail(q)
           h == Head(q)
<1>1. /\ t \in Seq(S) /\ h \in S /\ h = q[1] /\ 1 \in DOMAIN q
      /\ \A k \in DOMAIN t : k + 1 \in DOMAIN q /\ t[k] = q[k + 1]
  BY TailOf
<1> HIDE DEF t, h
<1>2. /\ Append(t, h) \in Seq(S)
      /\ \A k \in DOMAIN Append(t, h) :
           Append(t, h)[k] = h \/ (k \in DOMAIN t /\ Append(t, h)[k] = t[k])
  BY <1>1
<1>3. \A k \in DOMAIN Append(t, h) : \E l \in DOMAIN q : Append(t, h)[k] = q[l]
  BY <1>1, <1>2
<1> QED BY <1>2, <1>3 DEF t, h

\* The queues change, by entries of the stream only.
LEMMA QueueMoves ==
  ASSUME BusInv, queue' \in [Subs -> Seq(Nat)],
         \A c \in Subs : \A k \in DOMAIN queue'[c] : queue'[c][k] \in DOMAIN stream,
         UNCHANGED <<stream, hand, pem, privCache, busy, seen, calls, taken>>
  PROVE  BusInv'
<1>1. SendersOK' /\ Window' /\ RepeatNeedsEviction'
  BY DEF BusInv, SendersOK, Window, RepeatNeedsEviction
<1>2. LoopsOK'
  BY DEF BusInv, LoopsOK, Called
<1> QED BY <1>1, <1>2 DEF BusInv

\* A sender adds a message.
LEMMA StoreStep ==
  ASSUME BusInv, NEW m \in Messages, Store(m), hand' \in [Senders -> SUBSET Messages],
         privCache' \in [Senders -> Nat], UNCHANGED <<pem, busy, seen, calls, taken>>
  PROVE  BusInv'
<1>0. SendersOK /\ LoopsOK
  BY DEF BusInv
<1> DEFINE n == Len(stream) + 1
<1>1. /\ stream' \in Seq(Messages) /\ n \in Nat
      /\ DOMAIN stream \subseteq DOMAIN stream' /\ n \in DOMAIN stream'
      /\ \A i \in DOMAIN stream : stream'[i] = stream[i]
  <2>1. stream' = Append(stream, m) /\ stream \in Seq(Messages)
    BY <1>0 DEF Store, SendersOK
  <2> QED BY <2>1
<1> HIDE DEF n
<1>2. ASSUME NEW c \in Subs
      PROVE  /\ queue'[c] \in Seq(Nat)
             /\ \A k \in DOMAIN queue'[c] : queue'[c][k] \in DOMAIN stream'
  <2>1. queue'[c] = IF c \in Live THEN Append(queue[c], n) ELSE queue[c]
    BY DEF Store, n
  <2>2. queue[c] \in Seq(Nat) /\ \A k \in DOMAIN queue[c] : queue[c][k] \in DOMAIN stream
    BY <1>0 DEF LoopsOK
  <2>3. CASE queue'[c] = queue[c]
    BY <1>1, <2>2, <2>3
  <2>4. CASE queue'[c] = Append(queue[c], n)
    <3>1. /\ Append(queue[c], n) \in Seq(Nat)
          /\ \A k \in DOMAIN Append(queue[c], n) :
               \/ Append(queue[c], n)[k] = n
               \/ k \in DOMAIN queue[c] /\ Append(queue[c], n)[k] = queue[c][k]
      BY <1>1, <2>2
    <3> QED BY <1>1, <2>2, <2>4, <3>1
  <2> QED BY <2>1, <2>3, <2>4
<1>3. SendersOK'
  BY <1>0, <1>1 DEF SendersOK
<1>4. LoopsOK'
  <2>1. queue' \in [Subs -> Seq(Nat)]
    BY <1>2 DEF Store
  <2>2. /\ busy \in [Subs -> Nat]
        /\ \A c \in Subs : busy[c] # 0 =>
             /\ busy[c] \in DOMAIN stream' /\ stream'[busy[c]] = stream[busy[c]]
             /\ Called(stream[busy[c]].id)
    BY <1>0, <1>1 DEF LoopsOK
  <2>3. \A id : Called(id)' <=> Called(id)
    BY DEF Called
  <2> QED BY <1>0, <1>2, <2>1, <2>2, <2>3 DEF LoopsOK
<1>5. Window' /\ RepeatNeedsEviction'
  BY DEF BusInv, Window, RepeatNeedsEviction
<1> QED BY <1>3, <1>4, <1>5 DEF BusInv

LEMMA SenderSteps ==
  ASSUME BusInv, SenderStep
  PROVE  BusInv'
<1>0. SendersOK /\ LoopsOK
  BY DEF BusInv
<1>1. ASSUME NEW s \in Senders, NEW body \in Bodies, Publish(s, body) PROVE BusInv'
  <2>1. KeyOf(s) \in Nat
    BY <1>0, BusAssumption DEF SendersOK, KeyOf, Keeps
  <2>2. PICK id \in EnvelopeIds \cup {NoId} :
          LET e == SignWith(ArmOf[s], Create(id, NameOf[s], body), KeyOf(s)) IN
            /\ hand' = [hand EXCEPT ![s] = @ \cup {e}]
            /\ privCache' = [privCache EXCEPT ![s] = IF Keeps(s) THEN KeyOf(s) ELSE @]
            /\ Store(e)
            /\ UNCHANGED <<pem, busy, seen, calls, taken>>
    BY <1>1 DEF Publish, NewIds
  <2>3. SignWith(ArmOf[s], Create(id, NameOf[s], body), KeyOf(s)) \in Messages
    BY <2>1, BusAssumption DEF Messages
  <2>4. hand' \in [Senders -> SUBSET Messages] /\ privCache' \in [Senders -> Nat]
    BY <1>0, <2>1, <2>2, <2>3 DEF SendersOK, Keeps
  <2> QED BY <2>2, <2>3, <2>4, StoreStep
<1>2. ASSUME NEW s \in Senders, PublishAgain(s) PROVE BusInv'
  <2>1. PICK m \in hand[s] : Store(m)
    BY <1>2 DEF PublishAgain
  <2>2. m \in Messages
    BY <1>0 DEF SendersOK
  <2> QED BY <1>0, <1>2, <2>1, <2>2, StoreStep DEF PublishAgain, SendersOK
<1>3. CASE PublishGarbled
  <2>1. Garbled \in Messages
    BY DEF Messages
  <2> QED BY <1>0, <1>3, <2>1, StoreStep DEF PublishGarbled, SendersOK
<1>4. ASSUME NEW s \in Senders, RestartSender(s) PROVE BusInv'
  <2>1. SendersOK'
    BY <1>0, <1>4 DEF SendersOK, RestartSender
  <2>2. LoopsOK' /\ Window' /\ RepeatNeedsEviction'
    BY <1>4 DEF RestartSender, BusInv, LoopsOK, Called, Window, RepeatNeedsEviction
  <2> QED BY <2>1, <2>2 DEF BusInv
<1>5. ASSUME NEW a \in Names, RotatePrivate(a) \/ InstallPublic(a) PROVE BusInv'
  <2>1. SendersOK'
    BY <1>0, <1>5 DEF SendersOK, RotatePrivate, InstallPublic
  <2>2. UNCHANGED <<stream, queue, busy, seen, calls, taken>>
    BY <1>5 DEF RotatePrivate, InstallPublic
  <2>3. LoopsOK' /\ Window' /\ RepeatNeedsEviction'
    BY <2>2 DEF BusInv, LoopsOK, Called, Window, RepeatNeedsEviction
  <2> QED BY <2>1, <2>3 DEF BusInv
<1> QED BY <1>1, <1>2, <1>3, <1>4, <1>5 DEF SenderStep

LEMMA QueueSteps ==
  ASSUME BusInv, NEW c \in Subs,
         Subscribe(c) \/ Unsubscribe(c) \/ Redeliver(c) \/ Reject(c) \/ Drop(c)
  PROVE  BusInv'
<1>0. SendersOK /\ LoopsOK
  BY DEF BusInv
<1>1. UNCHANGED <<stream, hand, pem, privCache, busy, seen, calls, taken>>
  BY DEF Subscribe, Unsubscribe, Redeliver, Reject, Drop
<1>2. ASSUME NEW q \in Seq(Nat), \A k \in DOMAIN q : q[k] \in DOMAIN stream,
             queue' = [queue EXCEPT ![c] = q]
      PROVE  BusInv'
  <2>1. queue' \in [Subs -> Seq(Nat)]
    BY <1>0, <1>2 DEF LoopsOK
  <2>2. ASSUME NEW d \in Subs PROVE \A k \in DOMAIN queue'[d] : queue'[d][k] \in DOMAIN stream
    <3>1. queue'[d] = IF d = c THEN q ELSE queue[d]
      BY <1>0, <1>2 DEF LoopsOK
    <3> QED BY <1>0, <1>2, <3>1 DEF LoopsOK
  <2> QED BY <1>1, <2>1, <2>2, QueueMoves
<1> DEFINE q == queue[c]
<1>3. q \in Seq(Nat) /\ \A k \in DOMAIN q : q[k] \in DOMAIN stream
  BY <1>0 DEF LoopsOK
<1> HIDE DEF q
<1>4. CASE Subscribe(c)
  <2>1. [n \in DOMAIN stream |-> n] \in Seq(Nat)
    BY <1>0, BusSeq
  <2>2. <<>> \in Seq(Nat) /\ DOMAIN <<>> = {}
    BY EmptySeq
  <2>3. \/ queue' = [queue EXCEPT ![c] = [n \in DOMAIN stream |-> n]]
        \/ queue' = [queue EXCEPT ![c] = <<>>]
    BY <1>4 DEF Subscribe
  <2> QED BY <1>2, <2>1, <2>2, <2>3
<1>5. CASE Unsubscribe(c)
  <2>1. <<>> \in Seq(Nat) /\ DOMAIN <<>> = {}
    BY EmptySeq
  <2>2. queue' = [queue EXCEPT ![c] = <<>>]
    BY <1>5 DEF Unsubscribe
  <2> QED BY <1>2, <2>1, <2>2
<1>6. CASE Redeliver(c)
  <2>1. PICK n \in {busy[c]} \cup {q[k] : k \in DOMAIN q} :
          n # 0 /\ queue' = [queue EXCEPT ![c] = Append(q, n)]
    BY <1>6 DEF Redeliver, q
  <2>2. n \in DOMAIN stream /\ n \in Nat
    BY <1>0, <1>3, <2>1, BusSeq DEF LoopsOK
  <2>3. Append(q, n) \in Seq(Nat) /\ \A k \in DOMAIN Append(q, n) : Append(q, n)[k] \in DOMAIN stream
    <3>1. /\ Append(q, n) \in Seq(Nat)
          /\ \A k \in DOMAIN Append(q, n) :
               \/ Append(q, n)[k] = n
               \/ k \in DOMAIN q /\ Append(q, n)[k] = q[k]
      BY <1>3, <2>2
    <3> QED BY <1>3, <2>2, <3>1
  <2> QED BY <1>2, <2>1, <2>3
<1>7. CASE Reject(c)
  <2>1. q # <<>> /\ queue' = [queue EXCEPT ![c] = Append(Tail(q), Head(q))]
    BY <1>7 DEF Reject, Ready, Nak, q
  <2>2. /\ Append(Tail(q), Head(q)) \in Seq(Nat)
        /\ \A k \in DOMAIN Append(Tail(q), Head(q)) :
             \E l \in DOMAIN q : Append(Tail(q), Head(q))[k] = q[l]
    BY <1>3, <2>1, RotationOf
  <2> QED BY <1>2, <1>3, <2>1, <2>2
<1>8. CASE Drop(c)
  <2>1. q # <<>> /\ queue' = [queue EXCEPT ![c] = Tail(q)]
    BY <1>8 DEF Drop, Ready, Ack, q
  <2>2. Tail(q) \in Seq(Nat) /\ \A k \in DOMAIN Tail(q) : \E l \in DOMAIN q : Tail(q)[k] = q[l]
    BY <1>3, <2>1, TailOf
  <2> QED BY <1>2, <1>3, <2>1, <2>2
<1> QED BY <1>4, <1>5, <1>6, <1>7, <1>8

\* An id that is in the window was called.
LEMMA SeenWasCalled ==
  ASSUME Window, NEW id, InSeen(id) PROVE Called(id)
<1>1. PICK k \in DOMAIN seen : seen[k] = id
  BY DEF InSeen
<1>2. /\ Len(seen) \in Nat /\ DOMAIN seen = 1 .. Len(seen)
      /\ Len(calls) \in Nat /\ DOMAIN calls = 1 .. Len(calls)
  BY LenProperties DEF Window
<1>3. Len(seen) <= Len(calls)
  BY DEF Window
<1> DEFINE n == Len(calls)
           w == Len(seen)
<1> HIDE DEF n, w
<1>4. n - w + k \in 1 .. n
  <2>1. n \in Nat /\ w \in Nat /\ w <= n /\ k \in 1 .. w
    BY <1>1, <1>2, <1>3 DEF n, w
  <2> QED BY <2>1
<1>5. Len(calls) - Len(seen) + k \in DOMAIN calls
  BY <1>2, <1>4, Zenon DEF n, w
<1>6. calls[Len(calls) - Len(seen) + k] = id
  BY <1>1, <1>2, Zenon DEF Window
<1> QED BY <1>5, <1>6 DEF Called

\* The message that a loop is at.
LEMMA CurrentMessage ==
  ASSUME BusInv, NEW c \in Subs, Ready(c)
  PROVE  /\ queue[c] \in Seq(Nat) /\ queue[c] # <<>>
         /\ Head(queue[c]) \in DOMAIN stream \ {0}
         /\ Current(c).id \in MessageIds
<1>1. queue[c] \in Seq(Nat) /\ queue[c] # <<>>
  BY DEF BusInv, LoopsOK, Ready
<1>2. Head(queue[c]) = queue[c][1] /\ 1 \in DOMAIN queue[c]
  BY <1>1, TailOf
<1>3. Head(queue[c]) \in DOMAIN stream
  BY <1>2 DEF BusInv, LoopsOK
<1> QED BY <1>1, <1>3, BusSeq DEF BusInv, Current

\* A queue without its first message.
LEMMA QueueTail ==
  ASSUME BusInv, NEW c \in Subs, Ready(c), queue' = [queue EXCEPT ![c] = Tail(@)]
  PROVE  /\ queue' \in [Subs -> Seq(Nat)]
         /\ \A d \in Subs : \A k \in DOMAIN queue'[d] : queue'[d][k] \in DOMAIN stream
<1>1. queue[c] \in Seq(Nat) /\ queue[c] # <<>> /\ queue \in [Subs -> Seq(Nat)]
  BY CurrentMessage DEF BusInv, LoopsOK
<1>2. Tail(queue[c]) \in Seq(Nat)
      /\ \A k \in DOMAIN Tail(queue[c]) :
           k + 1 \in DOMAIN queue[c] /\ Tail(queue[c])[k] = queue[c][k + 1]
  BY <1>1, TailOf
<1>3. queue' \in [Subs -> Seq(Nat)]
  BY <1>1, <1>2
<1>4. ASSUME NEW d \in Subs PROVE \A k \in DOMAIN queue'[d] : queue'[d][k] \in DOMAIN stream
  <2>1. \A k \in DOMAIN queue[d] : queue[d][k] \in DOMAIN stream
    BY DEF BusInv, LoopsOK
  <2>2. CASE d = c
    <3>1. queue'[d] = Tail(queue[c])
      BY <1>1, <2>2
    <3> QED BY <1>2, <2>1, <2>2, <3>1
  <2>3. CASE d # c
    <3>1. queue'[d] = queue[d]
      BY <1>1, <2>3
    <3> QED BY <2>1, <3>1
  <2> QED BY <2>2, <2>3
<1> QED BY <1>3, <1>4

LEMMA DuplicateStep ==
  ASSUME BusInv, NEW c \in Subs, DropDuplicate(c) PROVE BusInv'
<1>1. /\ Ready(c) /\ ~Fresh(Current(c).id)
      /\ queue' = [queue EXCEPT ![c] = Tail(@)]
      /\ taken' = [taken EXCEPT ![c] = @ \cup {Current(c).id}]
      /\ UNCHANGED <<stream, hand, pem, privCache, busy, seen, calls>>
  BY DEF DropDuplicate, Ack
<1>2. Current(c).id = NoId \/ Called(Current(c).id)
  BY <1>1, SeenWasCalled DEF BusInv, Fresh
<1>3. Current(c).id \in MessageIds
  BY <1>1, CurrentMessage
<1>4. LoopsOK
  BY DEF BusInv
<1>5. /\ queue' \in [Subs -> Seq(Nat)]
      /\ \A d \in Subs : \A k \in DOMAIN queue'[d] : queue'[d][k] \in DOMAIN stream
  BY <1>1, QueueTail
<1>6. /\ taken' \in [Subs -> SUBSET MessageIds]
      /\ \A d \in Subs : \A id \in taken'[d] : id = NoId \/ Called(id)
  BY <1>1, <1>2, <1>3, <1>4 DEF LoopsOK
<1>7. LoopsOK'
  BY <1>1, <1>4, <1>5, <1>6 DEF LoopsOK, Called
<1>8. SendersOK' /\ Window' /\ RepeatNeedsEviction'
  BY <1>1 DEF BusInv, SendersOK, Window, RepeatNeedsEviction
<1> QED BY <1>7, <1>8 DEF BusInv

\* A call is remembered: the window moves on by one.
LEMMA WindowMoves ==
  ASSUME Window, RepeatNeedsEviction, NEW id \in MessageIds, ~InSeen(id),
         Remember(id), calls' = Append(calls, id)
  PROVE  Window' /\ RepeatNeedsEviction'
<1> DEFINE n == Len(calls)
           w == Len(seen)
<1>1. /\ seen \in Seq(MessageIds) /\ calls \in Seq(MessageIds)
      /\ n \in Nat /\ DOMAIN calls = 1 .. n /\ w \in Nat /\ DOMAIN seen = 1 .. w
      /\ w <= DedupeMax /\ w <= n /\ (w < DedupeMax => w = n)
      /\ DedupeMax \in Nat \ {0}
  BY LenProperties, BusAssumption DEF Window
<1>2. \A k \in 1 .. w : seen[k] = calls[n - w + k]
  BY DEF Window
<1> DEFINE longer == Append(calls, id)
<1>a. /\ longer \in Seq(MessageIds) /\ Len(longer) = n + 1 /\ DOMAIN longer = 1 .. n + 1
      /\ \A i \in 1 .. n : longer[i] = calls[i]
      /\ longer[n + 1] = id
  <2>1. calls \in Seq(MessageIds)
    BY <1>1
  <2> QED BY <2>1, AppendOf
<1>b. calls' = longer
  OBVIOUS
<1> HIDE DEF n, w, longer
<1>3. /\ calls' \in Seq(MessageIds) /\ Len(calls') = n + 1 /\ DOMAIN calls' = 1 .. n + 1
      /\ \A i \in 1 .. n : calls'[i] = calls[i]
      /\ calls'[n + 1] = id
  BY <1>a, <1>b, Zenon
<1>4. Window'
  <2>1. CASE w < DedupeMax
    <3>1. seen' = Append(seen, id)
      BY <2>1 DEF Remember, w
    <3>2. /\ seen' \in Seq(MessageIds) /\ Len(seen') = w + 1
          /\ \A k \in 1 .. w : seen'[k] = seen[k]
          /\ seen'[w + 1] = id
      <4>1. seen \in Seq(MessageIds)
        BY <1>1
      <4>2. /\ Append(seen, id) \in Seq(MessageIds) /\ Len(Append(seen, id)) = w + 1
            /\ \A k \in 1 .. w : Append(seen, id)[k] = seen[k]
            /\ Append(seen, id)[w + 1] = id
        BY <4>1, AppendOf DEF w
      <4> QED BY <3>1, <4>2, Zenon
    <3>3. ASSUME NEW k \in 1 .. w + 1 PROVE seen'[k] = calls'[(n + 1) - (w + 1) + k]
      <4>1. w = n /\ (n + 1) - (w + 1) + k = k
        BY <1>1, <2>1
      <4>2. CASE k \in 1 .. w
        <5>1. n - w + k = k /\ k \in 1 .. n
          BY <1>1, <4>1, <4>2
        <5>2. seen[k] = calls[k]
          BY <1>2, <4>2, <5>1, Zenon
        <5> QED BY <1>3, <3>2, <4>1, <4>2, <5>1, <5>2, Zenon
      <4>3. CASE k = n + 1
        BY <1>3, <3>2, <4>1, <4>3, Zenon
      <4>4. k \in 1 .. w \/ k = n + 1
        BY <1>1, <4>1
      <4> QED BY <4>2, <4>3, <4>4, Zenon
    <3>4. /\ w + 1 <= DedupeMax /\ w + 1 <= n + 1
          /\ w + 1 < DedupeMax => w + 1 = n + 1
      BY <1>1, <2>1
    <3> QED BY <1>3, <3>2, <3>3, <3>4, Zenon DEF Window
  <2>2. CASE w = DedupeMax
    <3>1. seen' = Append(Tail(seen), id) /\ seen # <<>>
      BY <1>1, <2>2 DEF Remember, w
    <3>2. /\ Tail(seen) \in Seq(MessageIds) /\ Len(Tail(seen)) = w - 1
          /\ \A k \in 1 .. w - 1 : Tail(seen)[k] = seen[k + 1]
      <4>1. /\ Tail(seen) \in Seq(MessageIds) /\ Len(Tail(seen)) = Len(seen) - 1
            /\ \A k \in DOMAIN Tail(seen) : Tail(seen)[k] = seen[k + 1]
        BY <1>1, <3>1, TailOf, Zenon
      <4>2. DOMAIN Tail(seen) = 1 .. Len(seen) - 1
        BY <4>1, LenProperties, Zenon
      <4> QED BY <4>1, <4>2, Zenon DEF w
    <3>3. /\ seen' \in Seq(MessageIds) /\ Len(seen') = w
          /\ \A k \in 1 .. w - 1 : seen'[k] = seen[k + 1]
          /\ seen'[w] = id
      BY <1>1, <2>2, <3>1, <3>2
    <3>4. ASSUME NEW k \in 1 .. w PROVE seen'[k] = calls'[(n + 1) - w + k]
      <4>1. CASE k = w
        <5>1. (n + 1) - w + k = n + 1
          BY <1>1, <4>1
        <5> QED BY <1>3, <3>3, <4>1, <5>1
      <4>2. CASE k \in 1 .. w - 1
        <5>1. /\ (n + 1) - w + k = n - w + (k + 1) /\ n - w + (k + 1) \in 1 .. n
              /\ k + 1 \in 1 .. w
          BY <1>1, <4>2
        <5>2. seen'[k] = calls[n - w + (k + 1)]
          BY <1>2, <3>3, <4>2, <5>1
        <5> QED BY <1>3, <5>1, <5>2
      <4>3. k = w \/ k \in 1 .. w - 1
        BY <1>1
      <4> QED BY <4>1, <4>2, <4>3, Zenon
    <3>5. /\ w <= DedupeMax /\ w <= n + 1
          /\ w < DedupeMax => w = n + 1
      BY <1>1, <2>2
    <3> QED BY <1>3, <3>3, <3>4, <3>5, Zenon DEF Window
  <2> QED BY <1>1, <2>1, <2>2
<1>5. RepeatNeedsEviction'
  <2> SUFFICES ASSUME NEW i \in 1 .. n + 1, NEW j \in 1 .. n + 1, i < j, calls'[i] = calls'[j]
               PROVE  j - i > DedupeMax
    BY <1>3 DEF RepeatNeedsEviction
  <2>1. CASE j \in 1 .. n
    <3>1. i \in 1 .. n /\ calls[i] = calls[j]
      BY <1>1, <1>3, <2>1
    <3> QED BY <1>1, <2>1, <3>1 DEF RepeatNeedsEviction
  <2>2. CASE j = n + 1
    <3>1. i \in 1 .. n /\ calls[i] = id
      BY <1>1, <1>3, <2>2
    <3>2. ASSUME i > n - w PROVE FALSE
      <4>1. /\ i - (n - w) \in 1 .. w /\ n - w + (i - (n - w)) = i
        BY <1>1, <3>1, <3>2
      <4>2. seen[i - (n - w)] = id
        BY <1>2, <3>1, <4>1
      <4> QED BY <1>1, <4>1, <4>2 DEF InSeen
    <3>3. i <= n - w
      BY <1>1, <3>2
    <3> QED BY <1>1, <2>2, <3>1, <3>3
  <2> QED BY <1>1, <2>1, <2>2
<1> QED BY <1>4, <1>5

LEMMA ReceiveStep ==
  ASSUME BusInv, NEW c \in Subs, Receive(c) PROVE BusInv'
<1> DEFINE id == Current(c).id
<1>1. /\ Ready(c) /\ ~InSeen(id) /\ id # NoId /\ Remember(id) /\ calls' = Append(calls, id)
      /\ busy' = [busy EXCEPT ![c] = Head(queue[c])]
      /\ queue' = [queue EXCEPT ![c] = Tail(@)]
      /\ UNCHANGED <<stream, hand, pem, privCache, taken>>
  BY DEF Receive, Fresh
<1>2. id \in MessageIds /\ Head(queue[c]) \in DOMAIN stream \ {0}
  BY <1>1, CurrentMessage
<1>3. LoopsOK /\ Window /\ SendersOK
  BY DEF BusInv
<1>4. id = stream[Head(queue[c])].id
  BY DEF Current
<1> HIDE DEF id
<1>5. Window' /\ RepeatNeedsEviction'
  BY <1>1, <1>2, WindowMoves DEF BusInv
<1>6. /\ \E k \in DOMAIN calls' : calls'[k] = id
      /\ \A x \in MessageIds : Called(x) => \E k \in DOMAIN calls' : calls'[k] = x
      /\ ~\E k \in DOMAIN calls' : calls'[k] = NoId
  <2>1. calls \in Seq(MessageIds)
    BY <1>3 DEF Window
  <2>2. /\ Len(calls) \in Nat /\ DOMAIN calls = 1 .. Len(calls)
        /\ DOMAIN Append(calls, id) = 1 .. Len(calls) + 1
        /\ \A k \in 1 .. Len(calls) : Append(calls, id)[k] = calls[k]
        /\ Append(calls, id)[Len(calls) + 1] = id
    BY <1>2, <2>1, AppendOf
  <2>3. \E k \in DOMAIN Append(calls, id) : Append(calls, id)[k] = id
    BY <2>2
  <2>4. ASSUME NEW x \in MessageIds, NEW k \in DOMAIN calls, calls[k] = x
        PROVE  \E l \in DOMAIN Append(calls, id) : Append(calls, id)[l] = x
    BY <2>2, <2>4
  <2>5. calls' = Append(calls, id)
    BY <1>1
  <2>6. ASSUME NEW k \in DOMAIN Append(calls, id) PROVE Append(calls, id)[k] # NoId
    <3>1. \A l \in 1 .. Len(calls) : calls[l] # NoId
      BY <1>3, <2>2 DEF LoopsOK, Called
    <3> QED BY <1>1, <2>2, <3>1
  <2> QED BY <2>3, <2>4, <2>5, <2>6, Zenon DEF Called
<1>7. /\ queue' \in [Subs -> Seq(Nat)]
      /\ \A d \in Subs : \A k \in DOMAIN queue'[d] : queue'[d][k] \in DOMAIN stream
  BY <1>1, QueueTail
<1>8. Head(queue[c]) \in Nat
  BY <1>2, <1>3, BusSeq
<1>9. busy' \in [Subs -> Nat]
  BY <1>1, <1>3, <1>8 DEF LoopsOK
<1>10. ASSUME NEW d \in Subs, busy'[d] # 0
       PROVE  /\ busy'[d] \in DOMAIN stream
              /\ \E k \in DOMAIN calls' : calls'[k] = stream[busy'[d]].id
  <2>1. CASE d = c
    <3>1. busy'[d] = Head(queue[c])
      BY <1>1, <1>3, <2>1 DEF LoopsOK
    <3>2. stream[busy'[d]].id = id
      BY <1>4, <3>1
    <3> QED BY <1>2, <1>6, <3>1, <3>2, Zenon
  <2>2. CASE d # c
    <3>1. busy'[d] = busy[d]
      BY <1>1, <1>3, <2>2 DEF LoopsOK
    <3>2. busy[d] \in DOMAIN stream /\ Called(stream[busy[d]].id)
      BY <1>3, <1>10, <3>1 DEF LoopsOK
    <3>3. stream[busy[d]].id \in MessageIds
      BY <1>3, <3>2, BusSeq
    <3> QED BY <1>6, <3>1, <3>2, <3>3, Zenon
  <2> QED BY <2>1, <2>2
<1>11. LoopsOK'
  <2>1. stream' = stream /\ taken' = taken
    BY <1>1
  <2>2. /\ taken \in [Subs -> SUBSET MessageIds]
        /\ \A d \in Subs : \A x \in taken[d] :
             x = NoId \/ \E k \in DOMAIN calls' : calls'[k] = x
    BY <1>3, <1>6 DEF LoopsOK
  <2> QED BY <1>6, <1>7, <1>9, <1>10, <2>1, <2>2 DEF LoopsOK, Called
<1>12. SendersOK'
  BY <1>1, <1>3 DEF SendersOK
<1> QED BY <1>5, <1>11, <1>12 DEF BusInv

LEMMA ReturnStep ==
  ASSUME BusInv, NEW c \in Subs, HandlerReturns(c) PROVE BusInv'
<1>1. /\ busy[c] # 0 /\ busy' = [busy EXCEPT ![c] = 0]
      /\ taken' = [taken EXCEPT ![c] = @ \cup {stream[busy[c]].id}]
      /\ UNCHANGED <<stream, hand, pem, privCache, queue, seen, calls>>
  BY DEF HandlerReturns
<1>2. LoopsOK /\ SendersOK
  BY DEF BusInv
<1>3. Called(stream[busy[c]].id) /\ busy[c] \in DOMAIN stream
  BY <1>1, <1>2 DEF LoopsOK
<1>4. stream[busy[c]].id \in MessageIds
  BY <1>2, <1>3, BusSeq
<1>5. /\ taken' \in [Subs -> SUBSET MessageIds]
      /\ \A d \in Subs : \A id \in taken'[d] : id = NoId \/ Called(id)
  BY <1>1, <1>2, <1>3, <1>4 DEF LoopsOK
<1>6. /\ busy' \in [Subs -> Nat]
      /\ \A d \in Subs : busy'[d] # 0 => busy'[d] = busy[d]
  BY <1>1, <1>2 DEF LoopsOK
<1>7. LoopsOK'
  BY <1>1, <1>2, <1>5, <1>6 DEF LoopsOK, Called
<1>8. SendersOK' /\ Window' /\ RepeatNeedsEviction'
  BY <1>1 DEF BusInv, SendersOK, Window, RepeatNeedsEviction
<1> QED BY <1>7, <1>8 DEF BusInv

LEMMA ThrowStep ==
  ASSUME BusInv, NEW c \in Subs, HandlerThrows(c) PROVE BusInv'
<1>1. /\ busy[c] # 0 /\ busy' = [busy EXCEPT ![c] = 0]
      /\ queue' = [queue EXCEPT ![c] = IF c \in Live THEN Append(@, busy[c]) ELSE @]
      /\ UNCHANGED <<stream, hand, pem, privCache, taken, seen, calls>>
  BY DEF HandlerThrows
<1>2. LoopsOK
  BY DEF BusInv
<1> DEFINE q == queue[c]
           n == busy[c]
<1>3. /\ n \in DOMAIN stream /\ n \in Nat /\ q \in Seq(Nat)
      /\ \A k \in DOMAIN q : q[k] \in DOMAIN stream
  BY <1>1, <1>2 DEF LoopsOK
<1>4. queue' = [queue EXCEPT ![c] = Append(q, n)] \/ queue' = [queue EXCEPT ![c] = q]
  BY <1>1
<1> HIDE DEF q, n
<1>5. /\ Append(q, n) \in Seq(Nat)
      /\ \A k \in DOMAIN Append(q, n) :
           \/ Append(q, n)[k] = n
           \/ k \in DOMAIN q /\ Append(q, n)[k] = q[k]
  BY <1>3
<1>6. PICK r \in Seq(Nat) :
        queue' = [queue EXCEPT ![c] = r] /\ \A k \in DOMAIN r : r[k] \in DOMAIN stream
  BY <1>3, <1>4, <1>5
<1>7. /\ queue' \in [Subs -> Seq(Nat)]
      /\ \A d \in Subs : \A k \in DOMAIN queue'[d] : queue'[d][k] \in DOMAIN stream
  <2>1. queue' \in [Subs -> Seq(Nat)]
    BY <1>2, <1>6 DEF LoopsOK
  <2>2. \A d \in Subs : queue'[d] = IF d = c THEN r ELSE queue[d]
    BY <1>2, <1>6 DEF LoopsOK
  <2> QED BY <1>2, <1>6, <2>1, <2>2 DEF LoopsOK
<1>8. /\ busy' \in [Subs -> Nat]
      /\ \A d \in Subs : busy'[d] # 0 => busy'[d] = busy[d]
  BY <1>1, <1>2 DEF LoopsOK
<1>9. LoopsOK'
  BY <1>1, <1>2, <1>7, <1>8 DEF LoopsOK, Called
<1>10. SendersOK' /\ Window' /\ RepeatNeedsEviction'
  BY <1>1 DEF BusInv, SendersOK, Window, RepeatNeedsEviction
<1> QED BY <1>9, <1>10 DEF BusInv

\* Nothing has been received: true at the start, and after a restart.
LEMMA FreshReceiver ==
  ASSUME SendersOK, queue = [c \in Subs |-> <<>>], busy = [c \in Subs |-> 0],
         seen = <<>>, calls = <<>>, taken = [c \in Subs |-> {}]
  PROVE  BusInv
<1>1. <<>> \in Seq(Nat) /\ <<>> \in Seq(MessageIds) /\ DOMAIN <<>> = {} /\ Len(<<>>) = 0
  BY EmptySeq
<1>2. LoopsOK
  BY <1>1 DEF LoopsOK, Called
<1>3. Window
  BY <1>1, BusAssumption DEF Window
<1>4. RepeatNeedsEviction
  BY <1>1 DEF RepeatNeedsEviction
<1> QED BY <1>2, <1>3, <1>4 DEF BusInv

LEMMA BusStarts == BusInit => BusInv
<1> SUFFICES ASSUME BusInit PROVE BusInv
  OBVIOUS
<1>1. SendersOK
  BY EmptySeq DEF BusInit, SendersOK
<1> QED BY <1>1, FreshReceiver DEF BusInit

LEMMA RestartStep == BusInv /\ RestartReceiver => BusInv'
<1> SUFFICES ASSUME BusInv, RestartReceiver PROVE BusInv'
  OBVIOUS
<1>1. SendersOK'
  BY DEF BusInv, SendersOK, RestartReceiver
<1>2. <<>> \in Seq(Nat) /\ <<>> \in Seq(MessageIds) /\ DOMAIN <<>> = {} /\ Len(<<>>) = 0
  BY EmptySeq
<1>3. LoopsOK'
  BY <1>2 DEF LoopsOK, Called, RestartReceiver
<1>4. Window'
  BY <1>2, BusAssumption DEF Window, RestartReceiver
<1>5. RepeatNeedsEviction'
  BY <1>2 DEF RepeatNeedsEviction, RestartReceiver
<1> QED BY <1>1, <1>3, <1>4, <1>5 DEF BusInv

LEMMA BusInductive == BusInv /\ [BusNext]_busVars => BusInv'
<1> SUFFICES ASSUME BusInv, [BusNext]_busVars PROVE BusInv'
  OBVIOUS
<1>1. CASE UNCHANGED busVars
  BY <1>1 DEF busVars, BusInv, SendersOK, LoopsOK, Called, Window, RepeatNeedsEviction
<1>2. CASE SenderStep
  BY <1>2, SenderSteps
<1>3. ASSUME NEW c \in Subs,
             \/ Subscribe(c) \/ Unsubscribe(c) \/ Redeliver(c)
             \/ Loop(c) \/ HandlerReturns(c) \/ HandlerThrows(c)
      PROVE  BusInv'
  BY <1>3, QueueSteps, DuplicateStep, ReceiveStep, ReturnStep, ThrowStep DEF Loop
<1>4. CASE RestartReceiver
  BY <1>4, RestartStep
<1> QED BY <1>1, <1>2, <1>3, <1>4 DEF BusNext, ReceiverStep

LEMMA BusInvariant == BusSpec => []BusInv
<1> QED BY BusStarts, BusInductive, PTL DEF BusSpec

\* The handlers of a process see an id again only after more than DEDUPE_MAX
\* others, however many subscriptions, deliveries and failures there are: the
\* Set of seen ids (signed-bus-client.js:67) is a window on the calls.
THEOREM RepeatsAreEvictions == BusSpec => []RepeatNeedsEviction
<1>1. BusInv => RepeatNeedsEviction
  BY DEF BusInv
<1> QED BY <1>1, BusInvariant, PTL

\* A valid message that a loop acknowledges was given to a handler of this
\* process, here or in another subscription, if it has an id, and to none if it
\* has not (signed-bus-client.js:64,184).
THEOREM NoSilentAck == BusSpec => []AckedWasCalled
<1>1. BusInv => AckedWasCalled
  BY DEF BusInv, LoopsOK, Called, AckedWasCalled
<1> QED BY <1>1, BusInvariant, PTL

(* The arms: the bytes are the same exactly where the features of the body    *)
(* make them so.                                                             *)

LEMMA OrdersAlike ==
  ASSUME NEW keys \in SUBSET BodyKeys
  PROVE  JsOrder(keys) = RustOrder(keys) <=> SameOrder(keys)
<1>1. /\ \A k \in keys : Utf16[k] \in Nat /\ Utf8[k] \in Nat
      /\ \A k, l \in keys : k # l => Utf16[k] # Utf16[l] /\ Utf8[k] # Utf8[l]
      /\ \A k \in keys \cap DOMAIN Number : Number[k] \in Nat
  BY OrderAssumption
<1>2. ASSUME SameOrder(keys), NEW k \in keys, NEW l \in keys
      PROVE  JsBefore(k, l) <=> RustBefore(k, l)
  BY <1>1, <1>2 DEF SameOrder, JsBefore, RustBefore
<1>3. ASSUME \A k, l \in keys : JsBefore(k, l) <=> RustBefore(k, l)
      PROVE  SameOrder(keys)
  BY <1>3 DEF SameOrder, JsBefore, RustBefore
<1>4. JsOrder(keys) = RustOrder(keys) <=>
        \A k, l \in keys : JsBefore(k, l) <=> RustBefore(k, l)
  <2>1. ASSUME JsOrder(keys) = RustOrder(keys), NEW k \in keys, NEW l \in keys
        PROVE  JsBefore(k, l) <=> RustBefore(k, l)
    <3>1. <<k, l>> \in JsOrder(keys) <=> JsBefore(k, l)
      BY DEF JsOrder
    <3>2. <<k, l>> \in RustOrder(keys) <=> RustBefore(k, l)
      BY DEF RustOrder
    <3> QED BY <2>1, <3>1, <3>2
  <2>2. ASSUME \A k, l \in keys : JsBefore(k, l) <=> RustBefore(k, l)
        PROVE  JsOrder(keys) = RustOrder(keys)
    BY <2>2 DEF JsOrder, RustOrder
  <2> QED BY <2>1, <2>2
<1> QED BY <1>2, <1>3, <1>4

LEMMA CanonicalAlike ==
  ASSUME NEW e, e.body \in Body
  PROVE  JsCanonical(e) = RustCanonical(e) <=> SameBytes(e.body)
<1>1. e.body.keys \in SUBSET BodyKeys
  BY DEF Body
<1>2. JsOrder(e.body.keys) = RustOrder(e.body.keys) <=> SameOrder(e.body.keys)
  BY <1>1, OrdersAlike
<1>3. Printed("js", e.body) = Printed("rust", e.body) <=> e.body.numbers = "alike"
  BY DEF Printed
<1> QED BY <1>2, <1>3 DEF JsCanonical, RustCanonical, SameBytes

LEMMA MessageBody ==
  ASSUME NEW m \in Messages, m # Garbled
  PROVE  m.body \in Body
<1>1. PICK arm \in Arms, id \in EnvelopeIds \cup {NoId}, from \in Names, body \in Body,
           key \in Nat :
        m = SignWith(arm, Create(id, from, body), key)
  BY DEF Messages
<1> QED BY <1>1 DEF SignWith, Create

LEMMA Verdicts ==
  ASSUME NEW m, m.body \in Body, NEW key
  PROVE  /\ SameBytes(m.body) => (NativeVerify(m, key) <=> JsVerify(m, key))
         /\ SameBytes(m.body) /\ SameScan(m.body) =>
              (RustVerify(m, key) <=> JsVerify(m, key))
         /\ ~SameBytes(m.body) =>
              ~NativeVerify(m, key) /\ ~(JsVerify(m, key) /\ RustVerify(m, key))
<1>1. JsCanonical(m) = RustCanonical(m) <=> SameBytes(m.body)
  BY CanonicalAlike
<1> QED BY <1>1 DEF NativeVerify, AddonVerify, RustVerify, JsVerify, SameScan

\* For any keys, orders, numbers and scans: the arms judge an envelope alike where
\* the languages make the same bytes of its body and scan it alike; where the
\* bytes differ nobody's signature passes both, and none passes the loader
\* (envelope-loader.js:23, lib.rs:286).
THEOREM ArmsAreAlike == BusSpec => []ArmsAgree
<1>1. BusInv => ArmsAgree
  BY BusSeq, MessageBody, Verdicts DEF BusInv, ArmsAgree
<1> QED BY <1>1, BusInvariant, PTL
-----------------------------------------------------------------------------
(* The hooks: every list of bytes, on disk or in somebody's hands, holds     *)
(* what an operator has granted once; and a file that nobody installs keeps  *)
(* its bytes from the check to the spawn.                                    *)

Granted(list) == \A h \in HookIds : list[h] # 0 => <<h, list[h]>> \in granted

HooksInv ==
  /\ allow \in [HookIds -> Nat] /\ consent \in [HookIds -> Nat]
  /\ \A o \in Operators : copy[o] = <<>> \/ copy[o] \in [HookIds -> Nat]
  /\ copy \in [Operators -> {<<>>} \cup [HookIds -> Nat]]
  /\ bytes \in [Files -> Nat]
  /\ Granted(allow) /\ Granted(consent)
  /\ \A o \in Operators : copy[o] # <<>> => Granted(copy[o])
  /\ pc = "spawn" => checked = bytes[FileOf[Hook]] \/ FileOf[Hook] \in replaced
  /\ OnlyGrantedBytesRun

LEMMA HooksStart == HooksInit => HooksInv
BY DEF HooksInit, HooksInv, Nothing, Granted, OnlyGrantedBytesRun

LEMMA HooksSteps == HooksInv /\ [HooksNext]_hookVars => HooksInv'
<1> SUFFICES ASSUME HooksInv, [HooksNext]_hookVars PROVE HooksInv'
  OBVIOUS
<1> USE DEF HooksInv, Granted, OnlyGrantedBytesRun, operatorVars, dispatcherVars
<1>1. ASSUME NEW o \in Operators, LoadAllowlist(o) \/ Abandon(o) PROVE HooksInv'
  BY <1>1 DEF LoadAllowlist, Abandon, Hook
<1>2. ASSUME NEW o \in Operators, NEW h \in HookIds, AddEntry(o, h) PROVE HooksInv'
  BY <1>2, HooksAssumption DEF AddEntry, Save, Hook
<1>3. ASSUME NEW o \in Operators, NEW h \in HookIds, RemoveEntry(o, h) PROVE HooksInv'
  BY <1>3 DEF RemoveEntry, Save, Hook
<1>4. CASE BreakByHand \/ Configure
  BY <1>4 DEF BreakByHand, Configure, Hook
<1>5. ASSUME NEW f \in Files, Install(f) PROVE HooksInv'
  <2>1. PICK b \in Bytes : bytes' = [bytes EXCEPT ![f] = b]
    BY <1>5 DEF Install
  <2>2. bytes' \in [Files -> Nat] /\ \A g \in Files : g # f => bytes'[g] = bytes[g]
    BY <2>1 DEF Bytes
  <2>3. /\ UNCHANGED <<config, allow, broken, copy, edits, granted, pc, todo, consent,
                       checked, running, decision>>
        /\ pc = "spawn" => replaced' = replaced \cup {f}
        /\ pc # "spawn" => replaced' = replaced
    BY <1>5 DEF Install
  <2>4. pc = "spawn" => checked = bytes'[FileOf[Hook]] \/ FileOf[Hook] \in replaced'
    <3>1. CASE pc = "spawn" /\ FileOf[Hook] = f
      BY <2>3, <3>1
    <3>2. CASE pc = "spawn" /\ FileOf[Hook] # f /\ FileOf[Hook] \in Files
      BY <2>2, <2>3, <3>2
    <3>3. CASE pc = "spawn" /\ FileOf[Hook] \notin Files
      BY <1>5, <2>1, <2>3, <3>3
    <3> QED BY <3>1, <3>2, <3>3
  <2> QED BY <2>2, <2>3, <2>4 DEF Hook
<1>6. ASSUME NEW e \in Events, Dispatch(e) PROVE HooksInv'
  BY <1>6 DEF Dispatch, Hook
<1>7. CASE CheckHook
  BY <1>7 DEF CheckHook, Allowed, Skip, Hook
<1>8. CASE Spawn
  BY <1>8 DEF Spawn, Skip, Hook
<1>9. CASE \/ HookTimesOut \/ DispatchReturns \/ HookBlocks \/ HookContinues
           \/ PipeBreaks \/ StartAgain
  BY <1>9 DEF HookTimesOut, DispatchReturns, HookBlocks, HookContinues, PipeBreaks,
              StartAgain, Skip, Hook
<1>10. CASE UNCHANGED hookVars
  BY <1>10 DEF hookVars, Hook
<1> QED BY <1>1, <1>2, <1>3, <1>4, <1>5, <1>6, <1>7, <1>8, <1>9, <1>10
        DEF HooksNext, Dispatcher

\* A hook is spawned after its bytes at the check were ones that an operator once
\* allowed for it, and runs these bytes or others installed since that check,
\* however the operators' edits of the list overlap and whatever is installed or
\* revoked meanwhile (consent.js:135, dispatcher.js:318).
THEOREM HooksAreGranted == HooksSpec => []OnlyGrantedBytesRun
<1>1. HooksInv => OnlyGrantedBytesRun
  BY DEF HooksInv
<1> QED BY <1>1, HooksStart, HooksSteps, PTL DEF HooksSpec
=============================================================================
