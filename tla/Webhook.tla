------------------------------- MODULE Webhook --------------------------------
(***************************************************************************)
(* openclaw-webhook: an HTTP daemon that turns a signed delivery into a     *)
(* task-claim and a fact with the delivery's body.  Node runs one handler   *)
(* at a time from its body to its answer, but other programs read the       *)
(* ledger in between, and the process may die there.                        *)
(***************************************************************************)
EXTENDS Naturals, Sequences

CONSTANTS
  Subscriptions,  \* as loadSubscriptions returns them, in their order
  Deliveries,     \* the requests of the senders
  Secret,         \* per secretEnv: the key it holds, 0 if it is not set
  Once,           \* --once
  MaxAttempts, MaxStarts  \* bounds

(***************************************************************************)
(* subscription: path, event ("*" for any), secret (a secretEnv), transform *)
(* delivery: post, path, event, key (it is signed with), body               *)
(***************************************************************************)
Shapes == {"object", "array", "scalar", "text", "large", "unsafe title", "unsafe ref"}

Transforms == {"github-pr", "github-issue", "github-push", "generic-json"}

\* validateSubscription; that its secretEnv is set shows at the first request only.
Loadable(sub) == sub.secret \in DOMAIN Secret /\ sub.transform \in Transforms

ASSUME WebhookAssumption ==
  /\ \A i \in DOMAIN Subscriptions : Loadable(Subscriptions[i])
  /\ \A d \in Deliveries : d.body \in Shapes /\ d.post \in BOOLEAN /\ d.key # 0
  /\ Once \in BOOLEAN /\ MaxAttempts \in Nat /\ MaxStarts \in Nat

VARIABLES
  daemon,   \* "up", "stopping" or "down"
  starts,
  attempt,  \* the requests the daemon was sent, each with how far it is
  handling,     \* the request whose handler runs, or 0
  done,     \* processedCount
  ledger    \* the records: a claim or a fact, and the request it is for

webVars == <<daemon, starts, attempt, handling, done, ledger>>

WebhookInit ==
  /\ daemon = "down" /\ starts = 0
  /\ attempt = <<>> /\ handling = 0 /\ done = 0 /\ ledger = <<>>

Status(a) == attempt[a].status
SetStatus(a, s) == attempt' = [attempt EXCEPT ![a].status = s]

----------------------------------------------------------------------------
\* matchSubscription: the first one in the order of the file.
Matches(sub, d) == sub.path = d.path /\ (sub.event = "*" \/ sub.event = d.event)

Matching(d) == {i \in DOMAIN Subscriptions : Matches(Subscriptions[i], d)}

Match(d) == Subscriptions[CHOOSE i \in Matching(d) : \A j \in Matching(d) : i <= j]

\* The key that verifySignature uses for d.
Key(d) == Secret[Match(d).secret]

\* An array is an object to the transforms of GitHub's events.
TransformThrows(d) ==
  d.body = "scalar" \/ (d.body = "array" /\ Match(d).transform = "generic-json")

\* The answer of the checks between the body and the ledger, if any.
Refusal(d) ==
  CASE d.body = "large" -> "413"
    [] d.key # Key(d) -> "401"
    [] d.body = "text" -> "400"
    [] TransformThrows(d) -> "400"
    [] OTHER -> "none"

----------------------------------------------------------------------------
Start ==
  /\ daemon = "down" /\ starts < MaxStarts
  /\ daemon' = "up" /\ starts' = starts + 1 /\ done' = 0
  /\ UNCHANGED <<attempt, handling, ledger>>

\* A request; senders send a delivery again when they miss its answer.  A daemon
\* that stops still serves the connections it has.
Request(d) ==
  /\ daemon = "up" \/ (daemon = "stopping" /\ attempt # <<>>)
  /\ handling = 0 /\ Len(attempt) < MaxAttempts
  /\ attempt' = Append(attempt,
       [delivery |-> d, status |-> IF ~d.post THEN "405"
                                   ELSE IF Matching(d) = {} THEN "404" ELSE "body"])
  /\ UNCHANGED <<daemon, starts, handling, done, ledger>>

\* readBody and the checks; a request that is broken off is answered 400.
Check(a) ==
  /\ daemon # "down" /\ handling = 0 /\ Status(a) = "body"
  /\ \/ /\ SetStatus(a, "400") /\ UNCHANGED handling
     \/ LET r == Refusal(attempt[a].delivery) IN
          IF r = "none" THEN SetStatus(a, "claim") /\ handling' = a
                   ELSE SetStatus(a, r) /\ UNCHANGED handling
  /\ UNCHANGED <<daemon, starts, done, ledger>>

\* A write that is refused or that throws is answered 500.
WriteFails(a) ==
  /\ handling = a /\ Status(a) \in {"claim", "fact"}
  /\ SetStatus(a, "500") /\ handling' = 0
  /\ UNCHANGED <<daemon, starts, done, ledger>>

\* claimTask; the summary holds the ref of the delivery, and is scanned.
Claim(a) ==
  /\ handling = a /\ Status(a) = "claim" /\ attempt[a].delivery.body # "unsafe ref"
  /\ ledger' = Append(ledger, [kind |-> "task-claim", for |-> a])
  /\ SetStatus(a, "fact")
  /\ UNCHANGED <<daemon, starts, handling, done>>

\* Mutation: a failed fact is passed over.
RecordIfPossible(a) ==
  /\ handling = a /\ Status(a) = "fact"
  /\ ledger' \in {ledger, Append(ledger, [kind |-> "fact", for |-> a])}
  /\ SetStatus(a, "answer")
  /\ UNCHANGED <<daemon, starts, handling, done>>

\* recordFact; its title is scanned here for the first time.
Record(a) ==
  /\ handling = a /\ Status(a) = "fact" /\ attempt[a].delivery.body # "unsafe title"
  /\ ledger' = Append(ledger, [kind |-> "fact", for |-> a])
  /\ SetStatus(a, "answer")
  /\ UNCHANGED <<daemon, starts, handling, done>>

\* respond and onProcessed
Answer(a) ==
  /\ handling = a /\ Status(a) = "answer"
  /\ SetStatus(a, "202") /\ handling' = 0
  /\ done' = done + 1
  /\ daemon' = IF Once THEN "stopping" ELSE daemon
  /\ UNCHANGED <<starts, ledger>>

\* SIGINT, SIGTERM
Signal ==
  /\ daemon = "up" /\ handling = 0
  /\ daemon' = "stopping"
  /\ UNCHANGED <<starts, attempt, handling, done, ledger>>

End(how) ==
  /\ daemon' = "down" /\ handling' = 0
  /\ attempt' = [a \in DOMAIN attempt |->
       IF Status(a) \in {"body", "claim", "fact", "answer"}
       THEN [attempt[a] EXCEPT !.status = how] ELSE attempt[a]]
  /\ UNCHANGED <<starts, done, ledger>>

\* Mutation: the exit waits for every connection.
ExitWhenClosed ==
  /\ daemon = "stopping" /\ handling = 0
  /\ \A a \in DOMAIN attempt : Status(a) # "body"
  /\ End("dropped")

\* Every connection is closed, or the two seconds of the hard exit are over;
\* both run between two handlers.
Exit == daemon = "stopping" /\ handling = 0 /\ End("dropped")

Crash == daemon # "down" /\ End("lost")

Handle(a) == Check(a) \/ Claim(a) \/ Record(a) \/ WriteFails(a) \/ Answer(a)

WebhookNext ==
  \/ Start \/ Signal \/ Exit \/ Crash
  \/ \E d \in Deliveries : Request(d)
  \/ \E a \in DOMAIN attempt : Handle(a)

(***************************************************************************)
(* The process runs its handlers and its timers; bodies come when they come. *)
(***************************************************************************)
Running == handling # 0 /\ \E a \in DOMAIN attempt : Handle(a)

WebhookFairness == WF_webVars(Running) /\ WF_webVars(Exit)

WebhookSpec == WebhookInit /\ [][WebhookNext]_webVars /\ WebhookFairness

----------------------------------------------------------------------------
Has(kind, a) == \E i \in DOMAIN ledger : ledger[i] = [kind |-> kind, for |-> a]

\* What the sender was told is what the ledger holds: 202 for a claim with its
\* body, a refusal for nothing at all, and a claim without its body only behind
\* a 500 or a crash, never behind a stop of the daemon, however it was asked for
\* (server.js:125, openclaw-webhook:175).  Whatever is on the ledger was signed
\* with the secret of the first subscription that takes it.
LedgerMatchesAnswers ==
  \A a \in DOMAIN attempt :
    /\ Status(a) = "202" => Has("task-claim", a) /\ Has("fact", a)
    /\ Status(a) \in {"400", "401", "404", "405", "413", "dropped", "body"} => ~Has("task-claim", a)
    /\ Has("fact", a) => Has("task-claim", a) /\ Status(a) \in {"answer", "202", "lost"}
    /\ Has("task-claim", a) => attempt[a].delivery.key = Key(attempt[a].delivery)

\* With --once the daemon ends after its first delivery, whatever other senders
\* have open and never finish (openclaw-webhook:179).
OnceEnds == Once /\ done > 0 ~> daemon = "down"
=============================================================================
