---------------------------- MODULE MCPeriphery ------------------------------
(* The components around the blackboard, side by side: they share no state, *)
(* and in each behaviour one of them moves.                                 *)
EXTENDS Bus, Taskflow, Webhook, Hooks, TLC

CONSTANTS
  Parts,                 \* the components of the run
  FewSenders, FewBodies  \* who sends what where the bus's receiver moves, too

VARIABLE part

vars == <<busVars, events, webVars, hookVars, part>>

Init ==
  /\ part \in Parts
  /\ BusInit /\ TaskflowInit /\ WebhookInit /\ HooksInit
  /\ part # "bus" => pub = [a \in Names |-> 1]
  /\ part # "hooks" => config = CHOOSE c \in Configs : TRUE

\* Where the receiver moves, too, few senders send a few bodies, with one key.
FewSend ==
  \/ \E s \in FewSenders :
       (\E body \in FewBodies : Publish(s, body)) \/ PublishAgain(s)
  \/ PublishGarbled
  \/ \E a \in Names : InstallPublic(a)
BusStep == (FewSend \/ ReceiverStep) /\ UNCHANGED <<events, webVars, hookVars>>
\* Only the senders move: more of them, and bodies of every kind.
SignStep     == SenderStep /\ UNCHANGED <<events, webVars, hookVars>>
TaskflowStep == TaskflowNext /\ UNCHANGED <<busVars, webVars, hookVars>>
WebhookStep  == WebhookNext /\ UNCHANGED <<busVars, events, hookVars>>
HooksStep    == HooksNext /\ UNCHANGED <<busVars, events, webVars>>

Next ==
  /\ UNCHANGED part
  /\ \/ part = "bus" /\ BusStep
     \/ part = "signing" /\ SignStep
     \/ part = "taskflow" /\ TaskflowStep
     \/ part = "webhook" /\ WebhookStep
     \/ part = "hooks" /\ HooksStep

Spec ==
  /\ Init /\ [][Next]_vars
  /\ part = "webhook" => WebhookFairness
  /\ part = "hooks" => HooksFairness

----------------------------------------------------------------------------
CONSTANTS neo, trinity,           \* agents, and the processes that publish for them
          m1, m2, inbox, tasks,   \* envelopes and subscriptions
          constructor, build,     \* task ids
          audit, notify, sh       \* hooks and an executable

OneName   == {neo}
Signers == {"js", "native", "rust"}
SendersName == [s \in Senders |-> neo]
SendersArm  == [s \in Senders |-> s]

\* "wide" stands for a key that begins at U+FF00 or above, "astral" for one
\* beyond U+FFFF: their order is another by code units than by bytes.
Keys == {"9", "10", "note", "wide", "astral"}
CodeUnits == "10" :> 1 @@ "9" :> 2 @@ "note" :> 3 @@ "astral" :> 4 @@ "wide" :> 5
Bytes8    == "10" :> 1 @@ "9" :> 2 @@ "note" :> 3 @@ "wide" :> 4 @@ "astral" :> 5
Numbers == "9" :> 9 @@ "10" :> 10
Plain(keys) == [keys |-> keys, numbers |-> "alike", flagged |-> {}]
TwoBodies == {Plain({"note", "9"}), Plain({"9", "10"})}
SomeBodies ==
  {Plain({"note", "9"}), Plain({"9", "10"}), Plain({"wide", "astral"}),
   [Plain({"note"}) EXCEPT !.numbers = "unlike"]}
  \cup {[Plain({"note"}) EXCEPT !.flagged = f] : f \in {{"js"}, {"rust"}, {"js", "rust"}}}
Policies == inbox :> "new" @@ tasks :> "all"

Hook1 == [events |-> {"goal:start"}, glob |-> FALSE, hooks |-> <<audit>>]
Hook2 == [events |-> {"goal:start", "goal:end"}, glob |-> TRUE, hooks |-> <<notify, audit>>]
SomeConfigs == {<<Hook2, Hook1>>, <<>>}
OneFile == [h \in {audit, notify} |-> sh]
TwoEvents == {"goal:start", "goal:end"}

Sub(path, event, transform) ==
  [path |-> path, event |-> event, secret |-> event, transform |-> transform]
SomeSubscriptions ==
  <<Sub("/github", "push", "github-push"), Sub("/github", "*", "generic-json"),
    Sub("/unset", "pull", "github-pr")>>
Secrets == "push" :> 1 @@ "*" :> 2 @@ "pull" :> 0
Delivery(post, path, event, key, body) ==
  [post |-> post, path |-> path, event |-> event, key |-> key, body |-> body]
SomeDeliveries ==
  {Delivery(TRUE, "/github", "push", k, "object") : k \in 1 .. 2}
  \cup {Delivery(TRUE, "/github", "issues", 2, b) : b \in Shapes}
  \cup {Delivery(FALSE, "/github", "push", 1, "object"),
        Delivery(TRUE, "/unset", "pull", 1, "object"),
        Delivery(TRUE, "/gitlab", "push", 1, "object")}

\* Only the states of the bus hold envelope ids, and no liveness property is
\* about the bus.
Interchangeable == Permutations({m1, m2})
=============================================================================
