-------------------------------- MODULE Bus ----------------------------------
(***************************************************************************)
(* The signed bus: programs publish envelopes to a JetStream stream, and    *)
(* one process of signed-bus-client.js subscribes to it.  Every subscribe   *)
(* call has a consumer of its own on the server and a loop of its own, and  *)
(* all loops share one set of seen envelope ids.                            *)
(***************************************************************************)
EXTENDS Envelope

CONSTANTS
  Senders,      \* publishing processes
  NameOf,       \* SQUAD_BUS_AGENT_ID of each
  ArmOf,        \* the implementation each signs with
  ReceiverArm,  \* the implementation the receiver verifies with
  Bodies,       \* the bodies that are sent
  Subs,         \* the subscribe calls of the receiver
  Policy,       \* the deliverPolicy of each: "new" or "all"
  DedupeMax,    \* DEDUPE_MAX
  MaxMessages, MaxCalls, MaxKeys, MaxLate, MaxLives  \* bounds

ASSUME BusAssumption ==
  /\ NameOf \in [Senders -> Names] /\ ArmOf \in [Senders -> Arms]
  /\ ReceiverArm \in {"js", "native"} /\ Bodies \subseteq Body
  /\ Policy \in [Subs -> {"new", "all"}]
  /\ DedupeMax \in Nat \ {0}
  /\ {MaxMessages, MaxCalls, MaxKeys, MaxLate, MaxLives} \subseteq Nat

VARIABLES
  stream,            \* the messages of the stream
  hand,              \* per sender: the envelopes it has made
  pem, pub,          \* per name: the key of its private and its public file
  privCache,         \* per sender: the private key it has loaded, or 0
  pubCache,          \* per name: the public key the receiver has loaded, or 0
  sub,               \* per subscribe call: "none", "live" or "ended"
  queue,             \* per consumer: the messages to deliver, as places
  busy,              \* per loop: the message its handler works on, or 0
  seen,              \* _seenEnvelopeIds, in the order of insertion
  calls,             \* history: the ids given to handlers in this life
  taken,             \* history: per loop, what it acknowledged as valid
  late, lives        \* bounded: redeliveries by time, starts of the receiver

busVars == <<stream, hand, pem, pub, privCache, pubCache, sub, queue, busy,
             seen, calls, taken, late, lives>>

\* A message that is not JSON; a public key file that is not an OpenSSH key.
Garbled   == [id |-> "garbled"]
Malformed == MaxKeys + 1

BusInit ==
  /\ stream = <<>> /\ hand = [s \in Senders |-> {}]
  /\ pem = [a \in Names |-> 1] /\ pub \in [Names -> {0, 1, Malformed}]
  /\ privCache = [s \in Senders |-> 0] /\ pubCache = [a \in Names |-> 0]
  /\ sub = [c \in Subs |-> "none"]
  /\ queue = [c \in Subs |-> <<>>] /\ busy = [c \in Subs |-> 0]
  /\ seen = <<>> /\ calls = <<>> /\ taken = [c \in Subs |-> {}]
  /\ late = 0 /\ lives = 1

Live == {c \in Subs : sub[c] = "live"}

\* createEnvelope gives a fresh id; an envelope made by hand, or with the
\* constructor of the crate that takes any id, may have none.
NewIds == (EnvelopeIds \ {e.id : e \in UNION {hand[s] : s \in Senders}}) \cup {NoId}

----------------------------------------------------------------------------
(* The senders.                                                             *)

\* The stream stores a message for every consumer.
Store(m) ==
  /\ Len(stream) < MaxMessages
  /\ stream' = Append(stream, m)
  /\ queue' = [c \in Subs |-> IF c \in Live THEN Append(queue[c], Len(stream) + 1)
                                            ELSE queue[c]]

\* envelope.js keeps the private key it has read and a Signer of the crate the
\* one it was made with; the addon reads the file each time.
Keeps(s) == ArmOf[s] # "native"
KeyOf(s) ==
  IF Keeps(s) /\ privCache[s] # 0 THEN privCache[s] ELSE pem[NameOf[s]]

\* createSignedEnvelope and publish, which signs an envelope made by hand as it
\* is; the crate makes none of a body that fails its scan.
Publish(s, body) ==
  \E id \in NewIds :
    LET e == SignWith(ArmOf[s], Create(id, NameOf[s], body), KeyOf(s)) IN
      /\ ArmOf[s] = "rust" => RustSafe(body)
      /\ hand' = [hand EXCEPT ![s] = @ \cup {e}]
      /\ privCache' = [privCache EXCEPT ![s] = IF Keeps(s) THEN KeyOf(s) ELSE @]
      /\ Store(e)
      /\ UNCHANGED <<pem, pub, pubCache, sub, busy, seen, calls, taken, late, lives>>

\* publish fails after the stream has stored it, and the sender tries again:
\* the envelope has a signature, and is not signed a second time.
PublishAgain(s) ==
  /\ \E e \in hand[s] : Store(e)
  /\ UNCHANGED <<hand, pem, pub, privCache, pubCache, sub, busy, seen, calls,
                 taken, late, lives>>

\* Another program writes to the subject.
PublishGarbled ==
  /\ Garbled \notin {stream[n] : n \in DOMAIN stream}
  /\ Store(Garbled)
  /\ UNCHANGED <<hand, pem, pub, privCache, pubCache, sub, busy, seen, calls,
                 taken, late, lives>>

RestartSender(s) ==
  /\ privCache[s] # 0
  /\ privCache' = [privCache EXCEPT ![s] = 0]
  /\ UNCHANGED <<stream, hand, pem, pub, pubCache, sub, queue, busy, seen, calls,
                 taken, late, lives>>

\* The operator gives an agent a new key pair; the files change one by one.
RotatePrivate(a) ==
  /\ pem[a] < MaxKeys
  /\ pem' = [pem EXCEPT ![a] = @ + 1]
  /\ UNCHANGED <<stream, hand, pub, privCache, pubCache, sub, queue, busy, seen,
                 calls, taken, late, lives>>

InstallPublic(a) ==
  /\ pub[a] # pem[a]
  /\ pub' = [pub EXCEPT ![a] = pem[a]]
  /\ UNCHANGED <<stream, hand, pem, privCache, pubCache, sub, queue, busy, seen,
                 calls, taken, late, lives>>

----------------------------------------------------------------------------
(* The receiver.                                                            *)

\* _ensureStream, and a new consumer from here on or over the whole stream.
Subscribe(c) ==
  /\ sub[c] = "none"
  /\ sub' = [sub EXCEPT ![c] = "live"]
  /\ queue' = [queue EXCEPT ![c] =
                 IF Policy[c] = "all" THEN [n \in DOMAIN stream |-> n] ELSE <<>>]
  /\ UNCHANGED <<stream, hand, pem, pub, privCache, pubCache, busy, seen, calls,
                 taken, late, lives>>

\* The loop ends when the handler it awaits has returned.
Unsubscribe(c) ==
  /\ c \in Live
  /\ sub' = [sub EXCEPT ![c] = "ended"]
  /\ queue' = [queue EXCEPT ![c] = <<>>]
  /\ UNCHANGED <<stream, hand, pem, pub, privCache, pubCache, busy, seen, calls,
                 taken, late, lives>>

\* The loop of c is free for its next message.
Ready(c) == c \in Live /\ busy[c] = 0 /\ queue[c] # <<>>

Current(c) == stream[Head(queue[c])]

Ack(c) == queue' = [queue EXCEPT ![c] = Tail(@)]
Nak(c) == queue' = [queue EXCEPT ![c] = Append(Tail(@), Head(@))]

\* loadPublicKey; a file that is missing is not remembered.
Known(m) == IF pubCache[m.from] # 0 THEN pubCache[m.from] ELSE pub[m.from]

\* The key is looked up only when the body passes the scan.
Throws(m) == IF m = Garbled THEN TRUE ELSE JsSafe(m.body) /\ Known(m) = Malformed

Valid(m) == ~Throws(m) /\ Verify(ReceiverArm, m, Known(m))

Load(m) ==
  pubCache' = [pubCache EXCEPT ![m.from] = IF JsSafe(m.body) THEN Known(m) ELSE @]

\* JSON.parse or loadPublicKey throws.
Reject(c) ==
  /\ Ready(c) /\ Throws(Current(c))
  /\ Nak(c)
  /\ UNCHANGED <<stream, hand, pem, pub, privCache, pubCache, sub, busy, seen,
                 calls, taken, late, lives>>

\* Mutation: an envelope is marked before it is verified.
DropMarking(c) ==
  /\ Ready(c) /\ ~Throws(Current(c)) /\ ~Valid(Current(c))
  /\ Ack(c) /\ Load(Current(c))
  /\ seen' = Append(IF Len(seen) < DedupeMax THEN seen ELSE Tail(seen), Current(c).id)
  /\ UNCHANGED <<stream, hand, pem, pub, privCache, sub, busy, calls, taken, late,
                 lives>>

\* verify says no.
Drop(c) ==
  /\ Ready(c) /\ ~Throws(Current(c)) /\ ~Valid(Current(c))
  /\ Ack(c) /\ Load(Current(c))
  /\ UNCHANGED <<stream, hand, pem, pub, privCache, sub, busy, seen, calls,
                 taken, late, lives>>

InSeen(id) == \E k \in DOMAIN seen : seen[k] = id

\* _markSeen says no to an id that it has, and to an envelope without one.
Fresh(id) == id # NoId /\ ~InSeen(id)

\* DUPLICATE_DROP
DropDuplicate(c) ==
  /\ Ready(c) /\ Valid(Current(c)) /\ ~Fresh(Current(c).id)
  /\ Ack(c) /\ Load(Current(c))
  /\ taken' = [taken EXCEPT ![c] = @ \cup {Current(c).id}]
  /\ UNCHANGED <<stream, hand, pem, pub, privCache, sub, busy, seen, calls,
                 late, lives>>

\* Mutation: the set is emptied when it is full.
RememberAfresh(id) ==
  seen' = IF Len(seen) < DedupeMax THEN Append(seen, id) ELSE <<>>

\* _markSeen: the oldest id leaves when there is one too many.
Remember(id) ==
  seen' = IF Len(seen) < DedupeMax THEN Append(seen, id) ELSE Append(Tail(seen), id)

\* The id is marked before the handler runs.
Receive(c) ==
  /\ Len(calls) < MaxCalls
  /\ Ready(c) /\ Valid(Current(c)) /\ Fresh(Current(c).id)
  /\ Load(Current(c))
  /\ Remember(Current(c).id)
  /\ calls' = Append(calls, Current(c).id)
  /\ busy' = [busy EXCEPT ![c] = Head(queue[c])]
  /\ queue' = [queue EXCEPT ![c] = Tail(@)]
  /\ UNCHANGED <<stream, hand, pem, pub, privCache, sub, taken, late, lives>>

HandlerReturns(c) ==
  /\ busy[c] # 0
  /\ busy' = [busy EXCEPT ![c] = 0]
  /\ taken' = [taken EXCEPT ![c] = @ \cup {stream[busy[c]].id}]
  /\ UNCHANGED <<stream, hand, pem, pub, privCache, pubCache, sub, queue, seen,
                 calls, late, lives>>

\* nak: the server delivers the message again, if its consumer is still there.
HandlerThrows(c) ==
  /\ busy[c] # 0
  /\ busy' = [busy EXCEPT ![c] = 0]
  /\ queue' = [queue EXCEPT ![c] = IF c \in Live THEN Append(@, busy[c]) ELSE @]
  /\ UNCHANGED <<stream, hand, pem, pub, privCache, pubCache, sub, seen, calls,
                 taken, late, lives>>

\* The server has waited ack_wait for a message, handled or not.
Redeliver(c) ==
  /\ late < MaxLate /\ c \in Live
  /\ \E n \in {busy[c]} \cup {queue[c][k] : k \in DOMAIN queue[c]} :
       /\ n # 0
       /\ queue' = [queue EXCEPT ![c] = Append(@, n)]
  /\ late' = late + 1
  /\ UNCHANGED <<stream, hand, pem, pub, privCache, pubCache, sub, busy, seen,
                 calls, taken, lives>>

\* The process dies and is started again: its consumers are gone.
RestartReceiver ==
  /\ lives < MaxLives
  /\ lives' = lives + 1
  /\ sub' = [c \in Subs |-> "none"]
  /\ queue' = [c \in Subs |-> <<>>] /\ busy' = [c \in Subs |-> 0]
  /\ seen' = <<>> /\ calls' = <<>> /\ taken' = [c \in Subs |-> {}]
  /\ pubCache' = [a \in Names |-> 0]
  /\ UNCHANGED <<stream, hand, pem, pub, privCache, late>>

Loop(c) == Reject(c) \/ Drop(c) \/ DropDuplicate(c) \/ Receive(c)

SenderStep ==
  \/ \E s \in Senders :
       \/ \E body \in Bodies : Publish(s, body)
       \/ PublishAgain(s) \/ RestartSender(s)
  \/ PublishGarbled
  \/ \E a \in Names : RotatePrivate(a) \/ InstallPublic(a)

ReceiverStep ==
  \/ \E c \in Subs : \/ Subscribe(c) \/ Unsubscribe(c) \/ Redeliver(c)
                     \/ Loop(c) \/ HandlerReturns(c) \/ HandlerThrows(c)
  \/ RestartReceiver

BusNext == SenderStep \/ ReceiverStep

BusSpec == BusInit /\ [][BusNext]_busVars

----------------------------------------------------------------------------
\* An id reaches the handlers of one process a second time only after more
\* than DEDUPE_MAX others, for all its subscriptions together
\* (signed-bus-client.js:67).
RepeatNeedsEviction ==
  \A i, j \in DOMAIN calls : i < j /\ calls[i] = calls[j] => j - i > DedupeMax

\* A valid message is acknowledged only when its id was given to a handler of
\* this process, even if that handler failed or belongs to another
\* subscription; all but one that has no id, which is acknowledged and given
\* to none (signed-bus-client.js:64,184).
AckedWasCalled ==
  \A c \in Subs : \A id \in taken[c] :
    id # NoId <=> \E i \in DOMAIN calls : calls[i] = id

\* Where the implementations judge an envelope alike, whoever signed it with
\* whatever key: the loader is envelope.js where both languages make the same
\* bytes of the body, and the crate is too where both also scan it alike.  Where
\* the bytes differ, what one accepts the other refuses, and the loader refuses
\* all, its own signatures included (envelope-loader.js:23, lib.rs:286).
ArmsAgree ==
  \A n \in DOMAIN stream, key \in 1 .. MaxKeys :
    LET m == stream[n] IN
      m # Garbled =>
        /\ SameBytes(m.body) => (NativeVerify(m, key) <=> JsVerify(m, key))
        /\ SameBytes(m.body) /\ SameScan(m.body) =>
             (RustVerify(m, key) <=> JsVerify(m, key))
        /\ ~SameBytes(m.body) =>
             ~NativeVerify(m, key) /\ ~(JsVerify(m, key) /\ RustVerify(m, key))
=============================================================================
