------------------------------ MODULE Envelope -------------------------------
(***************************************************************************)
(* Signed envelopes.  A signature stands for a key and the canonical bytes  *)
(* it was made over; three programs compute those bytes: envelope.js, the   *)
(* native addon behind envelope-loader.js, and the Rust crate.              *)
(***************************************************************************)
EXTENDS Naturals, Sequences, FiniteSets

CONSTANTS
  EnvelopeIds, NoId,  \* NoId: the envelope has no id, or an empty one
  Names,       \* agents, each with a private and a public key file
  BodyKeys,    \* keys of the objects in a body
  Utf16, Utf8, \* per body key: its place in the order by code units, by bytes
  Number       \* per body key that is written like an array index: its value

ASSUME OrderAssumption ==
  /\ NoId \notin EnvelopeIds
  /\ Utf16 \in [BodyKeys -> Nat] /\ Utf8 \in [BodyKeys -> Nat]
  /\ \A k, l \in BodyKeys : k # l => Utf16[k] # Utf16[l] /\ Utf8[k] # Utf8[l]
  /\ DOMAIN Number \subseteq BodyKeys /\ \A k \in DOMAIN Number : Number[k] \in Nat
  /\ \A k, l \in DOMAIN Number : k # l => Number[k] # Number[l]

Arms == {"js", "native", "rust"}

\* numbers: whether both languages print the numbers of the body alike; flagged:
\* whose production-safety scan finds something in its text, or finds it too long.
Body == [keys : SUBSET BodyKeys, numbers : {"alike", "unlike"}, flagged : SUBSET {"js", "rust"}]

----------------------------------------------------------------------------
(* The canonical bytes.  The pairs of keys of which one comes before the    *)
(* other stand for the sequence of the sorted keys.                         *)

\* Mutation: keys are listed in the order of the sort.
JsBeforeAsSorted(k, l) == Utf16[k] < Utf16[l]

\* A JavaScript object lists its index-like keys first, by their number, and
\* the others as they were added; stable() adds them in sorted order.
JsBefore(k, l) ==
  \/ k \in DOMAIN Number /\ l \in DOMAIN Number /\ Number[k] < Number[l]
  \/ k \in DOMAIN Number /\ l \notin DOMAIN Number
  \/ k \notin DOMAIN Number /\ l \notin DOMAIN Number /\ Utf16[k] < Utf16[l]

\* A BTreeMap<String, _> is sorted by its keys.
RustBefore(k, l) == Utf8[k] < Utf8[l]

JsOrder(S)   == {p \in S \X S : JsBefore(p[1], p[2])}
RustOrder(S) == {p \in S \X S : RustBefore(p[1], p[2])}

Printed(language, body) == IF body.numbers = "alike" THEN "alike" ELSE language

\* The envelope without its own signature; what the body holds stays.
JsCanonical(e)   == <<e.id, e.from, e.body, Printed("js", e.body), JsOrder(e.body.keys)>>
RustCanonical(e) == <<e.id, e.from, e.body, Printed("rust", e.body), RustOrder(e.body.keys)>>

Canonical(arm, e) == IF arm = "js" THEN JsCanonical(e) ELSE RustCanonical(e)

----------------------------------------------------------------------------
\* validatePublicSafeBody, by regular expressions, and the scanners of the
\* crate, written by hand: each finds texts that the other passes.
JsSafe(body)   == "js" \notin body.flagged
RustSafe(body) == "rust" \notin body.flagged

Unsigned == [key |-> 0, bytes |-> <<>>]

Create(id, from, body) == [id |-> id, from |-> from, body |-> body, sig |-> Unsigned]

\* Keys are numbered by the rotation that made them, 0 is no key.
SignWith(arm, e, key) ==
  [e EXCEPT !.sig = [key |-> key, bytes |-> Canonical(arm, e)]]

\* No arm looks at the id.
JsVerify(e, key) ==
  /\ e.sig # Unsigned /\ JsSafe(e.body) /\ key # 0
  /\ e.sig.key = key /\ e.sig.bytes = JsCanonical(e)

\* The addon checks the bytes alone.
AddonVerify(e, key) == e.sig.key = key /\ e.sig.bytes = RustCanonical(e)

\* The loader asks envelope.js first, and the addon when that one agrees.
NativeVerify(e, key) == JsVerify(e, key) /\ AddonVerify(e, key)

RustVerify(e, key) ==
  /\ e.sig # Unsigned /\ RustSafe(e.body) /\ key # 0
  /\ e.sig.key = key /\ e.sig.bytes = RustCanonical(e)

Verify(arm, e, key) ==
  CASE arm = "js"     -> JsVerify(e, key)
    [] arm = "native" -> NativeVerify(e, key)
    [] arm = "rust"   -> RustVerify(e, key)

----------------------------------------------------------------------------
\* Both languages list the keys in one order.
SameOrder(keys) ==
  \A k, l \in keys :
    /\ k \notin DOMAIN Number /\ l \notin DOMAIN Number =>
         (Utf16[k] < Utf16[l] <=> Utf8[k] < Utf8[l])
    /\ k \in DOMAIN Number /\ l \in DOMAIN Number =>
         (Number[k] < Number[l] <=> Utf8[k] < Utf8[l])
    /\ k \in DOMAIN Number /\ l \notin DOMAIN Number => Utf8[k] < Utf8[l]

SameBytes(body) == body.numbers = "alike" /\ SameOrder(body.keys)

SameScan(body) == JsSafe(body) <=> RustSafe(body)
=============================================================================
