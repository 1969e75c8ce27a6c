-------------------------------- MODULE Hooks ---------------------------------
(***************************************************************************)
(* Event hooks: the dispatcher runs the executables that are bound to an    *)
(* event, one after the other, if an operator has consented to their bytes. *)
(* Operators edit the allowlist by loading it, changing it and saving it;   *)
(* nothing locks the file.                                                  *)
(***************************************************************************)
EXTENDS Naturals, Sequences

LOCAL INSTANCE SequencesExt

CONSTANTS
  HookIds, Files,
  FileOf,    \* the executable of each hook
  Events,
  Configs,   \* the hooks configurations an operator may install
  Operators,
  MaxBytes,  \* bound: the contents an executable may have
  MaxEdits   \* bound: edits of the allowlist

(***************************************************************************)
(* A configuration lists its keys in the order of the file: the events that *)
(* the key stands for, whether it is a literal name or a glob, and hooks.   *)
(***************************************************************************)
ASSUME HooksAssumption ==
  /\ FileOf \in [HookIds -> Files]
  /\ \A c \in Configs : \A i \in DOMAIN c :
       c[i].events \subseteq Events /\ c[i].glob \in BOOLEAN /\ c[i].hooks \in Seq(HookIds)
  /\ MaxBytes \in Nat \ {0} /\ MaxEdits \in Nat

\* Contents are numbered; 0 is no file, and an entry with 0 is no entry.
Bytes == 0 .. MaxBytes

VARIABLES
  bytes,    \* the contents of each executable
  config,   \* the configuration file
  allow,    \* the allowlist file: per hook the bytes consented to
  broken,   \* the allowlist file is not valid JSON
  copy,     \* per operator: the allowlist it has loaded, or <<>>
  edits,
  pc,       \* the dispatcher: "idle", "check", "spawn", "run" or "dead"
  todo,     \* the hooks still to come
  consent,  \* the allowlist this dispatch has loaded
  checked,  \* the bytes of the hook that isAllowed read
  running,  \* the bytes of the hook that was spawned
  decision, \* of the last dispatch that returned
  granted,  \* history: the hooks and bytes an operator has allowed
  replaced  \* history: the files installed between a check and its spawn

hookVars == <<bytes, config, allow, broken, copy, edits, pc, todo, consent,
              checked, running, decision, granted, replaced>>

operatorVars   == <<bytes, config, allow, broken, copy, edits, granted>>
dispatcherVars == <<pc, todo, consent, checked, running, decision, replaced>>

Nothing == [h \in HookIds |-> 0]

HooksInit ==
  /\ bytes = [f \in Files |-> 1] /\ config \in Configs
  /\ allow = Nothing /\ broken = FALSE
  /\ copy = [o \in Operators |-> <<>>] /\ edits = 0
  /\ pc = "idle" /\ todo = <<>> /\ consent = Nothing /\ checked = 0
  /\ running = 0 /\ decision = "continue" /\ granted = {} /\ replaced = {}

----------------------------------------------------------------------------
(* The operators: programs around consent.js, and an editor.                *)

LoadAllowlist(o) ==
  /\ copy[o] = <<>> /\ ~broken /\ edits < MaxEdits
  /\ copy' = [copy EXCEPT ![o] = allow] /\ edits' = edits + 1
  /\ UNCHANGED <<bytes, config, allow, broken, granted, dispatcherVars>>

\* saveAllowlist renames a temporary file onto the list.
Save(o, list) ==
  /\ copy[o] # <<>>
  /\ allow' = list /\ broken' = FALSE
  /\ copy' = [copy EXCEPT ![o] = <<>>]
  /\ UNCHANGED <<bytes, config, edits, dispatcherVars>>

\* addEntry, which replaces an entry of the same hook
AddEntry(o, h) ==
  LET sha == bytes[FileOf[h]] IN
    /\ sha # 0
    /\ Save(o, [copy[o] EXCEPT ![h] = sha])
    /\ granted' = granted \cup {<<h, sha>>}

RemoveEntry(o, h) ==
  /\ Save(o, [copy[o] EXCEPT ![h] = 0])
  /\ UNCHANGED granted

\* The program ends before it saves.
Abandon(o) ==
  /\ copy[o] # <<>>
  /\ copy' = [copy EXCEPT ![o] = <<>>]
  /\ UNCHANGED <<bytes, config, allow, broken, edits, granted, dispatcherVars>>

BreakByHand ==
  /\ ~broken
  /\ broken' = TRUE
  /\ UNCHANGED <<bytes, config, allow, copy, edits, granted, dispatcherVars>>

Install(f) ==
  /\ bytes' \in {[bytes EXCEPT ![f] = b] : b \in Bytes \ {bytes[f]}}
  /\ replaced' = IF pc = "spawn" THEN replaced \cup {f} ELSE replaced
  /\ UNCHANGED <<config, allow, broken, copy, edits, granted, pc, todo, consent,
                 checked, running, decision>>

Configure ==
  /\ config' \in Configs \ {config}
  /\ UNCHANGED <<bytes, allow, broken, copy, edits, granted, dispatcherVars>>

----------------------------------------------------------------------------
\* resolveHooks: the literal key first, then the globs in their order.
Resolve(e) ==
  LET keys == SelectSeq(config, LAMBDA k : e \in k.events)
      hooks(glob) == FlattenSeq([i \in DOMAIN keys |->
                       IF keys[i].glob = glob THEN keys[i].hooks ELSE <<>>])
  IN hooks(FALSE) \o hooks(TRUE)

\* dispatch up to its loop.  An allowlist that cannot be read makes it throw,
\* and its caller goes on as if there were no hooks.
Dispatch(e) ==
  /\ pc = "idle"
  /\ IF broken
     THEN decision' = "continue" /\ UNCHANGED <<pc, todo, consent>>
     ELSE /\ pc' = "check" /\ todo' = Resolve(e) /\ consent' = allow
          /\ UNCHANGED decision
  /\ UNCHANGED <<checked, running, replaced, operatorVars>>

Hook == Head(todo)

\* On to the next hook, with no word from this one.
Skip == todo' = Tail(todo) /\ pc' = "check" /\ UNCHANGED decision

\* Mutation: an entry of the hook is enough.
AllowedById == \E h \in HookIds : h = Hook /\ bytes[FileOf[h]] # 0 /\ consent[h] # 0

\* isAllowed: the bytes of the file now, against the list as it was loaded,
\* which must have an entry of the hook.
Allowed ==
  \E h \in HookIds :
    h = Hook /\ bytes[FileOf[h]] # 0 /\ consent[h] = bytes[FileOf[h]]

CheckHook ==
  /\ pc = "check" /\ todo # <<>>
  /\ IF Allowed
     THEN /\ checked' = bytes[FileOf[Hook]] /\ replaced' = {} /\ pc' = "spawn"
          /\ UNCHANGED <<todo, decision>>
     ELSE Skip /\ UNCHANGED <<checked, replaced>>
  /\ UNCHANGED <<consent, running, operatorVars>>

\* The file is named to the system again, which starts what it finds.
Spawn ==
  /\ pc = "spawn"
  /\ IF bytes[FileOf[Hook]] = 0
     THEN Skip /\ UNCHANGED running            \* spawn-error
     ELSE /\ running' = bytes[FileOf[Hook]] /\ pc' = "run"
          /\ UNCHANGED <<todo, decision>>
  /\ UNCHANGED <<consent, checked, replaced, operatorVars>>

\* The hook closes its input before the payload is written: the error comes as
\* an event that nobody listens to, and ends the process.
PipeBreaks ==
  /\ pc = "run"
  /\ pc' = "dead" /\ todo' = <<>>
  /\ UNCHANGED <<consent, checked, running, decision, replaced, operatorVars>>

\* The operator runs the goal again.
StartAgain ==
  /\ pc = "dead" /\ pc' = "idle"
  /\ UNCHANGED <<todo, consent, checked, running, decision, replaced, operatorVars>>

\* The hook closes its output with a block, whatever its exit code is.
HookBlocks ==
  /\ pc = "run"
  /\ pc' = "idle" /\ todo' = <<>> /\ decision' = "block"
  /\ UNCHANGED <<consent, checked, running, replaced, operatorVars>>

\* It closes with anything else: continue, context, nothing, no JSON, too much.
HookContinues ==
  /\ pc = "run" /\ Skip
  /\ UNCHANGED <<consent, checked, running, replaced, operatorVars>>

\* Mutation: the timer kills the hook and settles nothing.
HookIsOnlyKilled == pc = "run" /\ UNCHANGED hookVars

\* The timer kills it.
HookTimesOut ==
  /\ pc = "run" /\ Skip
  /\ UNCHANGED <<consent, checked, running, replaced, operatorVars>>

DispatchReturns ==
  /\ pc = "check" /\ todo = <<>>
  /\ pc' = "idle" /\ decision' = "continue"
  /\ UNCHANGED <<todo, consent, checked, running, replaced, operatorVars>>

Dispatcher == CheckHook \/ Spawn \/ HookTimesOut \/ DispatchReturns

HooksNext ==
  \/ \E o \in Operators :
       \/ LoadAllowlist(o) \/ Abandon(o)
       \/ \E h \in HookIds : AddEntry(o, h) \/ RemoveEntry(o, h)
  \/ BreakByHand \/ Configure \/ \E f \in Files : Install(f)
  \/ \E e \in Events : Dispatch(e)
  \/ Dispatcher \/ HookBlocks \/ HookContinues \/ PipeBreaks \/ StartAgain

\* The dispatcher goes on and its timers fire; a hook owes it nothing.
HooksFairness == WF_hookVars(Dispatcher)

HooksSpec == HooksInit /\ [][HooksNext]_hookVars /\ HooksFairness

----------------------------------------------------------------------------
\* What is spawned has passed the check with bytes that an operator once allowed
\* for this very hook, whichever operators overlapped and whatever was revoked in
\* the meantime; and these bytes are what runs, or others that were installed
\* after the check, for which nobody has to have been asked (dispatcher.js:318).
OnlyGrantedBytesRun ==
  /\ pc \in {"spawn", "run"} => <<Hook, checked>> \in granted
  /\ pc = "run" => running = checked \/ FileOf[Hook] \in replaced

\* A goal is never held up by its hooks for ever (dispatcher.js:165): the dispatch
\* returns, unless its process dies.
DispatchEnds == (pc # "idle") ~> (pc \in {"idle", "dead"})
=============================================================================
