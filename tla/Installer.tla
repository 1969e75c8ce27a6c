------------------------------ MODULE Installer -----------------------------
(* The installer that wires the stack into the home of an agent host         *)
(* (integration/agent-host/lib/install-lib.js).  An install goes through     *)
(* four steps, the skill bridges, the path shims, the plugin manifest and    *)
(* the public key; an uninstall undoes them.  Nothing spans the steps: a run *)
(* that dies, or throws, leaves what it has done, and the next run finds it. *)
(* One run at a time; a dry run changes nothing.                             *)
EXTENDS Naturals, Sequences

CONSTANTS
  SkillOrder,   \* the skills of the stack, in the order of their names
  Roots,        \* checkouts of the stack
  NoRoot,       \* no checkout
  MaxRelease,   \* bound: per checkout, the contents it goes through
  MaxKeys,      \* bound: keys the agent goes through
  MaxDeaths     \* bound: runs that die

VARIABLES
  step,      \* where the run is; "idle" between runs
  root,      \* the checkout of the run
  unseen,      \* the skills the run has yet to come to
  left,      \* the skills it reported as already present or failed
  warned,    \* it warned of something that it could not remove
  bridge,    \* per skill: what is at SKILLS/ofs/<skill>
  shim,      \* per shim: the checkout its text names
  manifest,  \* the plugin manifest
  known,     \* per checkout: the key registered for the agent, or 0
  key,       \* the agent's public key, or 0 for none
  release,   \* per checkout: the content of it now
  deaths     \* runs that died

run     == <<step, root, unseen, left, warned>>
home    == <<bridge, shim, manifest, known>>
outside == <<key, release, deaths>>

installVars == <<run, home, outside>>

SkillIds == {SkillOrder[i] : i \in DOMAIN SkillOrder}

ASSUME InstallerAssumption ==
  /\ SkillOrder \in Seq(SkillIds)
  /\ NoRoot \notin Roots
  /\ MaxRelease \in [Roots -> Nat] /\ MaxKeys \in Nat /\ MaxDeaths \in Nat

\* A shim and a key that were cut off.
Torn    == "torn"
TornKey == MaxKeys + 1

\* A link shows the checkout's content whenever it is read, a copy that of the
\* release it was made from; a copy that was cut off is in parts.
Link(r)        == [kind |-> "link", of |-> r, at |-> 0]
Copied(how, r) == [kind |-> how, of |-> r, at |-> release[r]]
Nothing        == [kind |-> "none", of |-> NoRoot, at |-> 0]

\* ofs is the stack's entry; others tells that other installers have entries.
NoManifest == [file |-> "none", ofs |-> <<NoRoot, 0>>, others |-> FALSE]

InstallInit ==
  /\ step = "idle" /\ root = NoRoot /\ unseen = <<>> /\ left = {} /\ warned = FALSE
  /\ bridge = [s \in SkillIds |-> Nothing]
  /\ shim = [f \in {"bash", "ps1"} |-> NoRoot]
  /\ manifest = NoManifest
  /\ known = [r \in Roots |-> 0]
  /\ key = 0 /\ release = [r \in Roots |-> 1] /\ deaths = 0

StartRun(r, first) ==
  /\ step = "idle"
  /\ step' = first /\ root' = r /\ unseen' = SkillOrder /\ left' = {} /\ warned' = FALSE
  /\ UNCHANGED <<home, outside>>

Go(next) == step' = next /\ UNCHANGED <<root, unseen, left>>
----------------------------------------------------------------------------
(* Install.                                                                *)

\* An install that lacks a directory, or finds a stack's skill name among the
\* agent's own skills, stops here: it is no step.
StartInstall(r) == StartRun(r, "skills")

Current == Head(unseen)

\* The run is through with the current skill; skipped tells that it reports it
\* as already present or failed.
Pass(skipped) ==
  /\ step' = "skills" /\ unseen' = Tail(unseen)
  /\ left' = IF skipped THEN left \cup {Current} ELSE left
  /\ UNCHANGED <<root, warned, shim, manifest, known, outside>>

\* Mutation: any link counts as one to this checkout.
KeepAnyLink ==
  /\ step = "skills" /\ unseen # <<>> /\ bridge[Current] # Nothing
  /\ Pass(bridge[Current].kind # "link")
  /\ UNCHANGED bridge

\* Whatever is there stays; only a link to this checkout is reported as linked.
KeepSkill ==
  /\ step = "skills" /\ unseen # <<>> /\ bridge[Current] # Nothing
  /\ Pass(bridge[Current] # Link(root))
  /\ UNCHANGED bridge

LinkSkill ==
  /\ step = "skills" /\ unseen # <<>> /\ bridge[Current] = Nothing
  /\ bridge' = [bridge EXCEPT ![Current] = Link(root)]
  /\ Pass(FALSE)

\* The host refuses both kinds of link: a copy is begun, unless that fails too.
BeginCopy ==
  /\ step = "skills" /\ unseen # <<>> /\ bridge[Current] = Nothing
  /\ \/ /\ bridge' = [bridge EXCEPT ![Current] = Copied("part", root)]
        /\ Go("copy")
        /\ UNCHANGED <<warned, shim, manifest, known, outside>>
     \/ Pass(TRUE) /\ UNCHANGED bridge

\* The copy is completed, or fails and stays in parts.
EndCopy ==
  /\ step = "copy"
  /\ \/ bridge' = [bridge EXCEPT ![Current].kind = "copy"] /\ Pass(FALSE)
     \/ UNCHANGED bridge /\ Pass(TRUE)

SkillsDone ==
  /\ step = "skills" /\ unseen = <<>>
  /\ Go("bash")
  /\ UNCHANGED <<warned, home, outside>>

\* Written unless its text is the one wanted.
WriteShim(f, next) ==
  /\ step = f
  /\ shim' = [shim EXCEPT ![f] = root]
  /\ Go(next)
  /\ UNCHANGED <<warned, bridge, manifest, known, outside>>

\* The entries of others are kept, if the file can be read; it is replaced whole.
WriteManifest ==
  /\ step = "manifest"
  /\ manifest' = [file   |-> "list", ofs |-> <<root, release[root]>>,
                  others |-> manifest.file = "list" /\ manifest.others]
  /\ Go("key")
  /\ UNCHANGED <<warned, bridge, shim, known, outside>>

\* A copy of the public key, if the agent has one; a file that looks like a
\* private key, or a label that cannot name a file, counts as none.
RegisterKey ==
  /\ step = "key"
  /\ known' = [known EXCEPT ![root] = IF key = 0 THEN @ ELSE key]
  /\ Go("installed")
  /\ UNCHANGED <<warned, bridge, shim, manifest, outside>>
----------------------------------------------------------------------------
(* Uninstall.                                                              *)

StartUninstall(r) == StartRun(r, "unskills")

\* What a removal may leave of a bridge: all, nothing, or a copy in parts.
Remains(s) ==
  {bridge[s], Nothing} \cup
  IF bridge[s].kind = "copy" THEN {[bridge[s] EXCEPT !.kind = "part"]} ELSE {}

Removals ==
  {b \in [SkillIds -> UNION {Remains(s) : s \in SkillIds}] :
     \A s \in SkillIds : b[s] \in Remains(s)}

\* Every entry of SKILLS/ofs, whoever made it; one that cannot be removed is
\* warned about.
RemoveSkills ==
  /\ step = "unskills"
  /\ bridge' \in Removals
  /\ warned' = \E s \in SkillIds : bridge'[s] # Nothing
  /\ Go("unbash")
  /\ UNCHANGED <<shim, manifest, known, outside>>

RemoveShim(from, f, next) ==
  /\ step = from
  /\ \/ shim' = [shim EXCEPT ![f] = NoRoot] /\ UNCHANGED warned
     \/ shim[f] # NoRoot /\ warned' = TRUE /\ UNCHANGED shim
  /\ Go(next)
  /\ UNCHANGED <<bridge, manifest, known, outside>>

\* Mutation: the file goes with the stack's entry, the others' in it.
RemoveManifest ==
  /\ step = "unmanifest"
  /\ manifest' = IF manifest.file = "list" THEN NoManifest ELSE manifest
  /\ Go("unkey")
  /\ UNCHANGED <<warned, bridge, shim, known, outside>>

\* The stack's entry goes, and the file with the last entry; a file that cannot
\* be read is left alone.
RemoveEntry ==
  /\ step = "unmanifest"
  /\ manifest' =
       IF manifest.file # "list" THEN manifest
       ELSE IF manifest.others THEN [manifest EXCEPT !.ofs = NoManifest.ofs]
       ELSE NoManifest
  /\ Go("unkey")
  /\ UNCHANGED <<warned, bridge, shim, known, outside>>

RemoveKey ==
  /\ step = "unkey"
  /\ \/ known' = [known EXCEPT ![root] = 0] /\ UNCHANGED warned
     \/ known[root] # 0 /\ warned' = TRUE /\ UNCHANGED known
  /\ Go("uninstalled")
  /\ UNCHANGED <<bridge, shim, manifest, outside>>
----------------------------------------------------------------------------
(* Around it.                                                              *)

Report ==
  /\ step \in {"installed", "uninstalled"}
  /\ Go("idle")
  /\ UNCHANGED <<warned, home, outside>>

\* What was being removed or written in place, a shim or a key, may be cut off;
\* the manifest is renamed into place.
Die ==
  /\ deaths < MaxDeaths
  /\ step \notin {"idle", "installed", "uninstalled"}
  /\ bridge' \in IF step = "unskills" THEN Removals ELSE {bridge}
  /\ shim' \in {shim} \cup
       {[shim EXCEPT ![f] = Torn] : f \in {g \in DOMAIN shim : step = g /\ shim[g] # root}}
  /\ \/ known' = known
     \/ step = "key" /\ key \notin {0, known[root]} /\ known' = [known EXCEPT ![root] = TornKey]
  /\ deaths' = deaths + 1
  /\ Go("idle")
  /\ UNCHANGED <<warned, manifest, key, release>>

\* A checkout is updated.
Update(r) ==
  /\ step = "idle" /\ release[r] < MaxRelease[r]
  /\ release' = [release EXCEPT ![r] = @ + 1]
  /\ UNCHANGED <<run, home, key, deaths>>

\* The agent gets its first key, or another.
NewKey ==
  /\ step = "idle" /\ key < MaxKeys
  /\ key' = key + 1
  /\ UNCHANGED <<run, home, release, deaths>>

\* Another installer adds its entry, or someone breaks the file.
EditManifest ==
  /\ step = "idle"
  /\ \/ /\ manifest.file # "broken"
        /\ manifest' = [manifest EXCEPT !.file = "list", !.others = TRUE]
     \/ manifest.file = "list" /\ manifest' = [manifest EXCEPT !.file = "broken"]
  /\ UNCHANGED <<run, bridge, shim, known, outside>>

InstallNext ==
  \/ \E r \in Roots : StartInstall(r) \/ StartUninstall(r) \/ Update(r)
  \/ KeepSkill \/ LinkSkill \/ BeginCopy \/ EndCopy \/ SkillsDone
  \/ WriteShim("bash", "ps1") \/ WriteShim("ps1", "manifest")
  \/ WriteManifest \/ RegisterKey
  \/ RemoveSkills \/ RemoveShim("unbash", "bash", "unps1") \/ RemoveShim("unps1", "ps1", "unmanifest")
  \/ RemoveEntry \/ RemoveKey
  \/ Report \/ Die \/ NewKey \/ EditManifest
----------------------------------------------------------------------------
(* What an install reports is so when it ends, whatever earlier runs, dead   *)
(* ones among them, have left behind: shims, manifest and key are those of   *)
(* its checkout, and each skill that it did not report as already present or *)
(* failed is the checkout's, in full and as it is now.                       *)
InstalledIsServed ==
  step = "installed" =>
    /\ \A f \in DOMAIN shim : shim[f] = root
    /\ manifest.file = "list" /\ manifest.ofs = <<root, release[root]>>
    /\ key # 0 => known[root] = key
    /\ \A s \in SkillIds \ left : bridge[s] \in {Link(root), Copied("copy", root)}

(* An uninstall that warns of nothing leaves no trace of the stack in the    *)
(* home and no key in its checkout, after any history of installs; and no    *)
(* run loses the entries of others from a manifest that can be read.         *)
UninstallReverses ==
  [][ /\ step' = "uninstalled" /\ ~warned' =>
           /\ bridge' = [s \in SkillIds |-> Nothing]
           /\ \A f \in DOMAIN shim : shim'[f] = NoRoot
           /\ manifest'.file = "broken" \/ manifest'.ofs = NoManifest.ofs
           /\ known'[root] = 0
      /\ manifest.file = "list" /\ manifest.others => manifest'.others ]_installVars
=============================================================================
