---------------------------- MODULE MutationSweep ---------------------------
(* The mutation sweep of the release gate (lib/grading/mutation-runner.js,   *)
(* mutations.js): one mutation after the other is put into the working tree, *)
(* the verifier runs, and the file gets its former bytes back from a map in  *)
(* the memory of the process.  The tree is the operator's, who may edit it   *)
(* at any time; a write may fail or be cut off, and the process may die.     *)
EXTENDS Naturals, Sequences

CONSTANTS
  SweepFiles,  \* files of the working tree
  SweepOrder,  \* the mutations in the order of the catalogue
  FileOf,      \* the file of each; several mutations may have the same
  MaxEdits,    \* bound: edits by the operator
  MaxSweeps,   \* bound: sweeps
  MaxKills     \* bound: sweeps that are killed

VARIABLES
  tree,      \* per file: its content
  baseline,  \* the tree the sweep found, as its hash tells
  saved,     \* per mutation: the content saved for its revert, or NotSaved
  text,      \* what the mutation has read of its file
  stage,     \* where the sweep is
  chosen,    \* the mutations of the sweep
  index,     \* the one it is at
  escaped,   \* those that the verifier did not catch
  clean,     \* rollbackClean
  alone,     \* history: those verified in the tree that was found and nothing else
  touched,   \* history: those whose file was edited under them, before their verdict
  stuck,     \* history: those whose revert failed in this process
  edits, sweeps, kills  \* counters for the bounds

sweepVars == <<tree, baseline, saved, text, stage, chosen, index, escaped, clean, alone,
               touched, stuck, edits, sweeps, kills>>

Mutations == {SweepOrder[i] : i \in DOMAIN SweepOrder}

ASSUME SweepAssumption ==
  SweepOrder \in Seq(Mutations) /\ FileOf \in [Mutations -> SweepFiles]

\* A content is the operator's last edit with what is in it of mutations and of
\* writes that were cut off; late tells that the edit came while the sweep was at
\* a mutation of the file, or after a revert of the file failed in the process.
Pristine == [edit |-> 0, with |-> {}, late |-> FALSE]
CutOff   == "cut off"
NotSaved == [Pristine EXCEPT !.late = TRUE]
With(c, x) == [c EXCEPT !.with = @ \cup {x}]

SweepInit ==
  /\ tree = [f \in SweepFiles |-> Pristine] /\ baseline = tree
  /\ saved = [m \in Mutations |-> NotSaved] /\ text = Pristine
  /\ stage = "idle" /\ chosen = <<>> /\ index = 1
  /\ escaped = {} /\ clean = TRUE /\ alone = {} /\ touched = {} /\ stuck = {}
  /\ edits = 0 /\ sweeps = 0 /\ kills = 0

\* All mutations or some, in the order of the catalogue; in a new process, which
\* has nothing saved, or in the one that ran the last sweep.
StartSweep ==
  /\ stage = "idle" /\ sweeps < MaxSweeps
  /\ \E n \in 1 .. Len(SweepOrder) : \E place \in [1 .. n -> DOMAIN SweepOrder] :
       /\ \A i, j \in 1 .. n : i < j => place[i] < place[j]
       /\ chosen' = [i \in 1 .. n |-> SweepOrder[place[i]]]
  /\ \/ UNCHANGED <<saved, stuck>>
     \/ saved' = [m \in Mutations |-> NotSaved] /\ stuck' = {}
  /\ baseline' = tree /\ stage' = "apply" /\ index' = 1
  /\ escaped' = {} /\ clean' = TRUE /\ alone' = {} /\ touched' = {}
  /\ sweeps' = sweeps + 1
  /\ UNCHANGED <<tree, text, edits, kills>>

Mutation == chosen[index]
File     == FileOf[Mutation]

\* What is saved already is kept: it is older.
Save ==
  /\ stage = "apply" /\ index <= Len(chosen)
  /\ saved' = IF saved[Mutation] = NotSaved THEN [saved EXCEPT ![Mutation] = tree[File]]
              ELSE saved
  /\ stage' = "read"
  /\ UNCHANGED <<tree, baseline, text, chosen, index, escaped, clean, alone, touched,
                 stuck, edits, sweeps, kills>>

\* The file is read once more for the patch.
Read ==
  /\ stage = "read"
  /\ text' = tree[File]
  /\ stage' = "write"
  /\ UNCHANGED <<tree, baseline, saved, chosen, index, escaped, clean, alone, touched,
                 stuck, edits, sweeps, kills>>

\* Whatever the file has become since, what was read is written, patched.
Write ==
  /\ stage = "write"
  /\ tree' = [tree EXCEPT ![File] = With(text, Mutation)]
  /\ alone' = IF tree' = [baseline EXCEPT ![File] = With(@, Mutation)]
              THEN alone \cup {Mutation} ELSE alone
  /\ stage' = "verify"
  /\ UNCHANGED <<baseline, saved, text, chosen, index, escaped, clean, touched, stuck,
                 edits, sweeps, kills>>

\* A file that cannot be read or parsed, or a write that fails or is cut off.
ApplyThrows ==
  /\ stage \in {"apply", "read", "write"} /\ index <= Len(chosen)
  /\ \/ UNCHANGED tree
     \/ stage = "write" /\ tree' = [tree EXCEPT ![File] = With(@, CutOff)]
  /\ escaped' = escaped \cup {Mutation}
  /\ stage' = "defend"
  /\ UNCHANGED <<baseline, saved, text, chosen, index, clean, alone, touched, stuck, edits,
                 sweeps, kills>>

\* It exits with a code, or with none, or is killed by the timer, which counts as
\* caught.
VerifierEnds ==
  /\ stage = "verify"
  /\ escaped' \in {escaped, escaped \cup {Mutation}}
  /\ stage' = "revert"
  /\ UNCHANGED <<tree, baseline, saved, text, chosen, index, clean, alone, touched, stuck,
                 edits, sweeps, kills>>

\* Mutation: what was saved stays for the next sweep of the process.
RestoreAndKeep ==
  /\ tree' = IF saved[Mutation] = NotSaved THEN tree
             ELSE [tree EXCEPT ![File] = saved[Mutation]]
  /\ UNCHANGED saved

Restore ==
  /\ tree' = IF saved[Mutation] = NotSaved THEN tree
             ELSE [tree EXCEPT ![File] = saved[Mutation]]
  /\ saved' = [saved EXCEPT ![Mutation] = NotSaved]

RestoreThrows ==
  /\ saved[Mutation] # NotSaved
  /\ tree' \in {tree, [tree EXCEPT ![File] = With(@, CutOff)]}
  /\ UNCHANGED saved

\* The revert after a failed apply; that it fails too goes unnoticed.
Defend ==
  /\ stage = "defend"
  /\ \/ Restore /\ UNCHANGED stuck
     \/ RestoreThrows /\ stuck' = stuck \cup {Mutation}
  /\ stage' = "revert"
  /\ UNCHANGED <<baseline, text, chosen, index, escaped, clean, alone, touched, edits, sweeps,
                 kills>>

\* The sweep goes on in either case.
Revert ==
  /\ stage = "revert"
  /\ \/ Restore /\ UNCHANGED <<clean, stuck>>
     \/ RestoreThrows /\ clean' = FALSE /\ stuck' = stuck \cup {Mutation}
  /\ stage' = "apply" /\ index' = index + 1
  /\ UNCHANGED <<baseline, text, chosen, escaped, alone, touched, edits, sweeps, kills>>

\* Mutation: a sweep whose reverts went through is taken for clean.
EndUnhashed ==
  /\ stage = "apply" /\ index > Len(chosen)
  /\ stage' = "ended"
  /\ UNCHANGED <<tree, baseline, saved, text, chosen, index, escaped, clean, alone,
                 touched, stuck, edits, sweeps, kills>>

EndSweep ==
  /\ stage = "apply" /\ index > Len(chosen)
  /\ clean' = (clean /\ tree = baseline)
  /\ stage' = "ended"
  /\ UNCHANGED <<tree, baseline, saved, text, chosen, index, escaped, alone, touched,
                 stuck, edits, sweeps, kills>>

ReturnSweep ==
  /\ stage = "ended"
  /\ stage' = "idle"
  /\ UNCHANGED <<tree, baseline, saved, text, chosen, index, escaped, clean, alone,
                 touched, stuck, edits, sweeps, kills>>

\* The process is killed, in the middle of a write or of the verifier's run.
KillSweep ==
  /\ stage \notin {"idle", "ended"} /\ kills < MaxKills
  /\ tree' \in {tree} \cup
       IF stage \in {"write", "defend", "revert"}
       THEN {[tree EXCEPT ![File] = With(@, CutOff)]} ELSE {}
  /\ saved' = [m \in Mutations |-> NotSaved] /\ stuck' = {}
  /\ stage' = "idle" /\ kills' = kills + 1
  /\ UNCHANGED <<baseline, text, chosen, index, escaped, clean, alone, touched, edits,
                 sweeps>>

\* The operator edits a file, to something new, and may take out what does not belong
\* there.  From the snapshot to the revert the sweep is at the mutation of a file.
AtIt(f) == stage \in {"read", "write", "verify", "defend", "revert"} /\ f = File

Edit(f) ==
  /\ edits < MaxEdits
  /\ \E W \in {{}, tree[f].with} :
       tree' = [tree EXCEPT ![f] =
                  [edit |-> edits + 1, with |-> W,
                   late |-> AtIt(f) \/ \E m \in stuck : FileOf[m] = f]]
  /\ alone' = IF stage = "verify" THEN alone \ {Mutation} ELSE alone
  /\ touched' = IF AtIt(f) /\ stage # "revert" THEN touched \cup {Mutation} ELSE touched
  /\ edits' = edits + 1
  /\ UNCHANGED <<baseline, saved, text, stage, chosen, index, escaped, clean, stuck, sweeps,
                 kills>>

SweepNext ==
  \/ StartSweep
  \/ Save \/ Read \/ Write \/ ApplyThrows \/ VerifierEnds \/ Defend \/ Revert
  \/ EndSweep \/ ReturnSweep \/ KillSweep
  \/ \E f \in SweepFiles : Edit(f)
----------------------------------------------------------------------------
SweepSpec == SweepInit /\ [][SweepNext]_sweepVars

(* A sweep that returns ok has verified every mutation of its list in the    *)
(* tree it found, with no other mutation and no edit beside it, but for one  *)
(* whose own file was edited under it: that edit is undone by the revert,    *)
(* and no hash has seen it.  And it leaves no mutation there.  This holds    *)
(* whatever failed or was killed before, but a revert in the same process,   *)
(* whose late restoring hides edits from the hash.                           *)
OkIsEarned ==
  stage = "ended" /\ escaped = {} /\ clean /\ stuck = {} =>
    /\ \A i \in DOMAIN chosen : chosen[i] \in alone \cup touched
    /\ \A f \in SweepFiles : tree[f].with \subseteq baseline[f].with

(* A revert takes back an edit of the operator only if it was made while the *)
(* sweep was at a mutation of that file, or after one of its reverts failed  *)
(* in the same process.                                                      *)
EditsSurvive ==
  [][\A f \in SweepFiles : tree'[f].edit < tree[f].edit => tree[f].late]_sweepVars
=============================================================================
