---------------------------- MODULE LedgerProofs ----------------------------
(* Proofs about Ledger: the directory lock excludes, and the path-claims are *)
(* exclusive locks, for any number of processes, until a process dies.       *)
EXTENDS Ledger, TLAPS

----------------------------------------------------------------------------
(* What appending a record does to the holder of a path.                    *)

\* A path has at most one last claim, so the snapshot's choice is that one.
LEMMA LastClaimIsHolder ==
  ASSUME NEW s \in Seq(Record), NEW q \in Paths,
         NEW i \in DOMAIN s, IsLastClaim(s, q, i)
  PROVE  HolderIn(s, q) = IF IsReleased(s, q, i) THEN Nobody ELSE s[i].who
<1>1. \A j \in DOMAIN s : IsLastClaim(s, q, j) => j = i
  BY DEF IsLastClaim, ClaimsIn
<1>2. (CHOOSE j \in DOMAIN s : IsLastClaim(s, q, j)) = i
  BY <1>1, Zenon
<1> QED
  BY <1>1, <1>2, Zenon DEF HolderIn

\* Without a claim that is the last one, the path has no holder.
LEMMA NoClaimNoHolder ==
  ASSUME NEW s \in Seq(Record), NEW q \in Paths,
         \A i \in DOMAIN s : ~IsLastClaim(s, q, i)
  PROVE  HolderIn(s, q) = Nobody
BY Zenon DEF HolderIn

\* An appended record that is not a claim of q leaves the last claim of q.
LEMMA AppendKeepsLast ==
  ASSUME NEW s \in Seq(Record), NEW r \in Record, NEW q \in Paths,
         ~(r.kind = "path-claim" /\ r.path = q)
  PROVE  /\ ClaimsIn(Append(s, r), q) = ClaimsIn(s, q)
         /\ \A i \in DOMAIN Append(s, r) :
              IsLastClaim(Append(s, r), q, i) <=> IsLastClaim(s, q, i)
<1>1. /\ DOMAIN s = 1 .. Len(s) /\ DOMAIN Append(s, r) = 1 .. Len(s) + 1
      /\ \A i \in 1 .. Len(s) : Append(s, r)[i] = s[i]
      /\ Append(s, r)[Len(s) + 1] = r /\ Len(s) \in Nat
  OBVIOUS
<1>2. ClaimsIn(Append(s, r), q) = ClaimsIn(s, q)
  BY <1>1 DEF ClaimsIn
<1> QED
  BY <1>2, Zenon DEF IsLastClaim

\* A claim makes its holder the holder of its path.
LEMMA ClaimTakes ==
  ASSUME NEW s \in Seq(Record), NEW r \in Record, r.kind = "path-claim"
  PROVE  HolderIn(Append(s, r), r.path) = r.who
<1> DEFINE t == Append(s, r)
           n == Len(s) + 1
<1>1. /\ t \in Seq(Record) /\ DOMAIN t = 1 .. n /\ n \in DOMAIN t
      /\ t[n] = r /\ Len(s) \in Nat /\ r.path \in Paths
  BY DEF Record
<1>2. IsLastClaim(t, r.path, n)
  BY <1>1 DEF IsLastClaim, ClaimsIn
<1>3. ~IsReleased(t, r.path, n)
  BY <1>1 DEF IsReleased
<1> HIDE DEF t, n
<1>4. HolderIn(t, r.path) = t[n].who
  BY <1>1, <1>2, <1>3, LastClaimIsHolder
<1> QED
  BY <1>1, <1>4 DEF t

\* A record about another path, or a release by somebody who does not hold the
\* path, changes nothing; a release by the holder frees the path.
LEMMA OtherwiseKept ==
  ASSUME NEW s \in Seq(Record), NEW r \in Record, NEW q \in Paths,
         ~(r.kind = "path-claim" /\ r.path = q)
  PROVE  \/ HolderIn(Append(s, r), q) = HolderIn(s, q)
         \/ /\ HolderIn(Append(s, r), q) = Nobody
            /\ r.kind = "path-release" /\ r.path = q /\ HolderIn(s, q) = r.who
<1> DEFINE t == Append(s, r)
           n == Len(s) + 1
<1>1. /\ t \in Seq(Record) /\ DOMAIN s = 1 .. Len(s) /\ DOMAIN t = 1 .. n
      /\ \A i \in DOMAIN s : i \in DOMAIN t /\ t[i] = s[i] /\ n > i
      /\ n \in DOMAIN t /\ t[n] = r /\ Len(s) \in Nat
  OBVIOUS
<1>2. \A i \in DOMAIN t : i \in DOMAIN s \/ i = n
  BY <1>1
<1>3. \A i \in DOMAIN t : IsLastClaim(t, q, i) <=> IsLastClaim(s, q, i)
  BY AppendKeepsLast
<1> HIDE DEF t, n
<1>4. CASE \A i \in DOMAIN s : ~IsLastClaim(s, q, i)
  <2>1. \A i \in DOMAIN t : ~IsLastClaim(t, q, i)
    BY <1>3, <1>4, Zenon DEF IsLastClaim, ClaimsIn
  <2> QED
    BY <1>1, <1>4, <2>1, NoClaimNoHolder DEF t
<1>5. CASE \E i \in DOMAIN s : IsLastClaim(s, q, i)
  <2> PICK i \in DOMAIN s : IsLastClaim(s, q, i)
    BY <1>5
  <2> i \in DOMAIN t /\ t[i] = s[i] /\ IsLastClaim(t, q, i) /\ n > i
    BY <1>1, <1>3
  <2>1. HolderIn(s, q) = IF IsReleased(s, q, i) THEN Nobody ELSE s[i].who
    BY LastClaimIsHolder
  <2>2. HolderIn(t, q) = IF IsReleased(t, q, i) THEN Nobody ELSE s[i].who
    BY <1>1, LastClaimIsHolder
  <2>3. IsReleased(s, q, i) => IsReleased(t, q, i)
    BY <1>1, Zenon DEF IsReleased
  <2>4. IsReleased(t, q, i) /\ ~IsReleased(s, q, i) =>
          r = [kind |-> "path-release", who |-> s[i].who, path |-> q]
    BY <1>1, <1>2, Zenon DEF IsReleased
  <2>5. CASE IsReleased(s, q, i)
    BY <2>1, <2>2, <2>3, <2>5, Zenon DEF t
  <2>6. CASE ~IsReleased(s, q, i) /\ ~IsReleased(t, q, i)
    BY <2>1, <2>2, <2>6, Zenon DEF t
  <2>7. CASE ~IsReleased(s, q, i) /\ IsReleased(t, q, i)
    <3>1. r.kind = "path-release" /\ r.who = s[i].who /\ r.path = q
      BY <2>4, <2>7
    <3> QED
      BY <2>1, <2>2, <2>7, <3>1, Zenon DEF t
  <2> QED
    BY <2>5, <2>6, <2>7
<1> QED
  BY <1>4, <1>5

----------------------------------------------------------------------------
(* The type invariant.                                                      *)

LEMMA TypeInit == Init => TypeOK
<1> SUFFICES ASSUME Init PROVE TypeOK
  OBVIOUS
<1>1. log \in Seq(Record) /\ lock = Nobody /\ stale = FALSE
  BY DEF Init
<1>2. (CHOOSE r \in Record : TRUE) \in Record
  <2>1. PICK h \in Holders, q \in Paths : TRUE
    BY RecordAssumption
  <2>2. [kind |-> "path-claim", who |-> h, path |-> q] \in Record
    BY DEF Record
  <2> QED
    BY <2>2, Zenon
<1>3. call \in [Procs -> Record]
  BY <1>2 DEF Init
<1> QED
  BY <1>1, <1>3 DEF Init, TypeOK, Pc

LEMMA TypeStep == TypeOK /\ [Next]_vars => TypeOK'
<1> SUFFICES ASSUME TypeOK, [Next]_vars PROVE TypeOK'
  OBVIOUS
<1> USE DEF TypeOK, Pc
<1>1. CASE UNCHANGED vars
  BY <1>1 DEF vars
<1>2. CASE GrowStale
  BY <1>2 DEF GrowStale
<1>3. ASSUME NEW p \in Procs, Call(p) PROVE TypeOK'
  BY <1>3 DEF Call, At, Goto
<1>4. ASSUME NEW p \in Procs, TakeLock(p) PROVE TypeOK'
  BY <1>4 DEF TakeLock, At, Goto
<1>5. ASSUME NEW p \in Procs, SeeStale(p) PROVE TypeOK'
  BY <1>5 DEF SeeStale, At, Goto
<1>6. ASSUME NEW p \in Procs, Break(p) PROVE TypeOK'
  BY <1>6 DEF Break, At, Goto
<1>7. ASSUME NEW p \in Procs, GiveUp(p) PROVE TypeOK'
  BY <1>7 DEF GiveUp, At, Goto
<1>8. ASSUME NEW p \in Procs, WriteOwner(p) PROVE TypeOK'
  BY <1>8 DEF WriteOwner, At, Goto
<1>9. ASSUME NEW p \in Procs, CheckClaim(p) PROVE TypeOK'
  BY <1>9 DEF CheckClaim, At, Goto
<1>10. ASSUME NEW p \in Procs, AppendRecord(p) PROVE TypeOK'
  BY <1>10 DEF AppendRecord, At, Goto
<1>11. ASSUME NEW p \in Procs, Unlock(p) PROVE TypeOK'
  BY <1>11 DEF Unlock, At, Goto
<1>12. ASSUME NEW p \in Procs, Expire(p) PROVE TypeOK'
  BY <1>12 DEF Expire, At, Goto
<1>13. ASSUME NEW p \in Procs, Crash(p) PROVE TypeOK'
  BY <1>13 DEF Crash, At, Goto
<1> QED
  BY <1>1, <1>2, <1>3, <1>4, <1>5, <1>6, <1>7, <1>8, <1>9, <1>10, <1>11, <1>12,
     <1>13 DEF Next, Step

\* The file holds only records, and every process is at a step of withLedgerLock.
THEOREM TypeCorrect == Spec => []TypeOK
BY TypeInit, TypeStep, PTL DEF Spec

----------------------------------------------------------------------------
(* The lock, until a process dies: nobody finds it stale, so nobody breaks   *)
(* it, and whoever is past mkdir is the process whose directory it is.       *)

HasLock == {"owner", "locked", "append", "unlock"}

LockInv ==
  dead = {} =>
    /\ ~stale
    /\ \A p \in Procs : /\ pc[p] # "break"
                        /\ pc[p] \in HasLock => lock = p

LEMMA LockStep == TypeOK /\ LockInv /\ [Next]_vars => LockInv'
<1> SUFFICES ASSUME TypeOK, LockInv, [Next]_vars, dead' = {}
             PROVE  /\ ~stale'
                    /\ \A p \in Procs : /\ pc'[p] # "break"
                                        /\ pc'[p] \in HasLock => lock' = p
  BY DEF LockInv
<1> USE DEF TypeOK, LockInv, HasLock
<1>1. CASE UNCHANGED vars
  BY <1>1 DEF vars
<1>2. CASE GrowStale
  BY <1>2 DEF GrowStale
<1>3. ASSUME NEW p \in Procs, Call(p) PROVE dead = {} /\ LockInv'
  BY <1>3 DEF Call, At, Goto
<1>4. ASSUME NEW p \in Procs, TakeLock(p) PROVE dead = {} /\ LockInv'
  BY <1>4, NobodyAssumption DEF TakeLock, At, Goto
<1>5. ASSUME NEW p \in Procs, SeeStale(p) PROVE dead = {} /\ LockInv'
  BY <1>5 DEF SeeStale, At, Goto
<1>6. ASSUME NEW p \in Procs, Break(p) PROVE dead = {} /\ LockInv'
  BY <1>6 DEF Break, At, Goto
<1>7. ASSUME NEW p \in Procs, GiveUp(p) PROVE dead = {} /\ LockInv'
  BY <1>7 DEF GiveUp, At, Goto
<1>8. ASSUME NEW p \in Procs, WriteOwner(p) PROVE dead = {} /\ LockInv'
  BY <1>8 DEF WriteOwner, At, Goto
<1>9. ASSUME NEW p \in Procs, CheckClaim(p) PROVE dead = {} /\ LockInv'
  BY <1>9 DEF CheckClaim, At, Goto
<1>10. ASSUME NEW p \in Procs, AppendRecord(p) PROVE dead = {} /\ LockInv'
  BY <1>10 DEF AppendRecord, At, Goto
<1>11. ASSUME NEW p \in Procs, Unlock(p) PROVE dead = {} /\ LockInv'
  BY <1>11 DEF Unlock, At, Goto
<1>12. ASSUME NEW p \in Procs, Expire(p) PROVE dead = {} /\ LockInv'
  BY <1>12 DEF Expire, At, Goto
<1>13. ASSUME NEW p \in Procs, Crash(p) PROVE FALSE
  BY <1>13 DEF Crash
<1> QED
  BY <1>1, <1>2, <1>3, <1>4, <1>5, <1>6, <1>7, <1>8, <1>9, <1>10, <1>11, <1>12,
     <1>13 DEF Next, Step

LEMMA LockAlways == Spec => []LockInv
<1>1. Init => LockInv
  BY DEF Init, LockInv, HasLock
<1> QED
  BY <1>1, LockStep, TypeCorrect, PTL DEF Spec

\* Any number of processes contend for the ledger lock and time out: until one of
\* them dies, at most one is between its acquisition and its release.
THEOREM LockExcludes == Spec => []ExclusionUntilCrash
<1>1. LockInv => ExclusionUntilCrash
  BY DEF LockInv, HasLock, ExclusionUntilCrash, MutualExclusion, InLock
<1> QED
  BY <1>1, LockAlways, PTL

----------------------------------------------------------------------------
(* The path-claims.  A process about to append a claim has found the path    *)
(* free or its own, and nobody else has appended since: that is the lock.    *)

ClaimInv ==
  dead = {} =>
    \A p \in Procs :
      pc[p] = "append" /\ call[p].kind = "path-claim" =>
        HolderOf(call[p].path) \in {Nobody, call[p].who}

LEMMA ClaimStep ==
  TypeOK /\ LockInv /\ ClaimInv /\ [Next]_vars => ClaimInv'
<1> SUFFICES ASSUME TypeOK, LockInv, ClaimInv, [Next]_vars, dead' = {},
                    NEW q \in Procs, pc'[q] = "append", call'[q].kind = "path-claim"
             PROVE  HolderOf(call[q].path)' \in {Nobody, call'[q].who}
  BY DEF ClaimInv
<1>0. ASSUME log' = log, dead = {}, pc[q] = "append", call'[q] = call[q]
      PROVE  HolderOf(call[q].path)' \in {Nobody, call'[q].who}
  BY <1>0 DEF ClaimInv, HolderOf
<1> USE DEF TypeOK
<1>1. CASE UNCHANGED vars
  BY <1>0, <1>1 DEF vars
<1>2. CASE GrowStale
  BY <1>0, <1>2 DEF GrowStale
<1>3. ASSUME NEW p \in Procs, Call(p)
      PROVE  log' = log /\ dead = {} /\ pc[q] = "append" /\ call'[q] = call[q]
  BY <1>3 DEF Call, At, Goto
<1>4. ASSUME NEW p \in Procs, TakeLock(p) \/ SeeStale(p) \/ Break(p) \/ GiveUp(p)
      PROVE  log' = log /\ dead = {} /\ pc[q] = "append" /\ call'[q] = call[q]
  BY <1>4 DEF TakeLock, SeeStale, Break, GiveUp, At, Goto
<1>5. ASSUME NEW p \in Procs, WriteOwner(p) \/ Unlock(p) \/ Expire(p)
      PROVE  log' = log /\ dead = {} /\ pc[q] = "append" /\ call'[q] = call[q]
  BY <1>5 DEF WriteOwner, Unlock, Expire, At, Goto
<1>6. ASSUME NEW p \in Procs, CheckClaim(p)
      PROVE  HolderOf(call[q].path)' \in {Nobody, call'[q].who}
  <2>1. log' = log /\ dead = {} /\ call' = call
    BY <1>6 DEF CheckClaim
  <2>2. CASE p = q
    BY <1>6, <2>1, <2>2 DEF CheckClaim, At, Goto, HolderOf
  <2>3. CASE p # q
    BY <1>0, <1>6, <2>1, <2>3 DEF CheckClaim, At, Goto
  <2> QED
    BY <2>2, <2>3
<1>7. ASSUME NEW p \in Procs, AppendRecord(p) PROVE FALSE
  BY <1>7 DEF AppendRecord, At, Goto, LockInv, HasLock
<1>8. ASSUME NEW p \in Procs, Crash(p) PROVE FALSE
  BY <1>8 DEF Crash
<1> QED
  BY <1>0, <1>1, <1>2, <1>3, <1>4, <1>5, <1>6, <1>7, <1>8 DEF Next, Step

LEMMA ClaimAlways == Spec => []ClaimInv
<1>1. Init => ClaimInv
  BY DEF Init, ClaimInv
<1> QED
  BY <1>1, ClaimStep, TypeCorrect, LockAlways, PTL DEF Spec

\* A holder of a path is a holder, so a path held by somebody is not free.
LEMMA HolderIsHolder ==
  ASSUME NEW s \in Seq(Record), NEW q \in Paths
  PROVE  HolderIn(s, q) \in Holders \cup {Nobody}
<1>1. ASSUME NEW i \in DOMAIN s PROVE s[i].who \in Holders
  <2>1. s[i] \in Record
    OBVIOUS
  <2> QED
    BY <2>1 DEF Record
<1>2. CASE \A i \in DOMAIN s : ~IsLastClaim(s, q, i)
  BY <1>2, NoClaimNoHolder
<1>3. CASE \E i \in DOMAIN s : IsLastClaim(s, q, i)
  <2> PICK i \in DOMAIN s : IsLastClaim(s, q, i)
    BY <1>3
  <2> QED
    BY <1>1, LastClaimIsHolder
<1> QED
  BY <1>2, <1>3

LEMMA AppendImplementsPathLocks ==
  ASSUME TypeOK, ClaimInv, dead = {}, NEW p \in Procs, AppendRecord(p)
  PROVE  PL!Next \/ Owner' = Owner
<1> DEFINE r == call[p]
<1>1. r \in Record /\ log \in Seq(Record) /\ log' = Append(log, r) /\ pc[p] = "append"
  BY DEF TypeOK, AppendRecord, At
<1>2. r.kind \in {"path-claim", "path-release"} /\ r.who \in Holders /\ r.path \in Paths
  BY <1>1 DEF Record
<1>3. r.kind = "path-claim" => HolderIn(log, r.path) \in {Nobody, r.who}
  BY <1>1 DEF ClaimInv, HolderOf
<1>4. Owner = [q \in Paths |-> HolderIn(log, q)]
      /\ Owner' = [q \in Paths |-> HolderIn(Append(log, r), q)]
  BY <1>1 DEF Owner, HolderOf
<1> HIDE DEF r
<1>5. CASE r.kind = "path-claim"
  <2>1. HolderIn(Append(log, r), r.path) = r.who
    BY <1>1, <1>5, ClaimTakes
  <2>2. ASSUME NEW q \in Paths, q # r.path
        PROVE  HolderIn(Append(log, r), q) = HolderIn(log, q)
    <3>1. ~(r.kind = "path-claim" /\ r.path = q) /\ r.kind # "path-release"
      BY <1>5, <2>2
    <3> QED
      BY <1>1, <3>1, OtherwiseKept
  <2>3. Owner' = [Owner EXCEPT ![r.path] = r.who]
    BY <1>2, <1>4, <2>1, <2>2, Zenon
  <2>4. Owner[r.path] \in {Nobody, r.who}
    BY <1>2, <1>3, <1>4, <1>5
  <2>5. PL!Acquire(r.who, r.path)
    BY <2>3, <2>4 DEF PL!Acquire
  <2> QED
    BY <1>2, <2>5 DEF PL!Next
<1>6. CASE r.kind = "path-release"
  <2>1. ASSUME NEW q \in Paths
        PROVE  \/ HolderIn(Append(log, r), q) = HolderIn(log, q)
               \/ /\ HolderIn(Append(log, r), q) = Nobody
                  /\ r.path = q /\ HolderIn(log, q) = r.who
    <3>1. ~(r.kind = "path-claim" /\ r.path = q)
      BY <1>6
    <3> QED
      BY <1>1, <3>1, OtherwiseKept
  <2>2. CASE HolderIn(Append(log, r), r.path) = HolderIn(log, r.path)
    <3>1. \A q \in Paths : HolderIn(Append(log, r), q) = HolderIn(log, q)
      BY <2>1, <2>2
    <3> QED
      BY <1>4, <3>1, Zenon
  <2>3. CASE HolderIn(Append(log, r), r.path) # HolderIn(log, r.path)
    <3>1. HolderIn(log, r.path) = r.who /\ HolderIn(Append(log, r), r.path) = Nobody
      BY <1>2, <2>1, <2>3
    <3>2. \A q \in Paths : q # r.path => HolderIn(Append(log, r), q) = HolderIn(log, q)
      BY <2>1
    <3>3. Owner' = [Owner EXCEPT ![r.path] = Nobody]
      BY <1>2, <1>4, <3>1, <3>2, Zenon
    <3>4. PL!Release(r.who, r.path)
      BY <1>2, <1>4, <3>1, <3>3 DEF PL!Release
    <3> QED
      BY <1>2, <3>4 DEF PL!Next
  <2> QED
    BY <2>2, <2>3
<1> QED
  BY <1>2, <1>5, <1>6

LEMMA StepImplementsPathLocks ==
  TypeOK /\ ClaimInv /\ [Next]_vars => [dead = {} => PL!Next]_Owner
<1> SUFFICES ASSUME TypeOK, ClaimInv, [Next]_vars, dead = {}
             PROVE  PL!Next \/ Owner' = Owner
  OBVIOUS
<1>0. ASSUME log' = log PROVE Owner' = Owner
  BY <1>0 DEF Owner, HolderOf
<1>1. CASE UNCHANGED vars
  BY <1>0, <1>1 DEF vars
<1>2. CASE GrowStale
  BY <1>0, <1>2 DEF GrowStale
<1>3. ASSUME NEW p \in Procs, AppendRecord(p) PROVE PL!Next \/ Owner' = Owner
  BY <1>3, AppendImplementsPathLocks
<1>4. ASSUME NEW p \in Procs,
             \/ Call(p) \/ TakeLock(p) \/ SeeStale(p) \/ Break(p) \/ GiveUp(p)
             \/ WriteOwner(p) \/ CheckClaim(p) \/ Unlock(p) \/ Expire(p) \/ Crash(p)
      PROVE  log' = log
  BY <1>4 DEF Call, TakeLock, SeeStale, Break, GiveUp, WriteOwner, CheckClaim,
              Unlock, Expire, Crash
<1> QED
  BY <1>0, <1>1, <1>2, <1>3, <1>4 DEF Next, Step

\* The path-claims of the file implement the exclusive locks of PathLocks until a
\* process dies, for any number of processes, holders and paths.
THEOREM ClaimsAreLocks == Spec => PathLocksUntilCrash
<1>1. Init => PL!Init
  <2>1. ASSUME log = <<>>, NEW q \in Paths PROVE HolderOf(q) = Nobody
    BY <2>1 DEF HolderOf, HolderIn, IsLastClaim, ClaimsIn
  <2> QED
    BY <2>1 DEF Init, PL!Init, Owner
<1>2. TypeOK /\ ClaimInv /\ [Next]_vars => [dead = {} => PL!Next]_Owner
  BY StepImplementsPathLocks
<1> QED
  BY <1>1, <1>2, TypeCorrect, ClaimAlways, PTL DEF Spec, PathLocksUntilCrash
=============================================================================
