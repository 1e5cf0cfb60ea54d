------------------------- MODULE WorkStateLockProofs -------------------------
(***************************************************************************)
(* Proofs about WorkStateLock, for every set of processes and every bound. *)
(***************************************************************************)
EXTENDS WorkStateLock, TLAPS

(* A process that has created .owner and not yet started to release the    *)
(* lock is the one the file names, as long as nobody has been robbed.      *)
Fenced == {"write", "work", "check"}

FenceInv == ~robbed => \A p \in Proc : pc[p] \in Fenced => owner = p

(* Until a process dies or the stale limit passes, the directory has one   *)
(* holder, nobody reclaims, and .owner follows the holder.                 *)
Holding == Fenced \cup {"open", "release", "releaseDir"}

LosslessInv ==
    crashes = 0 /\ ages = 0 =>
        /\ ~robbed
        /\ ~old
        /\ \A p \in Proc : ~seenOld[p] /\ pc[p] \notin {"dead", "reclaim", "reclaimDir"}
        /\ \A p \in Proc : pc[p] \in Holding =>
             /\ dir
             /\ owner = IF pc[p] \in {"open", "releaseDir"} THEN None ELSE p
             /\ \A q \in Proc : pc[q] \in Holding => p = q

IInv == TypeOK /\ FenceInv /\ LosslessInv

(* The bounds are numbers. *)
LEMMA Bounds ==
    /\ None \notin Proc /\ MaxTries \in Nat /\ MaxTries > 0
    /\ MaxRounds \in Nat /\ MaxCrashes \in Nat /\ MaxAges \in Nat /\ MaxErrors \in Nat
BY LockAssumption

(* Sending a process to a program point keeps the type of pc. *)
LEMMA GotoType ==
    ASSUME pc \in [Proc -> PCs], NEW p \in Proc, NEW l \in PCs, Goto(p, l)
    PROVE  pc' \in [Proc -> PCs]
BY DEF Goto

(* Every step keeps the types. *)
LEMMA TypeStep ==
    ASSUME TypeOK, [Next]_vars
    PROVE  TypeOK'
<1> USE Bounds DEF TypeOK
<1>a. {"idle", "try", "look", "judge", "reclaim", "reclaimDir", "release", "releaseDir",
       "open", "write", "work", "check", "dead"} \subseteq PCs
  BY DEF PCs, Waiting, Removing
<1> USE <1>a, GotoType
<1>1. CASE UNCHANGED vars
  BY <1>1 DEF vars, file, counters
<1>2. ASSUME NEW p \in Proc, Call(p) PROVE TypeOK'
  BY <1>2 DEF Call, file
<1>3. ASSUME NEW p \in Proc, Mkdir(p) PROVE TypeOK'
  <2>1. tries' \in [Proc -> 0..MaxTries]
    BY <1>3 DEF Mkdir
  <2>2. pc' \in [Proc -> PCs]
    BY <1>3 DEF Mkdir
  <2> QED
    BY <1>3, <2>1, <2>2 DEF Mkdir, file, counters
<1>4. ASSUME NEW p \in Proc, GiveUp(p) \/ Judge(p) \/ Finish(p) \/ CheckOwner(p) PROVE TypeOK'
  <2>1. CASE GiveUp(p) \/ Finish(p) \/ CheckOwner(p)
    <3>1. pc' \in [Proc -> PCs]
      BY <2>1 DEF GiveUp, Finish, CheckOwner
    <3>2. UNCHANGED <<file, tries, seenOld, counters, robbed>>
      BY <2>1 DEF GiveUp, Finish, CheckOwner
    <3> QED
      BY <3>1, <3>2 DEF file, counters
  <2>2. CASE Judge(p)
    <3>1. pc' \in [Proc -> PCs]
      BY <2>2 DEF Judge
    <3>2. seenOld' \in [Proc -> BOOLEAN]
      BY <2>2 DEF Judge
    <3> QED
      BY <2>2, <3>1, <3>2 DEF Judge, file, counters
  <2> QED
    BY <1>4, <2>1, <2>2
<1>5. ASSUME NEW p \in Proc, Look(p) PROVE TypeOK'
  BY <1>5 DEF Look, file, counters
<1>6. ASSUME NEW p \in Proc, Reclaim(p) \/ Release(p) PROVE TypeOK'
  BY <1>6 DEF Reclaim, Release, Unlink, Alive, counters
<1>7. ASSUME NEW p \in Proc, ReclaimDir(p) \/ ReleaseDir(p) PROVE TypeOK'
  <2>1. pc' \in [Proc -> PCs]
    BY <1>7 DEF ReclaimDir, ReleaseDir, Rmdir
  <2>2. UNCHANGED <<owner, published, tries, seenOld, counters, robbed>>
    BY <1>7 DEF ReclaimDir, ReleaseDir, Rmdir
  <2>3. dir' \in BOOLEAN /\ old' \in BOOLEAN /\ (owner' # None => dir')
    BY <1>7 DEF ReclaimDir, ReleaseDir, Rmdir
  <2> QED
    BY <2>1, <2>2, <2>3 DEF counters
<1>8. ASSUME NEW p \in Proc, OpenOwner(p) PROVE TypeOK'
  BY <1>8 DEF OpenOwner, file, counters
<1>9. ASSUME NEW p \in Proc, WriteOwner(p) PROVE TypeOK'
  BY <1>9 DEF WriteOwner, counters
<1>10. ASSUME NEW p \in Proc, WriteFails(p) PROVE TypeOK'
  BY <1>10 DEF WriteFails, file
<1>11. ASSUME NEW p \in Proc, Crash(p) PROVE TypeOK'
  BY <1>11 DEF Crash, file
<1>12. CASE Age
  BY <1>12 DEF Age
<1> QED
  BY <1>1, <1>2, <1>3, <1>4, <1>5, <1>6, <1>7, <1>8, <1>9, <1>10, <1>11, <1>12 DEF Next, Step

LEMMA FenceStep ==
    ASSUME TypeOK, FenceInv, [Next]_vars
    PROVE  FenceInv'
<1> USE LockAssumption DEF TypeOK, FenceInv, Fenced, Goto
<1>1. CASE UNCHANGED vars
  BY <1>1 DEF vars, file
<1>2. ASSUME NEW p \in Proc, Call(p) PROVE FenceInv'
  BY <1>2 DEF Call, file
<1>3. ASSUME NEW p \in Proc, Mkdir(p) PROVE FenceInv'
  <2>1. CASE dir
    BY <1>3, <2>1 DEF Mkdir, file
  <2>2. CASE ~dir
    BY <1>3, <2>2 DEF Mkdir
  <2> QED
    BY <2>1, <2>2
<1>4. ASSUME NEW p \in Proc, GiveUp(p) \/ Judge(p) \/ Finish(p) \/ CheckOwner(p) PROVE FenceInv'
  BY <1>4 DEF GiveUp, Judge, Finish, CheckOwner, file
<1>5. ASSUME NEW p \in Proc, Look(p) PROVE FenceInv'
  BY <1>5 DEF Look, file
<1>6. ASSUME NEW p \in Proc, Reclaim(p) \/ Release(p) PROVE FenceInv'
  BY <1>6 DEF Reclaim, Release, Unlink, Alive
<1>7. ASSUME NEW p \in Proc, ReclaimDir(p) \/ ReleaseDir(p) PROVE FenceInv'
  BY <1>7 DEF ReclaimDir, ReleaseDir, Rmdir
<1>8. ASSUME NEW p \in Proc, OpenOwner(p) PROVE FenceInv'
  BY <1>8 DEF OpenOwner, file
<1>9. ASSUME NEW p \in Proc, WriteOwner(p) PROVE FenceInv'
  BY <1>9 DEF WriteOwner
<1>10. ASSUME NEW p \in Proc, WriteFails(p) \/ Crash(p) PROVE FenceInv'
  BY <1>10 DEF WriteFails, Crash, file
<1>11. CASE Age
  BY <1>11 DEF Age
<1> QED
  BY <1>1, <1>2, <1>3, <1>4, <1>5, <1>6, <1>7, <1>8, <1>9, <1>10, <1>11 DEF Next, Step

LEMMA LosslessStep ==
    ASSUME TypeOK, LosslessInv, [Next]_vars
    PROVE  LosslessInv'
<1> SUFFICES ASSUME crashes' = 0 /\ ages' = 0
             PROVE  LosslessInv'
  BY DEF LosslessInv
<1> USE LockAssumption DEF TypeOK, LosslessInv, Holding, Fenced, Goto
<1>1. CASE UNCHANGED vars
  BY <1>1 DEF vars, file, counters
<1>2. ASSUME NEW p \in Proc, Call(p) PROVE LosslessInv'
  BY <1>2 DEF Call, file
<1>3. ASSUME NEW p \in Proc, Mkdir(p) PROVE LosslessInv'
  <2>1. CASE dir
    BY <1>3, <2>1 DEF Mkdir, file, counters
  <2>2. CASE ~dir
    BY <1>3, <2>2 DEF Mkdir, counters
  <2> QED
    BY <2>1, <2>2
<1>4. ASSUME NEW p \in Proc, GiveUp(p) \/ Finish(p) \/ CheckOwner(p) PROVE LosslessInv'
  BY <1>4 DEF GiveUp, Finish, CheckOwner, file, counters
<1>5. ASSUME NEW p \in Proc, Look(p) PROVE LosslessInv'
  BY <1>5 DEF Look, file, counters
<1>6. ASSUME NEW p \in Proc, Judge(p) PROVE LosslessInv'
  <2>1. ~Reclaimable(p)
    BY <1>6 DEF Judge, Reclaimable, Alive, counters
  <2> QED
    BY <1>6, <2>1 DEF Judge, file, counters
<1>7. ASSUME NEW p \in Proc, Reclaim(p) \/ ReclaimDir(p) PROVE LosslessInv'
  BY <1>7 DEF Reclaim, ReclaimDir, Unlink, Rmdir, counters
<1>8. ASSUME NEW p \in Proc, Release(p) PROVE LosslessInv'
  BY <1>8 DEF Release, Unlink, Alive, counters
<1>9. ASSUME NEW p \in Proc, ReleaseDir(p) PROVE LosslessInv'
  BY <1>9 DEF ReleaseDir, Rmdir, counters
<1>10. ASSUME NEW p \in Proc, OpenOwner(p) PROVE LosslessInv'
  BY <1>10 DEF OpenOwner, file, counters
<1>11. ASSUME NEW p \in Proc, WriteOwner(p) PROVE LosslessInv'
  BY <1>11 DEF WriteOwner, counters
<1>12. ASSUME NEW p \in Proc, WriteFails(p) PROVE LosslessInv'
  BY <1>12 DEF WriteFails, file
<1>13. ASSUME NEW p \in Proc, Crash(p) PROVE LosslessInv'
  BY <1>13 DEF Crash
<1>14. CASE Age
  BY <1>14 DEF Age
<1> QED
  BY <1>1, <1>2, <1>3, <1>4, <1>5, <1>6, <1>7, <1>8, <1>9, <1>10, <1>11, <1>12, <1>13, <1>14
     DEF Next, Step

(* The inductive invariant of the lock. *)
THEOREM Inductive == Spec => []IInv
<1>1. Init => IInv
  <2>1. Init => TypeOK
    <3>1. Init => pc \in [Proc -> PCs] /\ seenOld \in [Proc -> BOOLEAN]
      BY DEF Init, PCs
    <3>2. Init => tries \in [Proc -> 0..MaxTries] /\ rounds \in [Proc -> 0..MaxRounds]
      BY Bounds DEF Init
    <3>3. Init => crashes \in 0..MaxCrashes /\ ages \in 0..MaxAges /\ errors \in 0..MaxErrors
      BY Bounds DEF Init
    <3> QED
      BY <3>1, <3>2, <3>3 DEF Init, TypeOK
  <2>2. Init => FenceInv /\ LosslessInv
    BY DEF Init, FenceInv, LosslessInv, Fenced, Holding
  <2> QED
    BY <2>1, <2>2 DEF IInv
<1>2. IInv /\ [Next]_vars => IInv'
  BY TypeStep, FenceStep, LosslessStep DEF IInv
<1>3. QED
  BY <1>1, <1>2, PTL DEF Spec

(* Operations of the store overlap only after the .owner of a live process *)
(* has been removed by another: the "wx" creation of .owner is the fence.  *)
THEOREM Exclusion == Spec => []ExclusiveUnlessRobbed
<1>1. IInv => ExclusiveUnlessRobbed
  BY DEF IInv, FenceInv, Fenced, ExclusiveUnlessRobbed, Exclusive
<1>2. QED
  BY <1>1, Inductive, PTL

(* And no such removal happens while every process lives and runs.         *)
THEOREM NoRobberyWhileAllLive == Spec => []RobbedOnlyAfterLoss
<1>1. IInv => RobbedOnlyAfterLoss
  BY DEF IInv, LosslessInv, TypeOK, RobbedOnlyAfterLoss
<1>2. QED
  BY <1>1, Inductive, PTL
============================================================================
