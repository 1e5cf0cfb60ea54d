---------------------------- MODULE WorkStateLock ----------------------------
(***************************************************************************)
(* withLock of packages/core/src/work-state.ts: the directory .intent-store *)
(* taken by every operation of the store, the .owner file inside it, and    *)
(* the reclaiming of a lock whose owner is gone.                            *)
(*                                                                         *)
(* Each file-system call is a step of its own; the recursive rm is the     *)
(* unlink of .owner followed by the rmdir.  A process may die at any step, *)
(* or be suspended so long that a lock without owner looks stale.          *)
(***************************************************************************)
EXTENDS Integers

CONSTANTS
    Proc,         \* processes that call the store, each with its own pid
    None,         \* no process
    MaxTries,     \* attempts at the lock (200 in the code)
    MaxRounds,    \* bound: operations started by each process
    MaxCrashes,   \* bound: processes that die
    MaxAges,      \* bound: times the stale limit of LOCK_STALE_MS passes
    MaxErrors     \* bound: failed writes of an owner file

ASSUME LockAssumption ==
    /\ None \notin Proc
    /\ MaxTries \in Nat \ {0}
    /\ {MaxRounds, MaxCrashes, MaxAges, MaxErrors} \subseteq Nat

VARIABLES
    dir,       \* does the lock directory exist?
    owner,     \* the process that created .owner, None if the file is absent
    published, \* has that process written its pid and token?
    old,       \* is the directory unchanged for longer than LOCK_STALE_MS?
    pc,        \* where each process is
    tries,     \* attempts of the running acquisition
    seenOld,   \* is the modification time a process has read stale by now?
    rounds, crashes, ages, errors,  \* counters for the bounds
    robbed     \* history: the .owner of a live process was removed by another

counters == <<rounds, crashes, ages, errors>>
file == <<dir, owner, published, old>>
vars == <<file, pc, tries, seenOld, counters, robbed>>

Waiting == {"try", "look", "judge"}
Removing == {"reclaim", "reclaimDir", "release", "releaseDir"}
PCs == Waiting \cup Removing \cup {"idle", "open", "write", "work", "check", "dead"}

Alive(p) == pc[p] # "dead"

Goto(p, l) == pc' = [pc EXCEPT ![p] = l]

Init ==
    /\ dir = FALSE /\ owner = None /\ published = FALSE /\ old = FALSE
    /\ pc = [p \in Proc |-> "idle"]
    /\ tries = [p \in Proc |-> 0]
    /\ seenOld = [p \in Proc |-> FALSE]
    /\ rounds = [p \in Proc |-> 0]
    /\ crashes = 0 /\ ages = 0 /\ errors = 0
    /\ robbed = FALSE

(***************************************************************************)
(* Acquiring.                                                              *)
(***************************************************************************)
Call(p) ==
    /\ pc[p] = "idle"
    /\ rounds[p] < MaxRounds
    /\ rounds' = [rounds EXCEPT ![p] = @ + 1]
    /\ tries' = [tries EXCEPT ![p] = 0]
    /\ Goto(p, "try")
    /\ UNCHANGED <<file, seenOld, crashes, ages, errors, robbed>>

(* mkdir: it makes the directory, or finds it there (EEXIST).  After the   *)
(* last attempt the caller is told "stale_write".                          *)
Mkdir(p) ==
    /\ pc[p] = "try"
    /\ tries[p] < MaxTries
    /\ tries' = [tries EXCEPT ![p] = @ + 1]
    /\ IF ~dir
         THEN /\ dir' = TRUE
              /\ owner' = None /\ published' = FALSE /\ old' = FALSE
              /\ Goto(p, "open")
         ELSE Goto(p, "look") /\ UNCHANGED file
    /\ UNCHANGED <<seenOld, counters, robbed>>

GiveUp(p) ==
    /\ pc[p] = "try"
    /\ tries[p] = MaxTries
    /\ Goto(p, "idle")
    /\ UNCHANGED <<file, tries, seenOld, counters, robbed>>

(* lstat of the lock directory; if it has gone, sleep and try again. *)
Look(p) ==
    /\ pc[p] = "look"
    /\ IF ~dir
         THEN Goto(p, "try") /\ UNCHANGED seenOld
         ELSE /\ Goto(p, "judge")
              /\ seenOld' = [seenOld EXCEPT ![p] = old]
    /\ UNCHANGED <<file, tries, counters, robbed>>

(* Mutant: a lock without owner is reclaimed however young it is. *)
ReclaimableYoung(p) ==
    \/ owner # None /\ published /\ ~Alive(owner)
    \/ owner = None

(* Mutant: nobody asks whether a recorded owner still lives. *)
ReclaimableStale(p) == owner = None /\ seenOld[p]

(* readLockOwner and isProcessAlive.  A recorded owner that is dead, or no *)
(* owner at all in a directory examined as stale, lets the caller reclaim; *)
(* a live owner, or an owner file still unreadable, is left alone.         *)
Reclaimable(p) ==
    \/ owner # None /\ published /\ ~Alive(owner)
    \/ owner = None /\ seenOld[p]

Judge(p) ==
    /\ pc[p] = "judge"
    /\ Goto(p, IF Reclaimable(p) THEN "reclaim" ELSE "try")
    /\ seenOld' = [seenOld EXCEPT ![p] = FALSE]
    /\ UNCHANGED <<file, tries, counters, robbed>>

(***************************************************************************)
(* rm(lockPath, {recursive, force}): reclaiming and releasing.             *)
(***************************************************************************)
Unlink(p, from, to) ==
    /\ pc[p] = from
    /\ owner' = None
    /\ published' = FALSE
    /\ old' = (old /\ owner = None)
    /\ robbed' = (robbed \/ (owner \notin {None, p} /\ Alive(owner)))
    /\ Goto(p, to)
    /\ UNCHANGED <<dir, tries, seenOld, counters>>

(* Mutant: the directory goes, whatever is in it by now. *)
RmdirForced(p, from, again, to) ==
    /\ pc[p] = from
    /\ dir' = FALSE
    /\ old' = FALSE
    /\ Goto(p, to)
    /\ UNCHANGED <<owner, published, tries, seenOld, counters, robbed>>

(* rmdir, or another round when an owner file has appeared meanwhile. *)
Rmdir(p, from, again, to) ==
    /\ pc[p] = from
    /\ IF owner = None
         THEN dir' = FALSE /\ old' = FALSE /\ Goto(p, to)
         ELSE UNCHANGED <<dir, old>> /\ Goto(p, again)
    /\ UNCHANGED <<owner, published, tries, seenOld, counters, robbed>>

Reclaim(p) == Unlink(p, "reclaim", "reclaimDir")
ReclaimDir(p) == Rmdir(p, "reclaimDir", "reclaim", "try")

(***************************************************************************)
(* Publishing the owner, working, releasing.                               *)
(***************************************************************************)

(* Mutant: .owner is opened without "wx". *)
OpenOwnerShared(p) ==
    /\ pc[p] = "open"
    /\ IF ~dir
         THEN Goto(p, "idle") /\ UNCHANGED file
         ELSE /\ owner' = p /\ published' = FALSE /\ old' = FALSE
              /\ Goto(p, "write")
              /\ UNCHANGED dir
    /\ UNCHANGED <<tries, seenOld, counters, robbed>>

(* open(.owner, "wx"): fails if the directory has gone or has an owner. *)
OpenOwner(p) ==
    /\ pc[p] = "open"
    /\ IF ~dir \/ owner # None
         THEN Goto(p, "idle") /\ UNCHANGED file
         ELSE /\ owner' = p /\ published' = FALSE /\ old' = FALSE
              /\ Goto(p, "write")
              /\ UNCHANGED dir
    /\ UNCHANGED <<tries, seenOld, counters, robbed>>

(* Writing pid and token through the open handle: it succeeds even if the  *)
(* file has been unlinked, or replaced by another owner's.                 *)
WriteOwner(p) ==
    /\ pc[p] = "write"
    /\ published' = (published \/ owner = p)
    /\ Goto(p, "work")
    /\ UNCHANGED <<dir, owner, old, tries, seenOld, counters, robbed>>

(* The write or its sync fails: the caller is told, the lock stays, and may *)
(* carry the pid of a process that does not know of it.                    *)
WriteFails(p) ==
    /\ pc[p] = "write"
    /\ errors < MaxErrors
    /\ errors' = errors + 1
    /\ published' \in {published, published \/ owner = p}
    /\ Goto(p, "idle")
    /\ UNCHANGED <<dir, owner, old, tries, seenOld, rounds, crashes, ages, robbed>>

(* The operation under the lock ends, with a result or an error. *)
Finish(p) ==
    /\ pc[p] = "work"
    /\ Goto(p, "check")
    /\ UNCHANGED <<file, tries, seenOld, counters, robbed>>

(* removeOwnedLock: only a lock that still carries the caller's token. *)
CheckOwner(p) ==
    /\ pc[p] = "check"
    /\ Goto(p, IF owner = p /\ published THEN "release" ELSE "idle")
    /\ UNCHANGED <<file, tries, seenOld, counters, robbed>>

Release(p) == Unlink(p, "release", "releaseDir")
ReleaseDir(p) == Rmdir(p, "releaseDir", "release", "idle")

(***************************************************************************)
(* Death and time.                                                         *)
(***************************************************************************)
Crash(p) ==
    /\ pc[p] # "dead"
    /\ crashes < MaxCrashes
    /\ crashes' = crashes + 1
    /\ Goto(p, "dead")
    /\ UNCHANGED <<file, tries, seenOld, rounds, ages, errors, robbed>>

(* LOCK_STALE_MS passes while nobody touches the directory. *)
Age ==
    /\ ages < MaxAges
    /\ dir
    /\ ages' = ages + 1
    /\ old' = TRUE
    /\ seenOld' = [p \in Proc |-> pc[p] = "judge" \/ seenOld[p]]
    /\ UNCHANGED <<dir, owner, published, pc, tries, rounds, crashes, errors, robbed>>

Step(p) ==
    \/ Mkdir(p) \/ GiveUp(p) \/ Look(p) \/ Judge(p)
    \/ Reclaim(p) \/ ReclaimDir(p)
    \/ OpenOwner(p) \/ WriteOwner(p)
    \/ Finish(p) \/ CheckOwner(p) \/ Release(p) \/ ReleaseDir(p)

Next ==
    \/ \E p \in Proc : Call(p) \/ Step(p) \/ WriteFails(p) \/ Crash(p)
    \/ Age

Spec == Init /\ [][Next]_vars

(* A live process keeps executing the call it is in. *)
FairSpec == Spec /\ \A p \in Proc : WF_vars(Step(p))

(***************************************************************************)
(* Properties.                                                             *)
(***************************************************************************)
TypeOK ==
    /\ dir \in BOOLEAN
    /\ owner \in Proc \cup {None}
    /\ published \in BOOLEAN
    /\ old \in BOOLEAN
    /\ pc \in [Proc -> PCs]
    /\ tries \in [Proc -> 0..MaxTries]
    /\ seenOld \in [Proc -> BOOLEAN]
    /\ rounds \in [Proc -> 0..MaxRounds]
    /\ crashes \in 0..MaxCrashes
    /\ ages \in 0..MaxAges
    /\ errors \in 0..MaxErrors
    /\ robbed \in BOOLEAN
    /\ owner # None => dir
    /\ published => owner # None

(* "Serializes a mutation with an exclusive directory lock": no two        *)
(* operations run at a time.                                               *)
Exclusive == \A p, q \in Proc : pc[p] = "work" /\ pc[q] = "work" => p = q

(* The exclusive creation of .owner is what excludes: whatever dies, hangs *)
(* or fails between mkdir and rmdir, two operations run together only      *)
(* after a reclaim has removed the .owner of a process still alive.        *)
ExclusiveUnlessRobbed == robbed \/ Exclusive

(* That never happens before a process dies or LOCK_STALE_MS passes over a *)
(* lock without owner: processes that all live and run are serialized.     *)
RobbedOnlyAfterLoss == robbed => crashes > 0 \/ ages > 0

(* A recorded owner that has died does not keep the lock from a process    *)
(* that has an attempt left.                                               *)
DeadOwned == owner # None /\ published /\ ~Alive(owner)

DeadOwnerReclaimed ==
    \A p \in Proc :
        (DeadOwned /\ pc[p] \in Waiting /\ tries[p] < MaxTries)
            ~> (~DeadOwned \/ ~Alive(p))
============================================================================
