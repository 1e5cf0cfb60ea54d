-------------------------- MODULE WorkStateJournal --------------------------
(***************************************************************************)
(* The undo/redo journal of one Intent directory: #commitFiles,            *)
(* #recoverIntentTransaction and #withIntentLock of                        *)
(* packages/core/src/work-state.ts.                                        *)
(*                                                                         *)
(* An operation holds the directory lock, replays a journal left behind by *)
(* an earlier one, and then replaces one record with a rename, or several  *)
(* Assignments and their Intent under the journal.  Every file-system call *)
(* may fail, before or after its effect, and the process may die between   *)
(* any two of them.  The lock is taken for granted here: one operation at  *)
(* a time (WorkStateLock is about the lock).                               *)
(***************************************************************************)
EXTENDS Integers

CONSTANTS
    Assignments,  \* the records assignments/{id}.toon of the Intent
    IntentFile,   \* the record intent.toon
    NoJournal,    \* .holycodex-transaction.toon is absent
    NoRequest,    \* no operation is running
    MaxOps,       \* bound: operations begun
    MaxFaults     \* bound: I/O errors and crashes

Files == Assignments \cup {IntentFile}

(* A journaled write pairs one or more Assignments with their Intent. *)
Journaled == {A \cup {IntentFile} : A \in (SUBSET Assignments) \ {{}}}

(* Every other write replaces a single record. *)
Singles == {{f} : f \in Files}

Writes == Singles \cup Journaled

(* WorkStateTransactionSchema for the files S. *)
Journals(S) ==
    [state : {"prepared", "committed"}, previous : [S -> Nat], next : [S -> Nat]]

ASSUME JournalAssumption ==
    /\ IntentFile \notin Assignments
    /\ \A S \in Journaled : NoJournal \notin Journals(S)
    /\ \A S \in Writes : NoRequest \notin [S -> Nat]
    /\ MaxOps \in Nat
    /\ MaxFaults \in Nat

VARIABLES
    disk,     \* contents of the record files: the number of the last write
    journal,  \* the journal file: NoJournal, or its state and both contents
    pc,       \* where the running operation is
    todo,     \* the files the current loop of writes has still to replace
    request,  \* file -> new contents, for the running operation
    reply,    \* what the last operation to end told its caller
    ops,      \* operations begun (bounded by MaxOps)
    faults    \* errors and crashes so far (bounded by MaxFaults)

vars == <<disk, journal, pc, todo, request, reply, ops, faults>>

(***************************************************************************)
(* What the files mean together.                                           *)
(***************************************************************************)

(* Mutant: the replay ignores the commit mark. *)
ReplayedUndo(j) == j.previous

(* The contents a replay of the journal writes: undo before the commit     *)
(* mark, redo after it.                                                    *)
Replayed(j) == IF j.state = "committed" THEN j.next ELSE j.previous

(* The store a caller finds once the journal has been replayed. *)
Store ==
    [f \in Files |->
        IF journal # NoJournal
          THEN IF f \in DOMAIN journal.next THEN Replayed(journal)[f] ELSE disk[f]
          ELSE disk[f]]

(* Files are written in the order of the journal, the Intent last. *)
NextFile(f) == f \in todo /\ (f = IntentFile => todo = {IntentFile})

Init ==
    /\ disk = [f \in Files |-> 0]
    /\ journal = NoJournal
    /\ pc = "idle"
    /\ todo = {}
    /\ request = NoRequest
    /\ reply = "none"
    /\ ops = 0
    /\ faults = 0

(***************************************************************************)
(* Ends of an operation.                                                   *)
(***************************************************************************)
(* Mutant: what was asked for is not forgotten. *)
EndKeeping(why) ==
    /\ pc' = "idle"
    /\ todo' = {}
    /\ reply' = why
    /\ UNCHANGED request

End(why) ==
    /\ pc' = "idle"
    /\ todo' = {}
    /\ request' = NoRequest
    /\ reply' = why

Fault == faults < MaxFaults /\ faults' = faults + 1

(***************************************************************************)
(* Acquiring the lock, replaying the journal.                              *)
(***************************************************************************)
(* Mutant: an operation does not look for a journal. *)
BeginUnrecovered ==
    /\ pc = "idle"
    /\ ops < MaxOps
    /\ ops' = ops + 1
    /\ \E S \in Writes : request' = [f \in S |-> ops + 1]
    /\ reply' = "none"
    /\ pc' = "locked"
    /\ todo' = {}
    /\ UNCHANGED <<disk, journal, faults>>

Begin ==
    /\ pc = "idle"
    /\ ops < MaxOps
    /\ ops' = ops + 1
    /\ \E S \in Writes : request' = [f \in S |-> ops + 1]
    /\ reply' = "none"
    /\ IF journal = NoJournal
         THEN pc' = "locked" /\ todo' = {}
         ELSE pc' = "recovering" /\ todo' = DOMAIN journal.next
    /\ UNCHANGED <<disk, journal, faults>>

(* One atomicWriteText of the replay, on entry ("recovering") or after a   *)
(* failed commit ("undoing").                                              *)
Replay(f) ==
    /\ pc \in {"recovering", "undoing"}
    /\ NextFile(f)
    /\ disk' = [disk EXCEPT ![f] = Replayed(journal)[f]]
    /\ todo' = todo \ {f}
    /\ UNCHANGED <<journal, pc, request, reply, ops, faults>>

(* Mutant: a replayed journal stays. *)
DiscardNothing ==
    /\ pc \in {"recovering", "undoing"}
    /\ todo = {}
    /\ IF pc = "recovering"
         THEN pc' = "locked" /\ UNCHANGED <<todo, request, reply>>
         ELSE End("failed")
    /\ UNCHANGED <<disk, journal, ops, faults>>

(* The journal goes last.  On entry the operation may now read the records; *)
(* after a failed commit its error is handed to the caller.                 *)
Discard ==
    /\ pc \in {"recovering", "undoing"}
    /\ todo = {}
    /\ journal' = NoJournal
    /\ IF pc = "recovering"
         THEN pc' = "locked" /\ UNCHANGED <<todo, request, reply>>
         ELSE End("failed")
    /\ UNCHANGED <<disk, ops, faults>>

(* The replay fails: the journal may be gone already, only the directory   *)
(* sync having failed.                                                     *)
ReplayFails ==
    /\ pc \in {"recovering", "undoing"}
    /\ Fault
    /\ \/ /\ todo = {}
          /\ journal' \in {journal, NoJournal}
          /\ UNCHANGED disk
       \/ /\ \E f \in Files :
               /\ NextFile(f)
               /\ disk' \in {disk, [disk EXCEPT ![f] = Replayed(journal)[f]]}
          /\ UNCHANGED journal
    /\ End("failed")
    /\ UNCHANGED ops

(***************************************************************************)
(* The operation itself: one rename, or a journaled commit.                *)
(***************************************************************************)
WriteSingle ==
    /\ pc = "locked"
    /\ DOMAIN request \in Singles
    /\ disk' = [f \in Files |-> IF f \in DOMAIN request THEN request[f] ELSE disk[f]]
    /\ pc' = "written"
    /\ UNCHANGED <<journal, todo, request, reply, ops, faults>>

(* The directory has been synced, the operation returns. *)
SingleDone ==
    /\ pc = "written"
    /\ End("ok")
    /\ UNCHANGED <<disk, journal, ops, faults>>

(* The write of the record fails, or its directory sync does. *)
SingleFails ==
    /\ \/ pc = "written"
       \/ pc = "locked" /\ DOMAIN request \in Singles
    /\ Fault
    /\ End("failed")
    /\ UNCHANGED <<disk, journal, ops>>

(* The journal entry for the request, from the records just read. *)
Prepared ==
    [state |-> "prepared",
     previous |-> [f \in DOMAIN request |-> disk[f]],
     next |-> request]

(* The operation refuses the request: a stale revision, an invalid input. *)
Reject ==
    /\ pc = "locked"
    /\ End("failed")
    /\ UNCHANGED <<disk, journal, ops, faults>>

Prepare ==
    /\ pc = "locked"
    /\ DOMAIN request \in Journaled
    /\ journal' = Prepared
    /\ todo' = DOMAIN request
    /\ pc' = "writing"
    /\ UNCHANGED <<disk, request, reply, ops, faults>>

(* The first write of the journal is outside the guarded block: its error  *)
(* is passed on, and a journal that was renamed into place stays there.    *)
PrepareFails ==
    /\ pc = "locked"
    /\ DOMAIN request \in Journaled
    /\ Fault
    /\ journal' \in {journal, Prepared}
    /\ End("failed")
    /\ UNCHANGED <<disk, ops>>

Write(f) ==
    /\ pc = "writing"
    /\ NextFile(f)
    /\ disk' = [disk EXCEPT ![f] = request[f]]
    /\ todo' = todo \ {f}
    /\ UNCHANGED <<journal, pc, request, reply, ops, faults>>

(* Mutant: the commit mark does not wait for the files. *)
MarkEarly ==
    /\ pc = "writing"
    /\ journal' = [journal EXCEPT !.state = "committed"]
    /\ pc' = "marked"
    /\ UNCHANGED <<disk, todo, request, reply, ops, faults>>

Mark ==
    /\ pc = "writing"
    /\ todo = {}
    /\ journal' = [journal EXCEPT !.state = "committed"]
    /\ pc' = "marked"
    /\ UNCHANGED <<disk, todo, request, reply, ops, faults>>

(* A failure inside the guarded block replays the journal as it then is on *)
(* disk: redo when the commit mark was renamed into place, undo otherwise. *)
CommitFails ==
    /\ pc = "writing"
    /\ Fault
    /\ \/ /\ todo = {}
          /\ journal' \in {journal, [journal EXCEPT !.state = "committed"]}
          /\ UNCHANGED disk
       \/ /\ \E f \in Files :
               /\ NextFile(f)
               /\ disk' \in {disk, [disk EXCEPT ![f] = request[f]]}
          /\ UNCHANGED journal
    /\ pc' = "undoing"
    /\ todo' = DOMAIN request
    /\ UNCHANGED <<request, reply, ops>>

Remove ==
    /\ pc = "marked"
    /\ journal' = NoJournal
    /\ End("ok")
    /\ UNCHANGED <<disk, ops, faults>>

RemoveFails ==
    /\ pc = "marked"
    /\ Fault
    /\ journal' \in {journal, NoJournal}
    /\ End("failed")
    /\ UNCHANGED <<disk, ops>>

(* The process dies.  Its lock is reclaimed by a later operation. *)
Crash ==
    /\ pc # "idle"
    /\ Fault
    /\ End("crashed")
    /\ UNCHANGED <<disk, journal, ops>>

Step ==
    \/ Discard
    \/ WriteSingle
    \/ SingleDone
    \/ Reject
    \/ Prepare
    \/ Mark
    \/ Remove
    \/ \E f \in Files : Replay(f) \/ Write(f)

Failure ==
    \/ ReplayFails
    \/ SingleFails
    \/ PrepareFails
    \/ CommitFails
    \/ RemoveFails
    \/ Crash

Next == Begin \/ Step \/ Failure

Spec == Init /\ [][Next]_vars

(* A live process keeps taking its next file-system call. *)
FairSpec == Spec /\ WF_vars(Step) /\ WF_vars(Begin)

(***************************************************************************)
(* Properties.                                                             *)
(***************************************************************************)
(* The shape of the files and of the running operation: a journal pairs    *)
(* Assignments with their Intent, and an operation has a request exactly   *)
(* while it runs.                                                          *)
TypeOK ==
    /\ disk \in [Files -> Nat]
    /\ journal # NoJournal => \E S \in Journaled : journal \in Journals(S)
    /\ pc \in {"idle", "recovering", "locked", "written", "writing", "marked", "undoing"}
    /\ todo \subseteq Files
    /\ IF pc = "idle" THEN request = NoRequest ELSE \E S \in Writes : request \in [S -> Nat]
    /\ reply \in {"none", "ok", "failed", "crashed"}
    /\ ops \in 0..MaxOps
    /\ faults \in 0..MaxFaults

(* Where each program point leaves the files: the loop that writes or      *)
(* replays has dealt with every file it no longer has to do, and an        *)
(* operation that reads its records does so with no journal pending.  This *)
(* is what makes the undo and redo contents of the journal right.          *)
JournalInv ==
    /\ pc \in {"locked", "written"} => journal = NoJournal
    /\ pc \in {"recovering", "undoing"} =>
         /\ journal # NoJournal
         /\ todo \subseteq DOMAIN journal.next
         /\ \A f \in DOMAIN journal.next \ todo : disk[f] = Replayed(journal)[f]
    /\ pc = "undoing" => journal.next = request
    /\ pc = "writing" =>
         /\ journal # NoJournal
         /\ journal.state = "prepared"
         /\ journal.next = request
         /\ todo \subseteq DOMAIN request
         /\ \A f \in DOMAIN request \ todo : disk[f] = request[f]
    /\ pc = "marked" =>
         /\ journal # NoJournal
         /\ journal.state = "committed"
         /\ journal.next = request
         /\ \A f \in DOMAIN request : disk[f] = request[f]
    /\ pc = "written" => \A f \in DOMAIN request : disk[f] = request[f]

(* Whatever fails or dies and however often a replay is itself cut short,  *)
(* an operation replaces all of its records or none, in one step, and a    *)
(* success is reported only after that step: commitFiles implements the    *)
(* abstract store.                                                         *)
Taken ==
    \/ pc \in {"written", "marked"}
    \/ pc = "undoing" /\ journal.state = "committed"

Abstract == INSTANCE AtomicStore WITH store <- Store, applied <- Taken
Implements == Abstract!Spec

(* An operation that returns successfully leaves its own contents in every *)
(* record it names and no journal that could later roll them back.         *)
SuccessIsFinal ==
    [][reply' = "ok" /\ reply # "ok" =>
         /\ journal' = NoJournal
         /\ \A f \in DOMAIN request : disk'[f] = request[f]]_vars

(* A journal left behind does not outlive the operations that follow it:   *)
(* while there are more operations to come than failures, one of them gets *)
(* through the replay.                                                     *)
PendingResolved ==
    (journal # NoJournal /\ MaxOps - ops > MaxFaults - faults) ~> (journal = NoJournal)
============================================================================
