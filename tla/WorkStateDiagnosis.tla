------------------------- MODULE WorkStateDiagnosis -------------------------
(***************************************************************************)
(* IntentStore.diagnose of packages/core/src/work-state.ts next to the     *)
(* operations of WorkStateJournal.  A diagnosis takes no lock and replays  *)
(* nothing: it reads the Intent, looks for a journal, and then reads the   *)
(* Assignments one after another, while operations go on.                  *)
(***************************************************************************)
EXTENDS WorkStateJournal

CONSTANTS Unread   \* a record the diagnosis has not read yet

VARIABLES
    dpc,       \* where the diagnosis is
    dIntent,   \* contents of intent.toon as read
    dPending,  \* was "pending_transaction" added to the issues?
    dSeen,     \* contents of the Assignments as read
    quiet,     \* history: no operation ran since the diagnosis began
    paired     \* history: the writes made under a journal

dvars == <<dpc, dIntent, dPending, dSeen>>
allvars == <<vars, dvars, quiet, paired>>

DInit ==
    /\ Init
    /\ dpc = "idle"
    /\ dIntent = Unread
    /\ dPending = FALSE
    /\ dSeen = [a \in Assignments |-> Unread]
    /\ quiet = FALSE
    /\ paired = {}

(* An operation takes a step under the lock; the diagnosis is not told. *)
Operate ==
    /\ Next
    /\ quiet' = FALSE
    /\ paired' = IF pc' = "writing" THEN paired \cup {ops} ELSE paired
    /\ UNCHANGED dvars

(* The search for the referenced directory reads and keeps its Intent. *)
ReadIntent ==
    /\ dpc = "idle"
    /\ dIntent' = disk[IntentFile]
    /\ dpc' = "check"
    /\ dPending' = FALSE
    /\ dSeen' = [a \in Assignments |-> Unread]
    /\ quiet' = (pc = "idle")
    /\ UNCHANGED <<vars, paired>>

(* Mutant: the journal is not looked for. *)
CheckNothing ==
    /\ dpc = "check"
    /\ dPending' = FALSE
    /\ dpc' = "assignments"
    /\ UNCHANGED <<vars, dIntent, dSeen, quiet, paired>>

CheckJournal ==
    /\ dpc = "check"
    /\ dPending' = (journal # NoJournal)
    /\ dpc' = "assignments"
    /\ UNCHANGED <<vars, dIntent, dSeen, quiet, paired>>

ReadAssignment(a) ==
    /\ dpc = "assignments"
    /\ dSeen[a] = Unread
    /\ dSeen' = [dSeen EXCEPT ![a] = disk[a]]
    /\ UNCHANGED <<vars, dpc, dIntent, dPending, quiet, paired>>

Report ==
    /\ dpc = "assignments"
    /\ \A a \in Assignments : dSeen[a] # Unread
    /\ dpc' = "reported"
    /\ UNCHANGED <<vars, dIntent, dPending, dSeen, quiet, paired>>

(* The command ends; it may be run again. *)
Finish ==
    /\ dpc = "reported"
    /\ dpc' = "idle"
    /\ dIntent' = Unread
    /\ dPending' = FALSE
    /\ dSeen' = [a \in Assignments |-> Unread]
    /\ UNCHANGED <<vars, quiet, paired>>

Diagnose ==
    \/ ReadIntent
    \/ CheckJournal
    \/ \E a \in Assignments : ReadAssignment(a)
    \/ Report
    \/ Finish

DNext == Operate \/ Diagnose

DSpec == DInit /\ [][DNext]_allvars

(* The operations are fair as before; a diagnosis may stop anywhere. *)
DFairSpec ==
    /\ DSpec
    /\ WF_allvars(Operate /\ Step)
    /\ WF_allvars(Operate /\ Begin)

(***************************************************************************)
(* Properties.                                                             *)
(***************************************************************************)

(* docs/STATE.md: a diagnosis made when nothing else runs, for instance    *)
(* after the process that was writing has died, can be relied on: when it  *)
(* reports no pending transaction, the records it compared are the ones    *)
(* every later operation will find, and it reports one when they are not.  *)
QuietDiagnosisSound ==
    dpc = "reported" /\ quiet =>
        /\ dPending = (journal # NoJournal)
        /\ ~dPending => /\ dIntent = Store[IntentFile]
                        /\ \A a \in Assignments : dSeen[a] = Store[a]

(* docs/STATE.md: "a pending transaction is reported so Root can recover   *)
(* it before relying on the findings".  A diagnosis that reports none      *)
(* should not have compared an Assignment already replaced by a            *)
(* transaction with the Intent from before it.                             *)
WholeTransactionsOrReported ==
    dpc = "reported" /\ ~dPending =>
        \A a \in Assignments : dSeen[a] \in paired => dIntent >= dSeen[a]
============================================================================
