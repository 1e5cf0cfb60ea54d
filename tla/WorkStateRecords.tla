-------------------------- MODULE WorkStateRecords --------------------------
(***************************************************************************)
(* What IntentStore keeps outside the journal (packages/core/src/          *)
(* work-state.ts): the directories of several Intents and the pointer      *)
(* "current", the Plan with its archive, records of the previous schema    *)
(* that whoever reads them migrates, and the temporary file every write    *)
(* goes through.  Processes run whole commands and may die or fail at any  *)
(* write.  The locks are taken as given (WorkStateLock); a process that    *)
(* dies gives its locks up.                                                *)
(***************************************************************************)
EXTENDS Naturals, FiniteSets, FiniteSetsExt

CONSTANTS
    Procs,        \* processes
    Nobody,       \* no process
    None,         \* no record, no Plan, no selection
    Torn,         \* an archive opened but not filled
    MaxDirs,      \* bound: directories
    Commands,     \* the commands callers give
    ArchiveLimit, \* the largest index nextArchivePath reads back (999 in the code)
    MaxRuns,      \* bound: commands
    MaxFaults     \* bound: deaths and failed writes

WorkStateRecordsAssumption ==
    /\ Nobody \notin Procs
    /\ Commands \subseteq {"create", "select", "transition", "revise", "recover", "list", "current"}
    /\ {MaxDirs, ArchiveLimit, MaxRuns, MaxFaults} \subseteq Nat
    /\ MaxDirs > 0
    /\ None \notin Nat
    /\ None \notin [rev : Nat, plan : Nat \cup {None}, legacy : BOOLEAN]
    /\ None \notin [id : Nat, pred : Nat \cup {None}]

VARIABLES
    made,     \* the Intent directories
    rec,      \* directory -> intent.toon: its revision, the Plan it names, its schema
    plan,     \* directory -> plan.toon: its identity, and its predecessor's
    archive,  \* directory -> the contents of plan.old-{n}.toon
    current,  \* the directory the pointer names
    temps,    \* temporary files: where, and whose
    holder,   \* the lock of each directory, and of the root
    at,       \* process -> where it is
    mem,      \* process -> what it remembers
    runs,     \* commands so far; also the identity of the Plan a command writes
    faults,   \* deaths and failures so far
    written   \* history: the Plans that have ever been plan.toon

files == <<made, rec, plan, archive, current, written>>
vars == <<files, temps, holder, at, mem, runs, faults>>

(* The names createIntent tries for one title and goal, and the root. *)
Directories == 1..MaxDirs
Root == 0
Places == Directories \cup {Root}
Idle == [op |-> None, dir |-> Root, rec |-> None, plan |-> None, left |-> {}, write |-> None, id |-> 0]

(***************************************************************************)
(* Commands.                                                               *)
(***************************************************************************)
Go(p, place, m) == at' = [at EXCEPT ![p] = place] /\ mem' = [mem EXCEPT ![p] = m]
Keep == UNCHANGED <<runs, faults>>

(* recover, createIntent and listIntents begin with the lock of the root;  *)
(* the other commands with #locate, and currentIntent with a recovery.     *)
Begin(p, op, d) ==
    /\ at[p] = "idle"
    /\ runs < MaxRuns
    /\ op \in {"select", "transition", "revise"} => d \in made
    /\ op \notin {"select", "transition", "revise"} => d = Root
    /\ runs' = runs + 1
    /\ Go(p, IF d = Root THEN "enter_root" ELSE "locate",
          [Idle EXCEPT !.op = op, !.dir = d, !.id = runs + 1])
    /\ UNCHANGED <<files, temps, holder, faults>>

Free(p) == [h \in Places |-> IF holder[h] = p THEN Nobody ELSE holder[h]]

(* The command is over, and with it every lock of its own. *)
End(p) ==
    /\ Go(p, "idle", Idle)
    /\ holder' = Free(p)

(* atomicWriteText: what is to be written where, and what comes next. *)
Writing(m, file, d, value, next) ==
    [m EXCEPT !.write = [file |-> file, dir |-> d, value |-> value, next |-> next]]

Place(m) == IF m.write.file = "current" THEN Root ELSE m.write.dir

OpenTemp(p) ==
    /\ at[p] = "temp"
    /\ temps' = temps \cup {<<Place(mem[p]), p>>}
    /\ Go(p, "rename", mem[p])
    /\ UNCHANGED <<files, holder>> /\ Keep

Rename(p) ==
    LET w == mem[p].write IN
    /\ at[p] = "rename"
    /\ <<Place(mem[p]), p>> \in temps
    /\ temps' = temps \ {<<Place(mem[p]), p>>}
    /\ rec' = IF w.file = "rec" THEN [rec EXCEPT ![w.dir] = w.value] ELSE rec
    /\ plan' = IF w.file = "plan" THEN [plan EXCEPT ![w.dir] = w.value] ELSE plan
    /\ current' = IF w.file = "current" THEN w.value ELSE current
    /\ written' = IF w.file = "plan" THEN [written EXCEPT ![w.dir] = @ \cup {w.value.id}]
                  ELSE written
    /\ Go(p, w.next, [mem[p] EXCEPT !.write = None])
    /\ UNCHANGED <<made, archive, holder>> /\ Keep

(* Somebody has removed the temporary file: the command fails. *)
RenameFails(p) ==
    /\ at[p] = "rename"
    /\ <<Place(mem[p]), p>> \notin temps
    /\ End(p)
    /\ UNCHANGED <<files, temps>> /\ Keep

(***************************************************************************)
(* Reading.                                                                *)
(***************************************************************************)
Legacy(r) == r # None /\ r.legacy
Migrated(r) == [r EXCEPT !.legacy = FALSE]

(* #readIntentPath writes a record of the previous schema back, migrated,  *)
(* and then goes on as if it had read that.                                *)
Migrate(p, d, back) ==
    Go(p, "temp", Writing(mem[p], "rec", d, Migrated(rec[d]), back))

(* #locate reads the record of every directory, without any lock. *)
Locate(p) ==
    /\ at[p] = "locate"
    /\ IF \E d \in made : Legacy(rec[d])
         THEN (\E d \in made : Legacy(rec[d]) /\ Migrate(p, d, "locate")) /\ UNCHANGED holder
         ELSE IF rec[mem[p].dir] = None
           THEN End(p)
           ELSE /\ Go(p, IF mem[p].op = "select" THEN "reread" ELSE "enter", mem[p])
                /\ UNCHANGED holder
    /\ UNCHANGED <<files, temps>> /\ Keep

(* selectCurrent reads the record once more before it takes the root lock. *)
Reread(p) ==
    /\ at[p] = "reread"
    /\ IF Legacy(rec[mem[p].dir]) THEN Migrate(p, mem[p].dir, "reread")
       ELSE Go(p, "enter_root", mem[p])
    /\ UNCHANGED <<files, temps, holder>> /\ Keep

(* Mutant: whoever holds the lock is not waited for. *)
TakenAnyway(p, place) == holder' = [holder EXCEPT ![place] = p]

Taken(p, place) ==
    /\ holder[place] = Nobody
    /\ holder' = [holder EXCEPT ![place] = p]

(* #withIntentLock: the lock of the directory, and under it first          *)
(* #recoverIntentDirectory, which removes the temporary files of the        *)
(* directory, whoever has made them.                                       *)
Enter(p) ==
    /\ at[p] = "enter"
    /\ Taken(p, mem[p].dir)
    /\ temps' = {t \in temps : t[1] # mem[p].dir}
    /\ Go(p, "read", mem[p])
    /\ UNCHANGED files /\ Keep

Revised(r, named) == [r EXCEPT !.rev = @ + 1, !.plan = named]

Read(p) ==
    LET m == mem[p]
        r == rec[m.dir]
    IN
    /\ at[p] = "read"
    /\ IF Legacy(r)
         THEN Migrate(p, m.dir, "read") /\ UNCHANGED holder
         ELSE \/ m.op \in {"list", "recover"} /\ Go(p, "leave", m) /\ UNCHANGED holder
              \/ /\ m.op = "current" \/ (m.op \in {"transition", "revise"} /\ r = None)
                 /\ End(p)
              \/ /\ m.op = "transition" /\ r # None /\ UNCHANGED holder
                 /\ Go(p, "temp", Writing(m, "rec", m.dir, Revised(r, r.plan), "end"))
              \/ /\ m.op = "revise" /\ r # None /\ UNCHANGED holder
                 /\ Go(p, "archive", [m EXCEPT !.rec = r, !.plan = plan[m.dir]])
    /\ UNCHANGED <<files, temps>> /\ Keep

(***************************************************************************)
(* revisePlan: archive the old Plan, write the new one, name it.           *)
(***************************************************************************)
(* nextArchivePath: one more than the largest index of three digits. *)
NextIndex(d) == 1 + Max({0} \cup {n \in DOMAIN archive[d] : n <= ArchiveLimit})

NewPlan(m) == [id |-> m.id, pred |-> IF m.plan = None THEN None ELSE m.plan.id]

WritePlan(p) == Go(p, "temp", Writing(mem[p], "plan", mem[p].dir, NewPlan(mem[p]), "name"))

(* Mutant: the new Plan is written first. *)
NoArchive(p) ==
    /\ at[p] = "archive"
    /\ WritePlan(p)
    /\ UNCHANGED <<files, temps, holder>> /\ Keep

(* immutableWrite creates the file, or fails when there is one. *)
OpenArchive(p) ==
    LET d == mem[p].dir IN
    /\ at[p] = "archive"
    /\ IF mem[p].plan = None
         THEN WritePlan(p) /\ UNCHANGED <<archive, holder>>
         ELSE IF NextIndex(d) \in DOMAIN archive[d]
           THEN End(p) /\ UNCHANGED archive
           ELSE /\ archive' = [archive EXCEPT ![d] =
                     [n \in DOMAIN @ \cup {NextIndex(d)} |-> IF n \in DOMAIN @ THEN @[n] ELSE Torn]]
                /\ Go(p, "fill", mem[p])
                /\ UNCHANGED holder
    /\ UNCHANGED <<made, rec, plan, current, written, temps>> /\ Keep

FillArchive(p) ==
    LET d == mem[p].dir IN
    /\ at[p] = "fill"
    /\ archive' = [archive EXCEPT ![d][Max(DOMAIN archive[d])] = mem[p].plan.id]
    /\ WritePlan(p)
    /\ UNCHANGED <<made, rec, plan, current, written, temps, holder>> /\ Keep

NamePlan(p) ==
    /\ at[p] = "name"
    /\ Go(p, "temp", Writing(mem[p], "rec", mem[p].dir, Revised(mem[p].rec, mem[p].id), "end"))
    /\ UNCHANGED <<files, temps, holder>> /\ Keep

Finish(p) ==
    /\ at[p] = "end"
    /\ End(p)
    /\ UNCHANGED <<files, temps>> /\ Keep

(***************************************************************************)
(* Under the lock of the root: createIntent, selectCurrent, recover,       *)
(* listIntents and currentIntent.                                          *)
(***************************************************************************)
NewDirectory(p) ==
    /\ mem[p].op = "create"
    /\ \E d \in Directories \ made :
         /\ \A k \in Directories \ made : d <= k
         /\ made' = made \cup {d}
         /\ Go(p, "temp", Writing([mem[p] EXCEPT !.dir = d], "rec", d,
                                  [rev |-> 1, plan |-> None, legacy |-> FALSE], "point"))
    /\ UNCHANGED <<rec, plan, archive, current, written, temps>>

EnterRoot(p) ==
    /\ at[p] = "enter_root"
    /\ Taken(p, Root)
    /\ CASE mem[p].op = "create" -> NewDirectory(p)
         [] mem[p].op = "select" -> Go(p, "point", mem[p]) /\ UNCHANGED <<files, temps>>
         [] OTHER -> /\ temps' = {t \in temps : t[1] # Root}
                     /\ Go(p, "next", [mem[p] EXCEPT !.left = made])
                     /\ UNCHANGED files
    /\ Keep

Point(p) ==
    /\ at[p] = "point"
    /\ Go(p, "temp", Writing(mem[p], "current", mem[p].dir, mem[p].dir, "end"))
    /\ UNCHANGED <<files, temps, holder>> /\ Keep

(* Mutant: a recovery trusts the lock of the root. *)
SweepUnlocked(p, d) ==
    /\ at[p] = "next"
    /\ d \in mem[p].left
    /\ temps' = {t \in temps : t[1] # d}
    /\ Go(p, "next", [mem[p] EXCEPT !.dir = d, !.left = @ \ {d}])
    /\ UNCHANGED <<files, holder>> /\ Keep

(* recover, listIntents and currentIntent: #recoverIntentDirectory in one   *)
(* directory after the other, each under its lock.                         *)
Sweep(p, d) ==
    /\ at[p] = "next"
    /\ d \in mem[p].left
    /\ Taken(p, d)
    /\ temps' = {t \in temps : t[1] # d}
    /\ Go(p, IF mem[p].op = "list" THEN "read" ELSE "leave",
          [mem[p] EXCEPT !.dir = d, !.left = @ \ {d}])
    /\ UNCHANGED files /\ Keep

Leave(p) ==
    /\ at[p] = "leave"
    /\ holder' = [holder EXCEPT ![mem[p].dir] = Nobody]
    /\ Go(p, "next", mem[p])
    /\ UNCHANGED <<files, temps>> /\ Keep

(* The directories are done; currentIntent goes on to what the pointer     *)
(* names, without the lock of the root.                                    *)
Recovered(p) ==
    /\ at[p] = "next"
    /\ mem[p].left = {}
    /\ IF mem[p].op = "current" /\ current # None
         THEN Go(p, "enter", [mem[p] EXCEPT !.dir = current]) /\ holder' = Free(p)
         ELSE End(p)
    /\ UNCHANGED <<files, temps>> /\ Keep

(***************************************************************************)
(* Faults.                                                                 *)
(***************************************************************************)
Fault == faults < MaxFaults /\ faults' = faults + 1

Die(p) ==
    /\ at[p] # "idle"
    /\ Fault
    /\ End(p)
    /\ UNCHANGED <<files, temps, runs>>

(* A write fails: the temporary file is removed, an archive stays. *)
WriteFails(p) ==
    /\ at[p] \in {"rename", "fill"}
    /\ Fault
    /\ End(p)
    /\ temps' = IF at[p] = "rename" THEN temps \ {<<Place(mem[p]), p>>} ELSE temps
    /\ UNCHANGED <<files, runs>>

(***************************************************************************)
(* The specification: at first nothing, or one Intent: of the previous      *)
(* schema, newly created, or with its first Plan.                          *)
(***************************************************************************)
Init ==
    /\ made \in {{}, {1}}
    /\ \E past \in {"legacy", "created", "planned"} :
         LET first == IF past = "planned" THEN 0 ELSE None
             begun == {d \in made : past = "planned"}
         IN /\ rec = [d \in Directories |->
                         IF d \in made THEN [rev |-> IF past = "planned" THEN 2 ELSE 1, plan |-> first,
                               legacy |-> past = "legacy"]
                         ELSE None]
            /\ plan = [d \in Directories |->
                          IF d \in begun THEN [id |-> first, pred |-> None] ELSE None]
            /\ written = [d \in Directories |-> IF d \in begun THEN {first} ELSE {}]
    /\ archive = [d \in Directories |-> <<>>]
    /\ current = IF 1 \in made THEN 1 ELSE None
    /\ temps = {}
    /\ holder = [h \in Places |-> Nobody]
    /\ at = [p \in Procs |-> "idle"]
    /\ mem = [p \in Procs |-> Idle]
    /\ runs = 0
    /\ faults = 0

Step(p) ==
    \/ \E op \in Commands, d \in Places : Begin(p, op, d)
    \/ OpenTemp(p) \/ Rename(p) \/ RenameFails(p)
    \/ Locate(p) \/ Reread(p) \/ Enter(p) \/ Read(p)
    \/ OpenArchive(p) \/ FillArchive(p) \/ NamePlan(p) \/ Finish(p)
    \/ EnterRoot(p) \/ Point(p) \/ Leave(p) \/ Recovered(p)
    \/ \E d \in Directories : Sweep(p, d)
    \/ Die(p) \/ WriteFails(p)

Next == \E p \in Procs : Step(p)

Spec == Init /\ [][Next]_vars

(***************************************************************************)
(* Properties.                                                             *)
(***************************************************************************)

(* Every write of a record is based on the record it replaces: a revision  *)
(* is lost to nobody but a reader that migrates, without a lock, what it   *)
(* read before (#locate and selectCurrent).                                *)
UnlockedMigration(p) ==
    /\ at[p] = "rename"
    /\ mem[p].write.file = "rec"
    /\ mem[p].write.next \in {"locate", "reread"}

Supersedes ==
    \A d \in Directories :
        rec[d] # None /\ rec'[d] # rec[d] /\ ~Legacy(rec[d])
            => rec'[d].rev > rec[d].rev \/ \E p \in Procs : UnlockedMigration(p)
LostOnlyToMigration == [][Supersedes]_vars

(* A recovery, of a command of its own or at the start of an operation     *)
(* under the lock, removes the temporary files it finds, but never the one *)
(* an operation is about to rename under a lock.                           *)
LockedWritesStand ==
    \A p \in Procs :
        at[p] = "rename" /\ holder[Place(mem[p])] = p => <<Place(mem[p]), p>> \in temps

(* Wherever a revision of the Plan is cut short, every Plan there ever was *)
(* is still the canonical one or archived whole, the one the Intent names  *)
(* among them; and the pointer names a directory with an Intent.           *)
Archived(d) == {archive[d][n] : n \in DOMAIN archive[d]}

PlansKept ==
    /\ \A d \in Directories :
         /\ written[d] \subseteq Archived(d) \cup (IF plan[d] = None THEN {} ELSE {plan[d].id})
         /\ rec[d] # None /\ rec[d].plan # None => rec[d].plan \in written[d]
    /\ current # None => rec[current] # None
=============================================================================
