------------------------ MODULE WorkStateRecordsProofs ------------------------
(***************************************************************************)
(* Proofs about WorkStateRecords, for any number of processes, directories *)
(* and commands, any archive limit and any number of faults.               *)
(***************************************************************************)
EXTENDS WorkStateRecords, TLAPS

(***************************************************************************)
(* Types.                                                                  *)
(***************************************************************************)
IntentRecords == [rev : Nat \ {0}, plan : Nat \cup {None}, legacy : BOOLEAN]
PlanRecords == [id : Nat, pred : Nat \cup {None}]

Writes ==
    [file : {"rec"}, dir : Directories, value : IntentRecords,
     next : {"locate", "reread", "read", "point", "end"}]
      \cup [file : {"plan"}, dir : Directories, value : PlanRecords, next : {"name"}]
      \cup [file : {"current"}, dir : Directories, value : Directories, next : {"end"}]

Memories ==
    [op : Commands \cup {None}, dir : Places, rec : IntentRecords \cup {None},
     plan : PlanRecords \cup {None}, left : SUBSET Directories, write : Writes \cup {None}, id : Nat]

FilesType ==
    /\ made \subseteq Directories
    /\ rec \in [Directories -> IntentRecords \cup {None}]
    /\ plan \in [Directories -> PlanRecords \cup {None}]
    /\ current \in Directories \cup {None}
    /\ written \in [Directories -> SUBSET Nat]

(* The archive of a directory: the Plans 1, 2, ... up to the limit and one *)
(* more.                                                                   *)
Archives == UNION {[1..n -> Nat \cup {Torn}] : n \in 0..ArchiveLimit + 1}

Locations ==
    {"idle", "locate", "reread", "enter_root", "enter", "read", "next", "leave", "archive", "fill",
     "name", "temp", "rename", "point", "end"}

ProcsType ==
    /\ holder \in [Places -> Procs \cup {Nobody}]
    /\ at \in [Procs -> Locations]
    /\ mem \in [Procs -> Memories]
    /\ runs \in Nat

TypeOK == FilesType /\ archive \in [Directories -> Archives] /\ ProcsType

(***************************************************************************)
(* What a process knows of the files where it is.                          *)
(***************************************************************************)
Old == [rev |-> 1, plan |-> None, legacy |-> TRUE]
New == [rev |-> 1, plan |-> None, legacy |-> FALSE]

Present(d) == d \in Directories /\ rec[d] # None
Holds(p, d) == d \in Directories /\ holder[d] = p

PlanIds(d) == IF plan[d] = None THEN {} ELSE {plan[d].id}

(* A record is the one that a revision of r replaces, or has been set back *)
(* to the first revision by a migration.                                   *)
Base(d, r) == Present(d) /\ rec[d].rev <= r.rev /\ ~r.legacy
NamesWritten(d, r) == r.plan = None \/ r.plan \in written[d]

(* The revision of a Plan: who holds the lock knows what it is based on.   *)
Revising(p) ==
    LET m == mem[p] IN
    /\ m.op = "revise" /\ Holds(p, m.dir)
    /\ m.rec \in IntentRecords /\ Base(m.dir, m.rec)

(* Every Plan written is archived below n, or is the canonical one.        *)
Below(d, n) == written[d] \subseteq {archive[d][k] : k \in 1..n - 1} \cup PlanIds(d)

(* The last archive is the one that is being filled. *)
Filling(d) ==
    \E n \in 1..ArchiveLimit + 1 : archive[d] \in [1..n -> Nat \cup {Torn}] /\ Below(d, n)

WriteInv(p) ==
    LET m == mem[p]
        w == m.write
        d == w.dir
    IN  /\ w \in Writes
        /\ w.file = "rec" /\ w.next \in {"locate", "reread"} =>
             w.value = New /\ Present(d) /\ m.dir \in Directories
        /\ w.next = "locate" => m.op \in {"select", "transition", "revise"}
        /\ w.next = "reread" => m.op = "select" /\ Present(m.dir)
        /\ w.next = "read" =>
             /\ m.op \in {"transition", "revise", "current", "list"}
             /\ w.value = New /\ Holds(p, d) /\ m.dir = d /\ rec[d] \in {Old, New}
        /\ w.next = "point" =>
             /\ m.op = "create" /\ holder[Root] = p /\ m.dir = d /\ rec[d] = None /\ d \in made
             /\ w.value = New
        /\ w.file = "rec" /\ w.next = "end" =>
             /\ Holds(p, d) /\ m.dir = d
             /\ Present(d) /\ rec[d].rev < w.value.rev /\ 1 < w.value.rev
             /\ ~w.value.legacy /\ NamesWritten(d, w.value)
        /\ w.file = "plan" =>
             /\ Revising(p) /\ m.dir = d /\ w.value = NewPlan(m)
             /\ written[d] \subseteq Archived(d)
        /\ w.file = "current" => Present(w.value)

ProcInv(p) ==
    LET m == mem[p]
        d == m.dir
    IN  /\ at[p] = "locate" => m.op \in {"select", "transition", "revise"} /\ d \in Directories
        /\ at[p] = "reread" => m.op = "select" /\ Present(d)
        /\ at[p] = "enter_root" =>
             /\ m.op \in {"create", "select", "recover", "list", "current"}
             /\ m.op = "select" => Present(d)
        /\ at[p] = "enter" => m.op \in {"transition", "revise", "current"} /\ d \in Directories
        /\ at[p] = "read" =>
             m.op \in {"transition", "revise", "current", "list"} /\ Holds(p, d)
        /\ at[p] = "next" => m.op \in {"recover", "list", "current"}
        /\ at[p] = "leave" => m.op \in {"recover", "list", "current"} /\ Holds(p, d)
        /\ at[p] = "archive" => Revising(p) /\ m.plan = plan[d]
        /\ at[p] = "fill" =>
             /\ Revising(p) /\ m.plan = plan[d] /\ m.plan # None
             /\ Filling(d)
        /\ at[p] = "name" => Revising(p) /\ m.id \in written[d]
        /\ at[p] = "point" => Present(d)
        /\ at[p] \in {"temp", "rename"} => WriteInv(p)

(***************************************************************************)
(* What is so of the files whoever is writing.                             *)
(***************************************************************************)
RecordsInv ==
    \A d \in Directories :
        /\ Legacy(rec[d]) => rec[d] = Old
        /\ d \notin made => rec[d] = None

IInv ==
    /\ TypeOK
    /\ RecordsInv
    /\ PlansKept
    /\ \A p \in Procs : ProcInv(p)

(***************************************************************************)
(* Lemmas about the constants and the records.                             *)
(***************************************************************************)
LEMMA Basics ==
    ASSUME WorkStateRecordsAssumption
    PROVE  /\ Nobody \notin Procs /\ None \notin Nat /\ None \notin IntentRecords
           /\ None \notin PlanRecords /\ ArchiveLimit \in Nat /\ MaxDirs \in Nat /\ MaxDirs > 0
           /\ Root \notin Directories /\ Directories \subseteq Nat /\ None \notin Directories
           /\ Old \in IntentRecords /\ New \in IntentRecords
           /\ Directories \subseteq Places /\ Root \in Places
BY DEF WorkStateRecordsAssumption, IntentRecords, PlanRecords, Directories, Places, Root, Old, New

(* The schema of a record, on its own: it is a truth value. *)
LEMMA SchemaSet ==
    ASSUME NEW r \in IntentRecords, NEW b \in BOOLEAN
    PROVE  [r EXCEPT !.legacy = b] = [rev |-> r.rev, plan |-> r.plan, legacy |-> b]
BY DEF IntentRecords

(* A record of the previous schema becomes the first one of the new.       *)
LEMMA OldMigrated ==
    ASSUME WorkStateRecordsAssumption
    PROVE  Migrated(Old) = New
<1>1. Old \in IntentRecords /\ Old.rev = 1 /\ Old.plan = None
  BY Basics DEF Old
<1>2. [Old EXCEPT !.legacy = FALSE] = [rev |-> Old.rev, plan |-> Old.plan, legacy |-> FALSE]
  BY <1>1, SchemaSet
<1> QED
  BY <1>1, <1>2 DEF Migrated, New

(* A revision of a record. *)
LEMMA RevisedRecord ==
    ASSUME NEW r \in IntentRecords, NEW named \in Nat \cup {None}, ~r.legacy
    PROVE  /\ Revised(r, named) \in IntentRecords
           /\ Revised(r, named).rev = r.rev + 1 /\ Revised(r, named).plan = named
           /\ ~Revised(r, named).legacy
           /\ r.rev < Revised(r, named).rev /\ 1 < Revised(r, named).rev
<1> DEFINE s == [r EXCEPT !.rev = @ + 1]
           t == [s EXCEPT !.plan = named]
<1>1. r.rev \in Nat \ {0} /\ r.legacy \in BOOLEAN /\ r.rev + 1 \in Nat \ {0}
  BY DEF IntentRecords
<1>2. s \in IntentRecords /\ s.rev = r.rev + 1
  BY <1>1 DEF IntentRecords
<1>3. ~s.legacy
  BY Zenon DEF IntentRecords
<1> HIDE DEF s
<1>4. t \in IntentRecords /\ t.rev = s.rev /\ t.plan = named
  BY <1>2 DEF IntentRecords
<1>5. ~t.legacy
  BY <1>2, <1>3, Zenon DEF IntentRecords
<1>6. Revised(r, named) = t
  BY DEF Revised, s
<1> HIDE DEF t
<1> QED
  BY <1>1, <1>2, <1>4, <1>5, <1>6

(* What a process goes on with. *)
LEMMA Gone ==
    ASSUME ProcsType, NEW p \in Procs, NEW place \in Locations, NEW m \in Memories, Go(p, place, m)
    PROVE  /\ at' \in [Procs -> Locations] /\ mem' \in [Procs -> Memories]
           /\ at'[p] = place /\ mem'[p] = m
           /\ \A q \in Procs \ {p} : at'[q] = at[q] /\ mem'[q] = mem[q]
BY DEF ProcsType, Go

LEMMA IdleType == ASSUME WorkStateRecordsAssumption PROVE Idle \in Memories
BY Basics DEF Idle, Memories

(* The fields of what is remembered, one changed or none. *)
LEMMA Remembers ==
    ASSUME NEW m \in Memories, NEW w \in Writes \cup {None}
    PROVE  LET n == [m EXCEPT !.write = w]
           IN  /\ n \in Memories /\ n.write = w /\ n.op = m.op /\ n.dir = m.dir /\ n.rec = m.rec
               /\ n.plan = m.plan /\ n.left = m.left /\ n.id = m.id
BY DEF Memories

(* A write that is prepared. *)
LEMMA WritingType ==
    ASSUME NEW m \in Memories, NEW file, NEW d, NEW value, NEW next,
           [file |-> file, dir |-> d, value |-> value, next |-> next] \in Writes
    PROVE  LET n == Writing(m, file, d, value, next)
           IN  /\ n \in Memories /\ n.op = m.op /\ n.dir = m.dir /\ n.rec = m.rec
               /\ n.plan = m.plan /\ n.left = m.left /\ n.id = m.id
               /\ n.write = [file |-> file, dir |-> d, value |-> value, next |-> next]
BY Remembers DEF Writing

(* Who ends a command gives its own locks up, and nobody else's.           *)
LEMMA Freed ==
    ASSUME WorkStateRecordsAssumption, ProcsType, NEW p \in Procs, holder' = Free(p)
    PROVE  /\ holder' \in [Places -> Procs \cup {Nobody}]
           /\ \A q \in Procs \ {p}, h \in Places : holder[h] = q => holder'[h] = q
BY DEF Free, ProcsType

LEMMA TakenHolds ==
    ASSUME WorkStateRecordsAssumption, ProcsType, NEW p \in Procs, NEW place \in Places,
           Taken(p, place)
    PROVE  /\ holder' \in [Places -> Procs \cup {Nobody}] /\ holder'[place] = p
           /\ \A q \in Procs \ {p}, h \in Places : holder[h] = q => holder'[h] = q
BY Basics DEF Taken, ProcsType

(***************************************************************************)
(* The step of a process: it keeps its own invariant, and leaves where the *)
(* others are, what they remember and the locks they hold.                 *)
(***************************************************************************)
Does(p) ==
    /\ ProcsType'
    /\ \A q \in Procs \ {p} :
         /\ at'[q] = at[q] /\ mem'[q] = mem[q]
         /\ \A h \in Places : holder[h] = q => holder'[h] = q
    /\ ProcInv(p)'

(* A command that is over. *)
LEMMA EndDoes ==
    ASSUME WorkStateRecordsAssumption, ProcsType, NEW p \in Procs, End(p), runs' \in Nat
    PROVE  Does(p)
<1>1. Go(p, "idle", Idle) /\ holder' = Free(p) /\ "idle" \in Locations
  BY DEF End, Locations
<1>2. at'[p] = "idle"
  BY <1>1, Gone, IdleType
<1>3. ProcInv(p)'
  BY <1>2 DEF ProcInv
<1> QED
  BY <1>1, <1>3, Gone, IdleType, Freed DEF Does, ProcsType

(* The steps of a process that leave the files alone and the locks too. *)
LEMMA OwnDoes ==
    ASSUME WorkStateRecordsAssumption, ProcsType, NEW p \in Procs, NEW place \in Locations,
           NEW m \in Memories, Go(p, place, m), UNCHANGED holder, runs' \in Nat, ProcInv(p)'
    PROVE  Does(p)
BY Gone DEF Does, ProcsType


(***************************************************************************)
(* The steps that write no record.                                         *)
(***************************************************************************)
Shared == TypeOK /\ RecordsInv /\ PlansKept

(* A record of the previous schema is written back, migrated. *)
LEMMA MigrateDoes ==
    ASSUME WorkStateRecordsAssumption, Shared, NEW p \in Procs, NEW d \in Directories, Legacy(rec[d]),
           NEW back \in {"locate", "reread", "read"}, Migrate(p, d, back), UNCHANGED holder, Keep,
           UNCHANGED files,
           back = "locate" => mem[p].op \in {"select", "transition", "revise"}
                                /\ mem[p].dir \in Directories,
           back = "reread" => mem[p].op = "select" /\ mem[p].dir = d,
           back = "read" => /\ mem[p].op \in {"transition", "revise", "current", "list"}
                            /\ Holds(p, d) /\ mem[p].dir = d
    PROVE  Does(p)
<1> DEFINE w == [file |-> "rec", dir |-> d, value |-> New, next |-> back]
           m == Writing(mem[p], "rec", d, New, back)
<1>0. ProcsType /\ rec[d] = Old /\ rec[d] # None /\ mem[p] \in Memories /\ runs' \in Nat
  BY DEF Shared, TypeOK, ProcsType, RecordsInv, Legacy, Keep
<1>1. Migrated(rec[d]) = New
  BY <1>0, OldMigrated
<1>2. w \in Writes
  <2>1. New \in IntentRecords
    BY Basics
  <2> QED
    BY <2>1 DEF Writes
<1>3. /\ m \in Memories /\ m.op = mem[p].op /\ m.dir = mem[p].dir /\ m.write = w
  BY <1>0, <1>2, WritingType
<1>4. Go(p, "temp", m) /\ "temp" \in Locations
  BY <1>1 DEF Migrate, Locations
<1> HIDE DEF m
<1>5. at'[p] = "temp" /\ mem'[p] = m
  BY <1>0, <1>3, <1>4, Gone
<1>6. WriteInv(p)'
  BY <1>0, <1>2, <1>3, <1>5 DEF WriteInv, Present, Holds, files
<1>7. ProcInv(p)'
  BY <1>5, <1>6 DEF ProcInv
<1> QED
  BY <1>0, <1>3, <1>4, <1>7, OwnDoes

(* A command begins. *)
LEMMA BeginDoes ==
    ASSUME WorkStateRecordsAssumption, Shared, NEW p \in Procs, NEW op \in Commands, NEW d \in Places,
           Begin(p, op, d)
    PROVE  Does(p)
<1> DEFINE m == [Idle EXCEPT !.op = op, !.dir = d, !.id = runs + 1]
           place == IF d = Root THEN "enter_root" ELSE "locate"
<1>0. ProcsType /\ made \subseteq Directories
  BY DEF Shared, TypeOK, FilesType
<1>1. m \in Memories /\ m.op = op /\ m.dir = d
  <2>1. Idle \in Memories /\ runs + 1 \in Nat
    BY <1>0, IdleType DEF ProcsType
  <2> QED
    BY <2>1 DEF Memories
<1>2. place \in Locations /\ Go(p, place, m) /\ UNCHANGED <<files, holder>> /\ runs' \in Nat
  BY <1>0 DEF Begin, Locations, ProcsType
<1> HIDE DEF m, place
<1>3. at'[p] = place /\ mem'[p] = m
  BY <1>0, <1>1, <1>2, Gone
<1>4. /\ d = Root => op \in {"create", "recover", "list", "current"}
      /\ d # Root => op \in {"select", "transition", "revise"} /\ d \in Directories
  BY <1>0, Basics DEF Begin, WorkStateRecordsAssumption
<1>5. ProcInv(p)'
  BY <1>1, <1>3, <1>4 DEF ProcInv, place
<1> QED
  BY <1>0, <1>1, <1>2, <1>5, OwnDoes

(* The temporary file is there. *)
LEMMA OpenTempDoes ==
    ASSUME WorkStateRecordsAssumption, Shared, NEW p \in Procs, ProcInv(p), OpenTemp(p)
    PROVE  Does(p)
<1>0. ProcsType /\ mem[p] \in Memories
  BY DEF Shared, TypeOK, ProcsType
<1>1. Go(p, "rename", mem[p]) /\ "rename" \in Locations /\ UNCHANGED <<files, holder>> /\ runs' \in Nat
  BY <1>0 DEF OpenTemp, Locations, Keep, ProcsType
<1>2. at'[p] = "rename" /\ mem'[p] = mem[p]
  BY <1>0, <1>1, Gone
<1>3. WriteInv(p)
  BY DEF OpenTemp, ProcInv
<1>4. WriteInv(p)'
  BY <1>1, <1>2, <1>3 DEF WriteInv, Present, Holds, Revising, Base, NamesWritten, Archived, NewPlan,
                          files
<1>5. ProcInv(p)'
  BY <1>2, <1>4 DEF ProcInv
<1> QED
  BY <1>0, <1>1, <1>5, OwnDoes

(* #locate and selectCurrent look the Intent up. *)
LEMMA LocateDoes ==
    ASSUME WorkStateRecordsAssumption, Shared, NEW p \in Procs, ProcInv(p), Locate(p) \/ Reread(p)
    PROVE  Does(p)
<1> DEFINE m == mem[p]
<1>0. ProcsType /\ m \in Memories /\ made \subseteq Directories /\ UNCHANGED files /\ Keep
      /\ runs' \in Nat
  BY DEF Shared, TypeOK, ProcsType, FilesType, Locate, Reread, Keep
<1>1. CASE Locate(p)
  <2>1. m.op \in {"select", "transition", "revise"} /\ m.dir \in Directories
    BY <1>1 DEF Locate, ProcInv
  <2>2. CASE \E d \in made : Legacy(rec[d])
    <3>1. PICK d \in made : Legacy(rec[d]) /\ Migrate(p, d, "locate") /\ UNCHANGED holder
      BY <1>1, <2>2 DEF Locate
    <3> QED
      BY <1>0, <2>1, <3>1, MigrateDoes
  <2>3. CASE End(p)
    BY <1>0, <2>3, EndDoes
  <2>4. CASE /\ rec[m.dir] # None /\ UNCHANGED holder
             /\ Go(p, IF m.op = "select" THEN "reread" ELSE "enter", m)
    <3> DEFINE place == IF m.op = "select" THEN "reread" ELSE "enter"
    <3>1. place \in Locations
      BY DEF Locations
    <3> HIDE DEF place
    <3>2. at'[p] = place /\ mem'[p] = m
      BY <1>0, <2>4, <3>1, Gone DEF place
    <3>3. ProcInv(p)'
      BY <1>0, <2>1, <2>4, <3>2 DEF ProcInv, Present, place, files
    <3> QED
      BY <1>0, <2>4, <3>1, <3>3, OwnDoes DEF place
  <2> QED
    BY <1>1, <2>2, <2>3, <2>4 DEF Locate
<1>2. CASE Reread(p)
  <2>1. m.op = "select" /\ Present(m.dir) /\ UNCHANGED holder
    BY <1>2 DEF Reread, ProcInv
  <2>2. CASE Legacy(rec[m.dir])
    BY <1>0, <1>2, <2>1, <2>2, MigrateDoes DEF Reread, Present
  <2>3. CASE Go(p, "enter_root", m)
    <3>1. at'[p] = "enter_root" /\ mem'[p] = m /\ "enter_root" \in Locations
      BY <1>0, <2>3, Gone DEF Locations
    <3>2. ProcInv(p)'
      BY <1>0, <2>1, <3>1 DEF ProcInv, Present, files
    <3> QED
      BY <1>0, <2>1, <2>3, <3>1, <3>2, OwnDoes
  <2> QED
    BY <1>2, <2>2, <2>3 DEF Reread
<1> QED
  BY <1>1, <1>2


(* A command that takes the lock of a directory for itself. *)
LEMMA TakesDoes ==
    ASSUME WorkStateRecordsAssumption, Shared, NEW p \in Procs, NEW place \in {"read", "leave"},
           NEW m \in Memories, NEW d \in Directories, m.dir = d, Taken(p, d), Go(p, place, m),
           UNCHANGED files, Keep,
           m.op \in {"transition", "revise", "current", "list", "recover"},
           place = "leave" <=> m.op = "recover" \/ (m.op = "current" /\ at[p] = "next")
    PROVE  Does(p)
<1>0. ProcsType /\ place \in Locations /\ d \in Places /\ runs' \in Nat
  BY Basics DEF Shared, TypeOK, Locations, ProcsType, Keep
<1>1. at'[p] = place /\ mem'[p] = m
  BY <1>0, Gone
<1>2. holder'[d] = p
  BY <1>0, TakenHolds
<1>3. ProcInv(p)'
  BY <1>1, <1>2 DEF ProcInv, Holds
<1> QED
  BY <1>0, <1>3, Gone, TakenHolds DEF Does, ProcsType

LEMMA EnterDoes ==
    ASSUME WorkStateRecordsAssumption, Shared, NEW p \in Procs, ProcInv(p), Enter(p)
    PROVE  Does(p)
<1>1. mem[p] \in Memories /\ at[p] = "enter" /\ mem[p].op \in {"transition", "revise", "current"}
      /\ mem[p].dir \in Directories
  BY DEF Shared, TypeOK, ProcsType, ProcInv, Enter
<1> QED
  BY <1>1, TakesDoes DEF Enter

LEMMA SweepDoes ==
    ASSUME WorkStateRecordsAssumption, Shared, NEW p \in Procs, ProcInv(p), NEW d \in Directories,
           Sweep(p, d)
    PROVE  Does(p)
<1> DEFINE m == [mem[p] EXCEPT !.dir = d, !.left = @ \ {d}]
           place == IF mem[p].op = "list" THEN "read" ELSE "leave"
<1>1. mem[p] \in Memories /\ at[p] = "next" /\ mem[p].op \in {"recover", "list", "current"}
  BY DEF Shared, TypeOK, ProcsType, ProcInv, Sweep
<1>2. m \in Memories /\ m.dir = d /\ m.op = mem[p].op
  BY <1>1, Basics DEF Memories
<1>3. Go(p, place, m) /\ Taken(p, d) /\ UNCHANGED files /\ Keep
  BY DEF Sweep
<1> HIDE DEF m
<1> QED
  BY <1>1, <1>2, <1>3, TakesDoes

(* The record is read under the lock, and what is to be written prepared.  *)
LEMMA ReadDoes ==
    ASSUME WorkStateRecordsAssumption, Shared, NEW p \in Procs, ProcInv(p), Read(p)
    PROVE  Does(p)
<1> DEFINE m == mem[p]
           d == m.dir
           r == rec[d]
<1>0. /\ ProcsType /\ m \in Memories /\ UNCHANGED files /\ Keep /\ runs' \in Nat
      /\ m.op \in {"transition", "revise", "current", "list"} /\ Holds(p, d) /\ d \in Directories
  BY DEF Shared, TypeOK, ProcsType, Read, ProcInv, Keep, Holds
<1>1. CASE Legacy(r)
  BY <1>0, <1>1, MigrateDoes DEF Read
<1>2. CASE End(p)
  BY <1>0, <1>2, EndDoes
<1>3. CASE m.op = "list" /\ Go(p, "leave", m) /\ UNCHANGED holder
  <2>1. at'[p] = "leave" /\ mem'[p] = m /\ "leave" \in Locations
    BY <1>0, <1>3, Gone DEF Locations
  <2>2. ProcInv(p)'
    BY <1>0, <1>3, <2>1 DEF ProcInv, Holds
  <2> QED
    BY <1>0, <1>3, <2>1, <2>2, OwnDoes
<1>4. CASE /\ ~Legacy(r) /\ r # None /\ UNCHANGED holder
           /\ Go(p, "temp", Writing(m, "rec", d, Revised(r, r.plan), "end"))
  <2> DEFINE v == Revised(r, r.plan)
             w == [file |-> "rec", dir |-> d, value |-> v, next |-> "end"]
             n == Writing(m, "rec", d, v, "end")
  <2>1. r \in IntentRecords /\ ~r.legacy
    BY <1>0, <1>4 DEF Shared, TypeOK, FilesType, Legacy
  <2>a. r.plan \in Nat \cup {None}
    BY <2>1 DEF IntentRecords
  <2>2. v \in IntentRecords /\ v.plan = r.plan /\ ~v.legacy /\ r.rev < v.rev /\ 1 < v.rev
    BY <2>1, <2>a, RevisedRecord
  <2> HIDE DEF v
  <2>3. w \in Writes
    BY <1>0, <2>2 DEF Writes
  <2>4. n \in Memories /\ n.op = m.op /\ n.dir = d /\ n.write = w
    BY <1>0, <2>3, WritingType
  <2> HIDE DEF n
  <2>5. at'[p] = "temp" /\ mem'[p] = n /\ "temp" \in Locations
    BY <1>0, <1>4, <2>4, Gone DEF Locations, n, v
  <2>7. NamesWritten(d, v)
    BY <1>0, <1>4, <2>2 DEF NamesWritten, Shared, PlansKept
  <2>8. WriteInv(p)'
    BY <1>0, <1>4, <2>2, <2>3, <2>4, <2>5, <2>7
       DEF WriteInv, Present, Holds, NamesWritten, files
  <2>9. ProcInv(p)'
    BY <2>5, <2>8 DEF ProcInv
  <2> QED
    BY <1>0, <1>4, <2>4, <2>5, <2>9, OwnDoes DEF n, v
<1>5. CASE /\ ~Legacy(r) /\ r # None /\ UNCHANGED holder /\ m.op = "revise"
           /\ Go(p, "archive", [m EXCEPT !.rec = r, !.plan = plan[d]])
  <2> DEFINE n == [m EXCEPT !.rec = r, !.plan = plan[d]]
  <2>1. r \in IntentRecords /\ ~r.legacy /\ plan[d] \in PlanRecords \cup {None}
    BY <1>0, <1>5 DEF Shared, TypeOK, FilesType, Legacy
  <2>2. n \in Memories /\ n.op = m.op /\ n.dir = d /\ n.rec = r /\ n.plan = plan[d]
    BY <1>0, <2>1 DEF Memories
  <2> HIDE DEF n
  <2>3. at'[p] = "archive" /\ mem'[p] = n /\ "archive" \in Locations
    BY <1>0, <1>5, <2>2, Gone DEF Locations, n
  <2>4. r.rev <= r.rev
    BY <2>1 DEF IntentRecords
  <2>5. ProcInv(p)'
    BY <1>0, <1>5, <2>1, <2>2, <2>3, <2>4 DEF ProcInv, Revising, Base, Present, Holds, files
  <2> QED
    BY <1>0, <1>5, <2>2, <2>3, <2>5, OwnDoes DEF n
<1> QED
  BY <1>0, <1>1, <1>2, <1>3, <1>4, <1>5 DEF Read

(* The steps between the writes. *)
LEMMA FinishDoes ==
    ASSUME WorkStateRecordsAssumption, Shared, NEW p \in Procs,
           Finish(p) \/ Die(p) \/ WriteFails(p) \/ RenameFails(p)
    PROVE  Does(p)
<1>1. ProcsType /\ End(p) /\ runs' \in Nat
  BY DEF Shared, TypeOK, ProcsType, Finish, Die, WriteFails, RenameFails, Keep
<1> QED
  BY <1>1, EndDoes

LEMMA LeaveDoes ==
    ASSUME WorkStateRecordsAssumption, Shared, NEW p \in Procs, ProcInv(p), Leave(p)
    PROVE  Does(p)
<1> DEFINE d == mem[p].dir
<1>0. /\ ProcsType /\ mem[p] \in Memories /\ runs' \in Nat /\ "next" \in Locations
      /\ mem[p].op \in {"recover", "list", "current"} /\ Holds(p, d)
      /\ holder' = [holder EXCEPT ![d] = Nobody] /\ Go(p, "next", mem[p])
  BY DEF Shared, TypeOK, ProcsType, Leave, Keep, ProcInv, Locations
<1>1. at'[p] = "next" /\ mem'[p] = mem[p]
  BY <1>0, Gone
<1>2. ProcInv(p)'
  BY <1>0, <1>1 DEF ProcInv
<1>3. /\ holder' \in [Places -> Procs \cup {Nobody}]
      /\ \A q \in Procs \ {p}, h \in Places : holder[h] = q => holder'[h] = q
  BY <1>0, Basics DEF ProcsType, Holds
<1> QED
  BY <1>0, <1>2, <1>3, Gone DEF Does, ProcsType

LEMMA RecoveredDoes ==
    ASSUME WorkStateRecordsAssumption, Shared, NEW p \in Procs, ProcInv(p), Recovered(p)
    PROVE  Does(p)
<1>0. ProcsType /\ mem[p] \in Memories /\ runs' \in Nat /\ "enter" \in Locations
  BY DEF Shared, TypeOK, ProcsType, Recovered, Keep, Locations
<1>1. CASE End(p)
  BY <1>0, <1>1, EndDoes
<1>2. CASE /\ mem[p].op = "current" /\ current # None /\ holder' = Free(p)
           /\ Go(p, "enter", [mem[p] EXCEPT !.dir = current])
  <2> DEFINE n == [mem[p] EXCEPT !.dir = current]
  <2>1. current \in Directories
    BY <1>2 DEF Shared, TypeOK, FilesType
  <2>2. n \in Memories /\ n.op = "current" /\ n.dir = current
    BY <1>0, <1>2, <2>1, Basics DEF Memories
  <2> HIDE DEF n
  <2>3. at'[p] = "enter" /\ mem'[p] = n
    BY <1>0, <1>2, <2>2, Gone DEF n
  <2>4. ProcInv(p)'
    BY <2>1, <2>2, <2>3 DEF ProcInv
  <2> QED
    BY <1>0, <1>2, <2>2, <2>4, Gone, Freed DEF Does, ProcsType, n
<1> QED
  BY <1>1, <1>2 DEF Recovered

(* The Intent names the Plan that has been written. *)
LEMMA NamePlanDoes ==
    ASSUME WorkStateRecordsAssumption, Shared, NEW p \in Procs, ProcInv(p), NamePlan(p)
    PROVE  Does(p)
<1> DEFINE m == mem[p]
           d == m.dir
           v == Revised(m.rec, m.id)
           w == [file |-> "rec", dir |-> d, value |-> v, next |-> "end"]
           n == Writing(m, "rec", d, v, "end")
<1>0. /\ ProcsType /\ m \in Memories /\ UNCHANGED <<files, holder>> /\ runs' \in Nat
      /\ m.id \in Nat /\ "temp" \in Locations /\ Go(p, "temp", n)
  BY DEF Shared, TypeOK, ProcsType, NamePlan, Memories, Keep, Locations
<1>1. /\ Revising(p) /\ Holds(p, d) /\ m.rec \in IntentRecords /\ Present(d) /\ m.id \in written[d]
      /\ rec[d].rev <= m.rec.rev /\ ~m.rec.legacy /\ d \in Directories
  BY DEF NamePlan, ProcInv, Revising, Base, Holds
<1>2. v \in IntentRecords /\ v.plan = m.id /\ ~v.legacy /\ m.rec.rev < v.rev /\ 1 < v.rev
  BY <1>0, <1>1, RevisedRecord
<1>3. rec[d].rev \in Nat /\ m.rec.rev \in Nat /\ v.rev \in Nat
  BY <1>1, <1>2 DEF Shared, TypeOK, FilesType, IntentRecords, Present
<1>4. rec[d].rev < v.rev
  BY <1>1, <1>2, <1>3
<1> HIDE DEF v
<1>5. w \in Writes
  BY <1>1, <1>2 DEF Writes
<1>6. n \in Memories /\ n.op = m.op /\ n.dir = d /\ n.write = w
  BY <1>0, <1>5, WritingType
<1> HIDE DEF n
<1>7. at'[p] = "temp" /\ mem'[p] = n
  BY <1>0, <1>6, Gone
<1>8. WriteInv(p)'
  BY <1>0, <1>1, <1>2, <1>4, <1>5, <1>6, <1>7 DEF WriteInv, Present, Holds, NamesWritten, files
<1>9. ProcInv(p)'
  BY <1>7, <1>8 DEF ProcInv
<1> QED
  BY <1>0, <1>6, <1>9, OwnDoes

(* The pointer is to be written. *)
LEMMA PointDoes ==
    ASSUME WorkStateRecordsAssumption, Shared, NEW p \in Procs, ProcInv(p), Point(p)
    PROVE  Does(p)
<1> DEFINE m == mem[p]
           d == m.dir
           w == [file |-> "current", dir |-> d, value |-> d, next |-> "end"]
           n == Writing(m, "current", d, d, "end")
<1>0. /\ ProcsType /\ m \in Memories /\ UNCHANGED <<files, holder>> /\ runs' \in Nat
      /\ "temp" \in Locations /\ Go(p, "temp", n) /\ Present(d) /\ d \in Directories
  BY DEF Shared, TypeOK, ProcsType, Point, Keep, Locations, ProcInv, Present
<1>1. w \in Writes
  BY <1>0 DEF Writes
<1>2. n \in Memories /\ n.write = w
  BY <1>0, <1>1, WritingType
<1> HIDE DEF n
<1>3. at'[p] = "temp" /\ mem'[p] = n
  BY <1>0, <1>2, Gone
<1>4. WriteInv(p)'
  BY <1>0, <1>1, <1>2, <1>3 DEF WriteInv, Present, files
<1>5. ProcInv(p)'
  BY <1>3, <1>4 DEF ProcInv
<1> QED
  BY <1>0, <1>2, <1>5, OwnDoes

(* The lock of the root: a new directory, the pointer, or a recovery.      *)
LEMMA EnterRootDoes ==
    ASSUME WorkStateRecordsAssumption, Shared, NEW p \in Procs, ProcInv(p), EnterRoot(p)
    PROVE  Does(p)
<1> DEFINE m == mem[p]
<1>0. /\ ProcsType /\ m \in Memories /\ runs' \in Nat /\ Taken(p, Root) /\ Root \in Places
      /\ at[p] = "enter_root" /\ m.op \in {"create", "select", "recover", "list", "current"}
      /\ made \subseteq Directories
  BY Basics DEF Shared, TypeOK, FilesType, ProcsType, EnterRoot, Keep, ProcInv
<1>1. holder'[Root] = p
  BY <1>0, TakenHolds
<1>2. ASSUME NEW place \in Locations, NEW n \in Memories, Go(p, place, n), ProcInv(p)'
      PROVE  Does(p)
  BY <1>0, <1>2, Gone, TakenHolds DEF Does, ProcsType
<1>3. CASE m.op = "create"
  <2>1. PICK d \in Directories \ made :
          /\ made' = made \cup {d}
          /\ Go(p, "temp", Writing([mem[p] EXCEPT !.dir = d], "rec", d,
                                  [rev |-> 1, plan |-> None, legacy |-> FALSE], "point"))
    BY <1>3 DEF EnterRoot, NewDirectory
  <2> DEFINE o == [m EXCEPT !.dir = d]
             w == [file |-> "rec", dir |-> d, value |-> New, next |-> "point"]
             n == Writing(o, "rec", d, New, "point")
  <2>2. o \in Memories /\ o.op = m.op /\ o.dir = d
    BY <1>0, Basics DEF Memories
  <2> HIDE DEF o
  <2>3. w \in Writes
    <3>1. New \in IntentRecords
      BY Basics
    <3> QED
      BY <3>1 DEF Writes
  <2>4. n \in Memories /\ n.op = "create" /\ n.dir = d /\ n.write = w
    BY <1>3, <2>2, <2>3, WritingType
  <2>5. Go(p, "temp", n) /\ "temp" \in Locations
    BY <2>1 DEF New, Locations, o
  <2> HIDE DEF n
  <2>6. at'[p] = "temp" /\ mem'[p] = n
    BY <1>0, <2>4, <2>5, Gone
  <2>7. rec'[d] = None
    BY <1>3 DEF Shared, RecordsInv, EnterRoot, NewDirectory
  <2>8. WriteInv(p)'
    BY <1>1, <2>1, <2>3, <2>4, <2>6, <2>7 DEF WriteInv
  <2>9. ProcInv(p)'
    BY <2>6, <2>8 DEF ProcInv
  <2> QED
    BY <1>2, <2>4, <2>5, <2>9
<1>4. CASE m.op = "select"
  <2>1. Go(p, "point", m) /\ UNCHANGED files /\ Present(m.dir) /\ "point" \in Locations
    BY <1>0, <1>4 DEF EnterRoot, ProcInv, Locations
  <2>2. at'[p] = "point" /\ mem'[p] = m
    BY <1>0, <2>1, Gone
  <2>3. ProcInv(p)'
    BY <2>1, <2>2 DEF ProcInv, Present, files
  <2> QED
    BY <1>0, <1>2, <2>1, <2>3
<1>5. CASE m.op \in {"recover", "list", "current"}
  <2> DEFINE n == [m EXCEPT !.left = made]
  <2>1. Go(p, "next", n) /\ "next" \in Locations
    BY <1>5 DEF EnterRoot, Locations
  <2>2. n \in Memories /\ n.op = m.op
    BY <1>0 DEF Memories
  <2> HIDE DEF n
  <2>3. at'[p] = "next" /\ mem'[p] = n
    BY <1>0, <2>1, <2>2, Gone
  <2>4. ProcInv(p)'
    BY <1>5, <2>2, <2>3 DEF ProcInv
  <2> QED
    BY <1>2, <2>1, <2>2, <2>4
<1> QED
  BY <1>0, <1>3, <1>4, <1>5

(***************************************************************************)
(* What a step may do to the files: nothing to a directory that another    *)
(* process has locked, but for the migration of its record; and the record *)
(* of a new directory is the business of who holds the lock of the root.   *)
(***************************************************************************)
FilesInv == FilesType /\ archive \in [Directories -> Archives] /\ RecordsInv /\ PlansKept

Respects(q) ==
    /\ made \subseteq made'
    /\ \A d \in Directories :
         /\ rec[d] # None => rec'[d] # None
         /\ written[d] \subseteq written'[d]
         /\ plan'[d] # plan[d] \/ archive'[d] # archive[d] \/ written'[d] # written[d] => holder[d] = q
         /\ rec'[d] \in {rec[d], New} \/ holder[d] = q
         /\ rec[d] = None /\ rec'[d] # None => holder[Root] = q

Leaves(q) == Respects(q) /\ FilesInv'

LEMMA Unwritten ==
    ASSUME Shared, NEW q, UNCHANGED files
    PROVE  Leaves(q)
BY DEF Leaves, Respects, FilesInv, FilesType, Shared, TypeOK, RecordsInv, PlansKept, Archived, files

(* So the others lose nothing they know. *)
LEMMA Untouched ==
    ASSUME WorkStateRecordsAssumption, Shared, NEW p \in Procs, NEW q \in Procs, p # q,
           ProcInv(p), at'[p] = at[p], mem'[p] = mem[p],
           \A h \in Places : holder[h] = p => holder'[h] = p,
           Respects(q)
    PROVE  ProcInv(p)'
<1> DEFINE m == mem[p]
           w == m.write
<1>0. /\ m \in Memories /\ Nobody \notin Procs /\ \A d \in Directories : d \in Places
      /\ Root \in Places /\ None \notin IntentRecords
      /\ \A d \in Directories : rec[d] # None => rec[d] \in IntentRecords /\ rec[d].rev \in Nat \ {0}
  BY Basics DEF Shared, TypeOK, ProcsType, FilesType, IntentRecords
<1>1. /\ \A d : Present(d) => Present(d)'
      /\ \A d : Holds(p, d) => Holds(p, d)'
  BY <1>0 DEF Respects, Present, Holds
<1>2. ASSUME NEW d, Holds(p, d)
      PROVE  /\ plan'[d] = plan[d] /\ archive'[d] = archive[d] /\ written'[d] = written[d]
             /\ rec'[d] \in {rec[d], New} /\ d \in Directories /\ (rec[d] = None \/ rec'[d] # None)
  BY <1>2 DEF Respects, Holds
<1>3. New.rev = 1
  BY DEF New
<1>4. Revising(p) => Revising(p)'
  <2> SUFFICES ASSUME Revising(p) PROVE Revising(p)'
    OBVIOUS
  <2>1. Holds(p, m.dir) /\ Present(m.dir) /\ m.rec \in IntentRecords /\ rec[m.dir].rev <= m.rec.rev
        /\ ~m.rec.legacy /\ m.rec.rev \in Nat \ {0} /\ m.op = "revise"
    BY DEF Revising, Base, IntentRecords
  <2>2. rec'[m.dir].rev <= m.rec.rev
    BY <1>2, <1>3, <2>1
  <2> QED
    BY <1>1, <2>1, <2>2 DEF Revising, Base
<1>5. ASSUME NEW n \in Nat, Holds(p, m.dir), Below(m.dir, n)
      PROVE  Below(m.dir, n)'
  BY <1>2, <1>5 DEF Below, PlanIds
<1>6. WriteInv(p) => WriteInv(p)'
  <2> SUFFICES ASSUME WriteInv(p) PROVE WriteInv(p)'
    OBVIOUS
  <2> DEFINE d == w.dir
  <2>1. w \in Writes
    BY DEF WriteInv
  <2>2. CASE w.next = "locate" \/ w.next = "reread"
    BY <1>1, <2>1, <2>2 DEF WriteInv, Writes
  <2>3. CASE w.next = "read"
    <3>1. Holds(p, d) /\ rec[d] \in {Old, New}
      BY <2>3 DEF WriteInv
    <3>2. rec'[d] \in {Old, New}
      BY <1>2, <3>1
    <3> QED
      BY <1>1, <2>1, <2>3, <3>2 DEF WriteInv, Writes
  <2>4. CASE w.next = "point"
    <3>1. holder[Root] = p /\ rec[d] = None /\ d \in Directories /\ d \in made
      BY <2>1, <2>4 DEF WriteInv, Writes
    <3>2. rec'[d] = None /\ holder'[Root] = p /\ d \in made'
      BY <1>0, <3>1 DEF Respects
    <3> QED
      BY <2>1, <2>4, <3>2 DEF WriteInv, Writes
  <2>5. CASE w.file = "rec" /\ w.next = "end"
    <3>1. Holds(p, d) /\ Present(d) /\ rec[d].rev < w.value.rev /\ 1 < w.value.rev
          /\ NamesWritten(d, w.value)
      BY <2>5 DEF WriteInv
    <3>2. rec'[d].rev < w.value.rev /\ NamesWritten(d, w.value)'
      BY <1>2, <1>3, <3>1 DEF NamesWritten
    <3> QED
      BY <1>1, <2>1, <2>5, <3>1, <3>2 DEF WriteInv, Writes
  <2>6. CASE w.file = "plan"
    <3>1. Revising(p) /\ m.dir = d /\ w.value = NewPlan(m) /\ written[d] \subseteq Archived(d)
      BY <2>6 DEF WriteInv
    <3>2. (written[d] \subseteq Archived(d))'
      BY <1>2, <3>1 DEF Archived, Revising
    <3> QED
      BY <1>4, <2>1, <2>6, <3>1, <3>2 DEF WriteInv, Writes, NewPlan
  <2>7. CASE w.file = "current"
    BY <1>1, <2>1, <2>7 DEF WriteInv, Writes
  <2> QED
    BY <2>1, <2>2, <2>3, <2>4, <2>5, <2>6, <2>7 DEF Writes
<1>7. CASE at[p] = "fill"
  <2>1. /\ Revising(p) /\ m.plan = plan[m.dir] /\ m.plan # None /\ Holds(p, m.dir)
    BY <1>7 DEF ProcInv, Revising
  <2>2. PICK n \in 1..ArchiveLimit + 1 :
          archive[m.dir] \in [1..n -> Nat \cup {Torn}] /\ Below(m.dir, n)
    BY <1>7 DEF ProcInv, Filling
  <2>3. archive'[m.dir] \in [1..n -> Nat \cup {Torn}] /\ Below(m.dir, n)'
    BY <1>2, <1>5, <2>1, <2>2
  <2> QED
    BY <1>2, <1>4, <1>7, <2>1, <2>3 DEF ProcInv, Filling
<1>8. CASE at[p] = "archive" \/ at[p] = "name"
  BY <1>2, <1>4, <1>8 DEF ProcInv, Revising
<1>9. CASE at[p] \in {"temp", "rename"}
  BY <1>6, <1>9 DEF ProcInv
<1>10. CASE at[p] \notin {"fill", "archive", "name", "temp", "rename"}
  BY <1>1, <1>10 DEF ProcInv
<1> QED
  BY <1>7, <1>8, <1>9, <1>10

(***************************************************************************)
(* The writes.                                                             *)
(***************************************************************************)
(* A record is renamed into place: a migration, the first record of a new  *)
(* directory, or a revision under the lock.                                *)
LEMMA RenamesRecord ==
    ASSUME WorkStateRecordsAssumption, Shared, NEW p \in Procs, ProcInv(p), Rename(p),
           mem[p].write.file = "rec"
    PROVE  Leaves(p) /\ rec'[mem[p].write.dir] = mem[p].write.value
<1> DEFINE w == mem[p].write
           d == w.dir
           v == w.value
<1>0. /\ WriteInv(p) /\ w \in Writes /\ d \in Directories /\ v \in IntentRecords
      /\ None \notin IntentRecords /\ Old # None /\ New # None /\ Directories \subseteq Places
      /\ ~New.legacy /\ New.plan = None
  BY Basics DEF Rename, ProcInv, WriteInv, Writes, New
<1>1. /\ rec' = [rec EXCEPT ![d] = v] /\ UNCHANGED <<made, plan, archive, current, written>>
      /\ rec \in [Directories -> IntentRecords \cup {None}]
  BY DEF Rename, Shared, TypeOK, FilesType
<1>2. /\ v = New \/ holder[d] = p
      /\ rec[d] = None => holder[Root] = p
      /\ d \in made /\ ~v.legacy /\ NamesWritten(d, v)
  <2>1. CASE w.next \in {"locate", "reread", "read"}
    BY <1>0, <2>1 DEF WriteInv, Writes, Present, NamesWritten, Shared, RecordsInv
  <2>2. CASE w.next = "point"
    BY <1>0, <2>2 DEF WriteInv, Writes, NamesWritten
  <2>3. CASE w.next = "end"
    BY <1>0, <2>3 DEF WriteInv, Writes, Present, Holds, Shared, RecordsInv
  <2> QED
    BY <1>0, <2>1, <2>2, <2>3 DEF Writes
<1>3. Respects(p)
  BY <1>0, <1>1, <1>2 DEF Respects
<1>4. FilesType' /\ (archive \in [Directories -> Archives])'
  BY <1>0, <1>1 DEF Shared, TypeOK, FilesType
<1>5. RecordsInv'
  BY <1>0, <1>1, <1>2 DEF Shared, RecordsInv, Legacy
<1>6. PlansKept'
  BY <1>0, <1>1, <1>2 DEF Shared, TypeOK, FilesType, PlansKept, Archived, NamesWritten
<1> QED
  BY <1>0, <1>1, <1>3, <1>4, <1>5, <1>6 DEF Leaves, FilesInv

(* The new Plan is renamed into place: the one it replaces is archived.    *)
LEMMA RenamesPlan ==
    ASSUME WorkStateRecordsAssumption, Shared, NEW p \in Procs, ProcInv(p), Rename(p),
           mem[p].write.file = "plan"
    PROVE  /\ Leaves(p) /\ UNCHANGED rec
           /\ Revising(p) /\ mem[p].write.next = "name" /\ mem[p].id \in written'[mem[p].dir]
<1> DEFINE w == mem[p].write
           d == w.dir
           v == w.value
<1>0. /\ WriteInv(p) /\ w \in Writes /\ d \in Directories /\ v \in PlanRecords
      /\ None \notin PlanRecords /\ w.next = "name"
  BY Basics DEF Rename, ProcInv, WriteInv, Writes
<1>1. /\ plan' = [plan EXCEPT ![d] = v] /\ written' = [written EXCEPT ![d] = @ \cup {v.id}]
      /\ UNCHANGED <<made, rec, archive, current>>
      /\ plan \in [Directories -> PlanRecords \cup {None}] /\ written \in [Directories -> SUBSET Nat]
  BY <1>0 DEF Rename, Shared, TypeOK, FilesType
<1>2. /\ Revising(p) /\ mem[p].dir = d /\ v.id = mem[p].id /\ holder[d] = p
      /\ written[d] \subseteq Archived(d)
  BY <1>0 DEF WriteInv, NewPlan, Revising, Holds
<1>3. v.id \in Nat /\ v # None
  BY <1>0 DEF PlanRecords
<1>4. Respects(p)
  BY <1>1, <1>2 DEF Respects
<1>5. FilesType' /\ (archive \in [Directories -> Archives])' /\ RecordsInv'
  BY <1>0, <1>1, <1>3 DEF Shared, TypeOK, FilesType, RecordsInv
<1>6. PlansKept'
  BY <1>1, <1>2, <1>3 DEF Shared, PlansKept, Archived
<1> QED
  BY <1>0, <1>1, <1>2, <1>4, <1>5, <1>6 DEF Leaves, FilesInv

LEMMA RenamesPointer ==
    ASSUME WorkStateRecordsAssumption, Shared, NEW p \in Procs, ProcInv(p), Rename(p),
           mem[p].write.file = "current"
    PROVE  Leaves(p) /\ mem[p].write.next = "end"
<1> DEFINE w == mem[p].write
<1>0. w \in Writes /\ w.value \in Directories /\ w.next = "end" /\ rec[w.value] # None
  BY DEF Rename, ProcInv, WriteInv, Writes, Present
<1>1. current' = w.value /\ UNCHANGED <<made, rec, plan, archive, written>>
  BY DEF Rename
<1> QED
  BY <1>0, <1>1 DEF Leaves, FilesInv, Respects, Shared, TypeOK, FilesType, RecordsInv, PlansKept, Archived

LEMMA RenameDoes ==
    ASSUME WorkStateRecordsAssumption, Shared, NEW p \in Procs, ProcInv(p), Rename(p)
    PROVE  Does(p) /\ Leaves(p)
<1> DEFINE m == mem[p]
           w == m.write
           n == [m EXCEPT !.write = None]
<1>0. /\ ProcsType /\ m \in Memories /\ runs' \in Nat /\ UNCHANGED holder /\ Go(p, w.next, n)
      /\ WriteInv(p) /\ w \in Writes
  BY DEF Shared, TypeOK, ProcsType, Rename, Keep, ProcInv, WriteInv
<1>1. w.next \in Locations
  BY <1>0 DEF Writes, Locations
<1>2. n \in Memories /\ n.op = m.op /\ n.dir = m.dir /\ n.rec = m.rec /\ n.plan = m.plan /\ n.id = m.id
  BY <1>0, Remembers
<1> HIDE DEF n
<1>3. at'[p] = w.next /\ mem'[p] = n
  BY <1>0, <1>1, <1>2, Gone
<1>4. CASE w.file = "rec"
  <2>1. Leaves(p) /\ rec'[w.dir] = w.value /\ Respects(p)
    BY <1>4, RenamesRecord DEF Leaves
  <2>2. \A d : Present(d) => Present(d)'
    BY <2>1 DEF Respects, Present
  <2>3. New # None
    BY Basics
  <2>4. ProcInv(p)'
    <3>1. CASE w.next \in {"locate", "reread"}
      BY <1>0, <1>2, <1>3, <1>4, <2>2, <3>1 DEF WriteInv, ProcInv
    <3>2. CASE w.next = "read"
      BY <1>0, <1>2, <1>3, <3>2 DEF WriteInv, ProcInv, Holds
    <3>3. CASE w.next = "point"
      BY <1>0, <1>2, <1>3, <2>1, <2>3, <3>3 DEF WriteInv, ProcInv, Present, Writes
    <3>4. CASE w.next = "end"
      BY <1>3, <3>4 DEF ProcInv
    <3> QED
      BY <1>0, <1>4, <3>1, <3>2, <3>3, <3>4 DEF Writes
  <2> QED
    BY <1>0, <1>1, <1>2, <2>1, <2>4, OwnDoes
<1>5. CASE w.file = "plan"
  <2>1. /\ Leaves(p) /\ UNCHANGED rec /\ Revising(p) /\ w.next = "name" /\ m.id \in written'[m.dir]
    BY <1>5, RenamesPlan
  <2>2. Revising(p)'
    BY <1>0, <1>2, <1>3, <2>1 DEF Revising, Base, Present, Holds
  <2>3. ProcInv(p)'
    BY <1>2, <1>3, <2>1, <2>2 DEF ProcInv
  <2> QED
    BY <1>0, <1>1, <1>2, <2>1, <2>3, OwnDoes
<1>6. CASE w.file = "current"
  <2>1. Leaves(p) /\ w.next = "end"
    BY <1>6, RenamesPointer
  <2>2. ProcInv(p)'
    BY <1>3, <2>1 DEF ProcInv
  <2> QED
    BY <1>0, <1>1, <1>2, <2>1, <2>2, OwnDoes
<1> QED
  BY <1>0, <1>4, <1>5, <1>6 DEF Writes

(***************************************************************************)
(* The archive of the Plans.                                               *)
(***************************************************************************)
(* The largest of the indices 1, 2, ..., n. *)
LEMMA Largest ==
    ASSUME NEW n \in Nat \ {0}
    PROVE  Max(1..n) = n
BY DEF Max

(* The index of the next archive, when none above the limit is in use.     *)
LEMMA Indices ==
    ASSUME WorkStateRecordsAssumption, NEW d \in Directories, NEW n \in 0..ArchiveLimit + 1,
           archive[d] \in [1..n -> Nat \cup {Torn}]
    PROVE  /\ DOMAIN archive[d] = 1..n
           /\ n <= ArchiveLimit => NextIndex(d) = n + 1
           /\ n = ArchiveLimit + 1 => NextIndex(d) = n
<1>0. ArchiveLimit \in Nat /\ DOMAIN archive[d] = 1..n
  BY Basics
<1> DEFINE S == {0} \cup {k \in 1..n : k <= ArchiveLimit}
           l == IF n <= ArchiveLimit THEN n ELSE ArchiveLimit
<1>1. l \in S /\ l \in Nat /\ (\A k \in S : l >= k) /\ (\A k \in S : (\A j \in S : k >= j) => k = l)
  BY <1>0
<1>2. Max(S) = l
  BY <1>1 DEF Max
<1>3. NextIndex(d) = 1 + Max(S)
  BY <1>0 DEF NextIndex
<1> HIDE DEF S
<1> QED
  BY <1>0, <1>2, <1>3

(* The new Plan is to be written, when the one it replaces is archived.    *)
LEMMA WritePlanDoes ==
    ASSUME WorkStateRecordsAssumption, Shared, NEW p \in Procs, Revising(p), WritePlan(p), Keep,
           UNCHANGED <<rec, holder>>,
           mem[p].plan \in PlanRecords \cup {None}, NEW d \in Directories, mem[p].dir = d,
           written'[d] \subseteq {archive'[d][k] : k \in DOMAIN archive'[d]}
    PROVE  Does(p)
<1> DEFINE m == mem[p]
           v == NewPlan(m)
           w == [file |-> "plan", dir |-> d, value |-> v, next |-> "name"]
           n == Writing(m, "plan", d, v, "name")
<1>0. /\ ProcsType /\ m \in Memories /\ runs' \in Nat /\ Go(p, "temp", n) /\ "temp" \in Locations
      /\ d \in Directories /\ m.id \in Nat
  BY DEF Shared, TypeOK, ProcsType, Keep, WritePlan, Locations, Revising, Holds, Memories
<1>1. v \in PlanRecords
  BY <1>0 DEF NewPlan, PlanRecords
<1>2. w \in Writes
  BY <1>0, <1>1 DEF Writes
<1>3. /\ n \in Memories /\ n.op = m.op /\ n.dir = d /\ n.rec = m.rec /\ n.plan = m.plan /\ n.id = m.id
      /\ n.write = w
  BY <1>0, <1>2, WritingType
<1>4. NewPlan(n) = v
  BY <1>3 DEF NewPlan
<1> HIDE DEF n, v
<1>5. at'[p] = "temp" /\ mem'[p] = n
  BY <1>0, <1>3, Gone
<1>6. Revising(p)'
  BY <1>3, <1>5 DEF Revising, Base, Present, Holds
<1>7. WriteInv(p)'
  BY <1>2, <1>3, <1>4, <1>5, <1>6 DEF WriteInv, NewPlan, Archived
<1>8. ProcInv(p)'
  BY <1>5, <1>7 DEF ProcInv
<1> QED
  BY <1>0, <1>3, <1>8, OwnDoes

(* Only the archive of a directory the process has locked changes. *)
LEMMA ArchiveLeaves ==
    ASSUME Shared, NEW p, NEW d \in Directories, NEW a \in Archives, holder[d] = p,
           archive' = [archive EXCEPT ![d] = a],
           UNCHANGED <<made, rec, plan, current, written>>,
           written[d] \subseteq {a[n] : n \in DOMAIN a} \cup PlanIds(d)
    PROVE  Leaves(p)
<1>1. Respects(p)
  BY DEF Shared, TypeOK, Respects
<1>2. FilesType' /\ (archive \in [Directories -> Archives])' /\ RecordsInv'
  BY DEF Shared, TypeOK, FilesType, RecordsInv
<1>3. PlansKept'
  BY DEF Shared, TypeOK, PlansKept, Archived, PlanIds
<1> QED
  BY <1>1, <1>2, <1>3 DEF Leaves, FilesInv

LEMMA OpenArchiveDoes ==
    ASSUME WorkStateRecordsAssumption, Shared, NEW p \in Procs, ProcInv(p), OpenArchive(p)
    PROVE  Does(p) /\ Leaves(p)
<1> DEFINE m == mem[p]
           d == m.dir
<1>0. /\ ProcsType /\ m \in Memories /\ runs' \in Nat /\ Keep
      /\ Revising(p) /\ m.plan = plan[d] /\ d \in Directories /\ holder[d] = p
      /\ UNCHANGED <<made, rec, plan, current, written>>
      /\ m.plan \in PlanRecords \cup {None}
      /\ written[d] \subseteq Archived(d) \cup PlanIds(d)
  BY DEF Shared, TypeOK, ProcsType, OpenArchive, Keep, ProcInv, Revising, Holds, Memories, PlansKept,
         PlanIds
<1>1. CASE m.plan = None
  <2>1. WritePlan(p) /\ UNCHANGED <<archive, holder>>
    BY <1>1 DEF OpenArchive
  <2>2. written'[d] \subseteq {archive'[d][k] : k \in DOMAIN archive'[d]}
    BY <1>0, <1>1, <2>1 DEF PlanIds, Archived
  <2> QED
    BY <1>0, <2>1, <2>2, WritePlanDoes, Unwritten DEF files
<1>2. CASE m.plan # None /\ End(p) /\ UNCHANGED archive
  BY <1>0, <1>2, EndDoes, Unwritten DEF files
<1>3. CASE /\ m.plan # None /\ NextIndex(d) \notin DOMAIN archive[d]
           /\ archive' = [archive EXCEPT ![d] =
                 [n \in DOMAIN @ \cup {NextIndex(d)} |-> IF n \in DOMAIN @ THEN @[n] ELSE Torn]]
           /\ Go(p, "fill", m) /\ UNCHANGED holder
  <2>1. archive[d] \in Archives /\ archive \in [Directories -> Archives]
    BY <1>0 DEF Shared, TypeOK
  <2>2. PICK n \in 0..ArchiveLimit + 1 : archive[d] \in [1..n -> Nat \cup {Torn}]
    BY <2>1 DEF Archives
  <2>3. /\ DOMAIN archive[d] = 1..n /\ n <= ArchiveLimit /\ NextIndex(d) = n + 1
        /\ n \in Nat /\ n + 1 \in 1..ArchiveLimit + 1 /\ ArchiveLimit \in Nat
    BY <1>0, <1>3, <2>2, Indices, Basics
  <2> DEFINE a == [k \in 1..n + 1 |-> IF k \in 1..n THEN archive[d][k] ELSE Torn]
  <2>4. (1..n) \cup {n + 1} = 1..n + 1
    BY <2>3
  <2>5. archive' = [archive EXCEPT ![d] = a]
    BY <1>3, <2>3, <2>4, Zenon
  <2>6. a \in [1..n + 1 -> Nat \cup {Torn}] /\ a \in Archives /\ DOMAIN a = 1..n + 1
    BY <2>2, <2>3 DEF Archives
  <2>7. \A k \in 1..n : a[k] = archive[d][k] /\ k \in 1..(n + 1) - 1 /\ k \in 1..n + 1
    BY <2>3
  <2> HIDE DEF a
  <2>8. archive'[d] = a
    BY <1>0, <2>1, <2>5
  <2>9. Leaves(p)
    <3>1. Archived(d) \subseteq {a[k] : k \in DOMAIN a}
      BY <2>3, <2>6, <2>7 DEF Archived
    <3> QED
      BY <1>0, <2>5, <2>6, <3>1, ArchiveLeaves
  <2>10. written'[d] \subseteq {archive'[d][k] : k \in 1..(n + 1) - 1}
                                  \cup (IF plan'[d] = None THEN {} ELSE {plan'[d].id})
    <3>1. Archived(d) \subseteq {a[k] : k \in 1..(n + 1) - 1}
      BY <2>3, <2>7 DEF Archived
    <3> QED
      BY <1>0, <2>8, <3>1 DEF PlanIds
  <2>11. at'[p] = "fill" /\ mem'[p] = m /\ "fill" \in Locations
    BY <1>0, <1>3, Gone DEF Locations
  <2>12. Revising(p)'
    BY <1>0, <1>3, <2>11 DEF Revising, Base, Present, Holds
  <2>13. ProcInv(p)'
    <3>1. PICK x \in Directories : x = d
      BY <1>0
    <3>2. Filling(x)'
      <4>1. archive'[x] \in [1..n + 1 -> Nat \cup {Torn}]
        BY <2>6, <2>8, <3>1
      <4>2. Below(x, n + 1)'
        BY <2>10, <3>1 DEF Below, PlanIds
      <4> QED
        BY <2>3, <4>1, <4>2 DEF Filling
    <3> QED
      BY <1>0, <1>3, <2>11, <2>12, <3>1, <3>2 DEF ProcInv
  <2> QED
    BY <1>0, <1>3, <2>9, <2>11, <2>13, OwnDoes
<1> QED
  BY <1>1, <1>2, <1>3 DEF OpenArchive

LEMMA FillArchiveDoes ==
    ASSUME WorkStateRecordsAssumption, Shared, NEW p \in Procs, ProcInv(p), FillArchive(p)
    PROVE  Does(p) /\ Leaves(p)
<1> DEFINE m == mem[p]
           d == m.dir
<1>0. /\ ProcsType /\ m \in Memories /\ Keep /\ WritePlan(p)
      /\ Revising(p) /\ m.plan = plan[d] /\ m.plan # None /\ d \in Directories /\ holder[d] = p
      /\ UNCHANGED <<made, rec, plan, current, written, holder>>
      /\ m.plan \in PlanRecords \cup {None}
      /\ archive \in [Directories -> Archives]
  BY DEF Shared, TypeOK, ProcsType, FillArchive, Keep, ProcInv, Revising, Holds, Memories
<1>1. PICK n \in 1..ArchiveLimit + 1 : archive[d] \in [1..n -> Nat \cup {Torn}] /\ Below(d, n)
  BY <1>0 DEF ProcInv, FillArchive, Filling
<1>2. DOMAIN archive[d] = 1..n /\ n \in Nat \ {0} /\ Max(1..n) = n /\ n \in 1..n
      /\ n \in 0..ArchiveLimit + 1
  BY <1>1, Largest, Basics
<1>3. m.plan.id \in Nat
  BY <1>0 DEF PlanRecords
<1> DEFINE a == [archive[d] EXCEPT ![n] = m.plan.id]
<1>4. a \in [1..n -> Nat \cup {Torn}] /\ a \in Archives /\ DOMAIN a = 1..n /\ a[n] = m.plan.id
      /\ \A k \in 1..n - 1 : a[k] = archive[d][k] /\ k \in 1..n
  BY <1>1, <1>2, <1>3 DEF Archives
<1>5. archive' = [archive EXCEPT ![d] = a]
  BY <1>2 DEF FillArchive
<1> HIDE DEF a
<1>6. written[d] \subseteq {a[k] : k \in DOMAIN a}
  BY <1>0, <1>1, <1>2, <1>4 DEF Below, PlanIds
<1>7. Leaves(p)
  BY <1>0, <1>4, <1>5, <1>6, ArchiveLeaves
<1>8. archive'[d] = a
  BY <1>0, <1>5
<1>9. written'[d] \subseteq {archive'[d][k] : k \in DOMAIN archive'[d]}
  BY <1>0, <1>6, <1>8
<1> QED
  BY <1>0, <1>7, <1>9, WritePlanDoes

(***************************************************************************)
(* The invariant.                                                          *)
(***************************************************************************)
LEMMA InvInit ==
    ASSUME WorkStateRecordsAssumption, Init
    PROVE  IInv
<1>0. /\ Nobody \notin Procs /\ None \notin Nat /\ None \notin IntentRecords /\ None \notin PlanRecords
      /\ ArchiveLimit \in Nat /\ None \notin Directories /\ Directories \subseteq Nat
  BY Basics
<1>1. <<>> \in Archives
  <2>1. <<>> \in [1..0 -> Nat \cup {Torn}] /\ 0 \in 0..ArchiveLimit + 1
    BY <1>0
  <2> QED
    BY <2>1 DEF Archives
<1>2. PICK past \in {"legacy", "created", "planned"} :
        LET first == IF past = "planned" THEN 0 ELSE None
            begun == {d \in made : past = "planned"}
        IN /\ rec = [d \in Directories |->
                        IF d \in made THEN [rev |-> IF past = "planned" THEN 2 ELSE 1, plan |-> first,
                              legacy |-> past = "legacy"]
                        ELSE None]
           /\ plan = [d \in Directories |->
                         IF d \in begun THEN [id |-> first, pred |-> None] ELSE None]
           /\ written = [d \in Directories |-> IF d \in begun THEN {first} ELSE {}]
  BY DEF Init
<1> DEFINE First == [rev |-> 2, plan |-> 0, legacy |-> FALSE]
<1>3. First \in IntentRecords /\ Old \in IntentRecords /\ New \in IntentRecords
      /\ First.plan = 0 /\ Old.plan = None /\ New.plan = None
      /\ ~First.legacy /\ ~New.legacy
  BY <1>0, Basics DEF IntentRecords, Old, New
<1>4. \A d \in Directories :
        rec[d] = IF d \in made THEN IF past = "planned" THEN First
                                    ELSE IF past = "legacy" THEN Old ELSE New
                 ELSE None
  <2>1. CASE past = "planned"
    BY <1>2, <2>1
  <2>2. CASE past = "legacy"
    BY <1>2, <2>2 DEF Old
  <2>3. CASE past = "created"
    BY <1>2, <2>3 DEF New
  <2> QED
    BY <2>1, <2>2, <2>3
<1>5. DOMAIN rec = Directories /\ rec = [d \in Directories |-> rec[d]]
  BY <1>2
<1> HIDE DEF First
<1>6. [id |-> 0, pred |-> None] \in PlanRecords
  BY DEF PlanRecords
<1>7. /\ \A d \in Directories : plan[d] = IF d \in made /\ past = "planned"
                                            THEN [id |-> 0, pred |-> None] ELSE None
      /\ \A d \in Directories : written[d] = IF d \in made /\ past = "planned" THEN {0} ELSE {}
      /\ plan \in [Directories -> PlanRecords \cup {None}]
      /\ written \in [Directories -> SUBSET Nat]
  BY <1>2, <1>6
<1>8. made \subseteq Directories /\ (made # {} => 1 \in Directories) /\ current \in made \cup {None}
  <2>1. 1 \in Directories
    BY Basics DEF Directories
  <2>2. made \in {{}, {1}} /\ current = IF 1 \in made THEN 1 ELSE None
    BY DEF Init
  <2> QED
    BY <2>1, <2>2
<1>9. FilesType
  <2>1. rec \in [Directories -> IntentRecords \cup {None}]
    BY <1>3, <1>4, <1>5
  <2> QED
    BY <1>7, <1>8, <2>1 DEF FilesType
<1>10. archive \in [Directories -> Archives]
  BY <1>1 DEF Init
<1>11. ProcsType
  <2>1. Idle \in Memories /\ "idle" \in Locations /\ 0 \in Nat
    BY IdleType DEF Locations
  <2> QED
    BY <2>1 DEF Init, ProcsType
<1>12. RecordsInv
  BY <1>3, <1>4 DEF RecordsInv, Legacy
<1>13. PlansKept
  <2>1. \A d \in Directories : written[d] \subseteq (IF plan[d] = None THEN {} ELSE {plan[d].id})
    BY <1>0, <1>6, <1>7
  <2>2. \A d \in Directories : rec[d] # None /\ rec[d].plan # None => rec[d].plan \in written[d]
    BY <1>0, <1>3, <1>4, <1>7
  <2>3. current # None => rec[current] # None
    BY <1>0, <1>3, <1>4, <1>8
  <2> QED
    BY <2>1, <2>2, <2>3 DEF PlansKept
<1>14. \A p \in Procs : ProcInv(p)
  BY DEF Init, ProcInv
<1> QED
  BY <1>9, <1>10, <1>11, <1>12, <1>13, <1>14 DEF IInv, TypeOK

LEMMA NewDirectoryLeaves ==
    ASSUME Shared, NEW p, NewDirectory(p)
    PROVE  Leaves(p)
<1>1. PICK d \in Directories \ made : made' = made \cup {d}
  BY DEF NewDirectory
<1>2. UNCHANGED <<rec, plan, archive, current, written>>
  BY DEF NewDirectory
<1> QED
  BY <1>1, <1>2 DEF Leaves, Respects, FilesInv, FilesType, Shared, TypeOK, RecordsInv, PlansKept, Archived

(* What every step does to the process that takes it and to the files.     *)
LEMMA StepDoes ==
    ASSUME WorkStateRecordsAssumption, IInv, NEW p \in Procs, Step(p)
    PROVE  Does(p) /\ Leaves(p)
<1>0. Shared /\ ProcInv(p)
  BY DEF IInv, Shared
<1>1. ASSUME NEW op \in Commands, NEW d \in Places, Begin(p, op, d) PROVE Does(p) /\ Leaves(p)
  BY <1>0, <1>1, BeginDoes, Unwritten DEF Begin
<1>2. ASSUME OpenTemp(p) PROVE Does(p) /\ Leaves(p)
  BY <1>0, <1>2, OpenTempDoes, Unwritten DEF OpenTemp
<1>3. ASSUME Rename(p) PROVE Does(p) /\ Leaves(p)
  BY <1>0, <1>3, RenameDoes
<1>4. ASSUME Finish(p) \/ Die(p) \/ WriteFails(p) \/ RenameFails(p) PROVE Does(p) /\ Leaves(p)
  BY <1>0, <1>4, FinishDoes, Unwritten DEF Finish, Die, WriteFails, RenameFails
<1>5. ASSUME Locate(p) \/ Reread(p) PROVE Does(p) /\ Leaves(p)
  BY <1>0, <1>5, LocateDoes, Unwritten DEF Locate, Reread
<1>6. ASSUME Enter(p) PROVE Does(p) /\ Leaves(p)
  BY <1>0, <1>6, EnterDoes, Unwritten DEF Enter
<1>7. ASSUME Read(p) PROVE Does(p) /\ Leaves(p)
  BY <1>0, <1>7, ReadDoes, Unwritten DEF Read
<1>8. ASSUME OpenArchive(p) PROVE Does(p) /\ Leaves(p)
  BY <1>0, <1>8, OpenArchiveDoes
<1>9. ASSUME FillArchive(p) PROVE Does(p) /\ Leaves(p)
  BY <1>0, <1>9, FillArchiveDoes
<1>10. ASSUME NamePlan(p) PROVE Does(p) /\ Leaves(p)
  BY <1>0, <1>10, NamePlanDoes, Unwritten DEF NamePlan
<1>11. ASSUME EnterRoot(p) PROVE Does(p) /\ Leaves(p)
  <2>1. CASE UNCHANGED files
    BY <1>0, <1>11, <2>1, EnterRootDoes, Unwritten
  <2>2. CASE NewDirectory(p)
    BY <1>0, <1>11, <2>2, EnterRootDoes, NewDirectoryLeaves
  <2>3. mem[p].op \in {"create", "select", "recover", "list", "current"}
    BY <1>0, <1>11 DEF ProcInv, EnterRoot
  <2> QED
    BY <1>11, <2>1, <2>2, <2>3 DEF EnterRoot
<1>12. ASSUME Point(p) PROVE Does(p) /\ Leaves(p)
  BY <1>0, <1>12, PointDoes, Unwritten DEF Point
<1>13. ASSUME Leave(p) PROVE Does(p) /\ Leaves(p)
  BY <1>0, <1>13, LeaveDoes, Unwritten DEF Leave
<1>14. ASSUME Recovered(p) PROVE Does(p) /\ Leaves(p)
  BY <1>0, <1>14, RecoveredDoes, Unwritten DEF Recovered
<1>15. ASSUME NEW d \in Directories, Sweep(p, d) PROVE Does(p) /\ Leaves(p)
  BY <1>0, <1>15, SweepDoes, Unwritten DEF Sweep
<1> QED
  BY <1>1, <1>2, <1>3, <1>4, <1>5, <1>6, <1>7, <1>8, <1>9, <1>10, <1>11, <1>12, <1>13, <1>14, <1>15
     DEF Step

LEMMA InvNext ==
    ASSUME WorkStateRecordsAssumption, IInv, [Next]_vars
    PROVE  IInv'
<1>1. CASE UNCHANGED vars
  BY <1>1 DEF vars, files, IInv, TypeOK, FilesType, ProcsType, RecordsInv, Legacy, PlansKept, Archived,
              ProcInv, WriteInv, Revising, Base, Below, Filling, PlanIds, Holds, Present, NamesWritten
<1>2. ASSUME NEW q \in Procs, Step(q)
      PROVE  IInv'
  <2>1. Does(q) /\ Leaves(q)
    BY <1>2, StepDoes
  <2>2. Shared
    BY DEF IInv, Shared
  <2>3. \A p \in Procs : ProcInv(p)'
    BY <2>1, <2>2, Untouched DEF Does, Leaves, IInv
  <2> QED
    BY <2>1, <2>3 DEF Does, Leaves, FilesInv, IInv, TypeOK
<1> QED
  BY <1>1, <1>2 DEF Next

THEOREM Invariant ==
    ASSUME WorkStateRecordsAssumption
    PROVE  Spec => []IInv
BY InvInit, InvNext, PTL DEF Spec

(* Wherever a revision of the Plan is cut short (revisePlan: archive,      *)
(* plan.toon, intent.toon), every Plan that has ever been the canonical    *)
(* one still is, or is archived whole; the Plan the Intent names is among  *)
(* them, and the pointer names a directory with an Intent.                 *)
THEOREM PlansStay ==
    ASSUME WorkStateRecordsAssumption
    PROVE  Spec => []PlansKept
<1>1. IInv => PlansKept
  BY DEF IInv
<1> QED
  BY <1>1, Invariant, PTL

(***************************************************************************)
(* Locks, and the temporary files.                                         *)
(***************************************************************************)
(* A step gives nobody else a lock, and takes a temporary file from nobody *)
(* else but where it takes the lock: the sweep of a directory comes with   *)
(* its lock, and that of the root with the root's.                         *)
Frees(q) ==
    /\ \A p \in Procs \ {q}, h \in Places :
         /\ holder'[h] = p => holder[h] = p
         /\ <<h, p>> \in temps /\ <<h, p>> \notin temps' => holder'[h] = q
    /\ at'[q] = "rename" => <<Place(mem'[q]), q>> \in temps'

LEMMA HoldersFreed ==
    ASSUME WorkStateRecordsAssumption, ProcsType, NEW q \in Procs,
           UNCHANGED holder \/ holder' = Free(q) \/ (\E h \in Places : Taken(q, h))
             \/ (\E h \in Places : holder' = [holder EXCEPT ![h] = Nobody])
    PROVE  \A p \in Procs \ {q}, h \in Places : holder'[h] = p => holder[h] = p
<1>1. Nobody \notin Procs /\ holder \in [Places -> Procs \cup {Nobody}]
  BY Basics DEF ProcsType
<1>2. CASE UNCHANGED holder
  BY <1>2
<1>3. CASE holder' = Free(q)
  BY <1>1, <1>3 DEF Free
<1>4. CASE \E h \in Places : Taken(q, h)
  BY <1>1, <1>4 DEF Taken
<1>5. CASE \E h \in Places : holder' = [holder EXCEPT ![h] = Nobody]
  BY <1>1, <1>5
<1> QED
  BY <1>2, <1>3, <1>4, <1>5

LEMMA GoneElsewhere ==
    ASSUME ProcsType, NEW q \in Procs, NEW place, NEW m, Go(q, place, m), place # "rename"
    PROVE  at'[q] # "rename"
BY DEF Go, ProcsType

LEMMA StepFrees ==
    ASSUME WorkStateRecordsAssumption, IInv, NEW q \in Procs, Step(q)
    PROVE  Frees(q)
<1>0. ProcsType /\ ProcInv(q) /\ Root \in Places /\ Directories \subseteq Places
  BY Basics DEF IInv, TypeOK
<1>a. End(q) => at'[q] # "rename" /\ holder' = Free(q)
  BY <1>0, GoneElsewhere DEF End
<1>b. \A d, back : Migrate(q, d, back) => at'[q] # "rename"
  BY <1>0, GoneElsewhere DEF Migrate
<1>c. WritePlan(q) => at'[q] # "rename"
  BY <1>0, GoneElsewhere DEF WritePlan
<1>1. ASSUME UNCHANGED temps, at'[q] # "rename",
             UNCHANGED holder \/ holder' = Free(q) \/ (\E h \in Places : Taken(q, h))
               \/ (\E h \in Places : holder' = [holder EXCEPT ![h] = Nobody])
      PROVE  Frees(q)
  BY <1>0, <1>1, HoldersFreed DEF Frees
<1>2. ASSUME NEW op \in Commands, NEW d \in Places, Begin(q, op, d) PROVE Frees(q)
  BY <1>0, <1>1, <1>2, GoneElsewhere DEF Begin
<1>3. CASE OpenTemp(q)
  <2>1. at'[q] = "rename" /\ mem'[q] = mem[q] /\ UNCHANGED holder
    BY <1>0, <1>3 DEF OpenTemp, Go, ProcsType
  <2>2. temps' = temps \cup {<<Place(mem[q]), q>>}
    BY <1>3 DEF OpenTemp
  <2>3. Place(mem'[q]) = Place(mem[q])
    BY <2>1 DEF Place
  <2> QED
    BY <2>1, <2>2, <2>3 DEF Frees
<1>4. CASE Rename(q)
  <2>1. mem[q].write.next # "rename"
    BY <1>4 DEF Rename, IInv, ProcInv, WriteInv, Writes
  <2>2. at'[q] # "rename" /\ UNCHANGED holder /\ temps' = temps \ {<<Place(mem[q]), q>>}
    BY <1>0, <1>4, <2>1, GoneElsewhere DEF Rename
  <2> QED
    BY <2>2 DEF Frees
<1>5. CASE RenameFails(q) \/ Finish(q) \/ Die(q)
  BY <1>1, <1>5, <1>a DEF RenameFails, Finish, Die
<1>6. CASE WriteFails(q)
  <2>1. at'[q] # "rename" /\ holder' = Free(q) /\ temps \ {<<Place(mem[q]), q>>} \subseteq temps'
    BY <1>6, <1>a DEF WriteFails
  <2> QED
    BY <1>0, <2>1, HoldersFreed DEF Frees
<1>7. CASE Locate(q)
  <2>1. CASE \E d \in made : Legacy(rec[d])
    BY <1>1, <1>7, <1>b, <2>1 DEF Locate
  <2>2. CASE ~(\E d \in made : Legacy(rec[d]))
    BY <1>0, <1>1, <1>7, <1>a, <2>2, GoneElsewhere DEF Locate
  <2> QED
    BY <2>1, <2>2
<1>8. CASE Reread(q)
  BY <1>0, <1>1, <1>8, <1>b, GoneElsewhere DEF Reread
<1>9. CASE Enter(q)
  <2>1. mem[q].dir \in Places
    BY <1>0, <1>9 DEF Enter, ProcInv
  <2>2. /\ Taken(q, mem[q].dir) /\ holder'[mem[q].dir] = q
        /\ temps' = {t \in temps : t[1] # mem[q].dir}
    BY <1>0, <1>9, <2>1, TakenHolds DEF Enter
  <2>3. at'[q] # "rename"
    BY <1>0, <1>9, GoneElsewhere DEF Enter
  <2> QED
    BY <1>0, <2>1, <2>2, <2>3, HoldersFreed DEF Frees
<1>10. CASE Read(q)
  BY <1>0, <1>1, <1>10, <1>a, <1>b, GoneElsewhere DEF Read
<1>11. CASE OpenArchive(q)
  BY <1>0, <1>1, <1>11, <1>a, <1>c, GoneElsewhere DEF OpenArchive
<1>12. CASE FillArchive(q)
  BY <1>1, <1>12, <1>c DEF FillArchive
<1>13. CASE NamePlan(q) \/ Point(q)
  BY <1>0, <1>1, <1>13, GoneElsewhere DEF NamePlan, Point
<1>14. CASE EnterRoot(q)
  <2>1. Taken(q, Root) /\ holder'[Root] = q
    BY <1>0, <1>14, TakenHolds DEF EnterRoot
  <2>2. at'[q] # "rename"
    <3>1. CASE NewDirectory(q)
      BY <1>0, <3>1, GoneElsewhere DEF NewDirectory
    <3>2. CASE ~NewDirectory(q)
      BY <1>0, <1>14, <3>2, GoneElsewhere DEF EnterRoot, ProcInv
    <3> QED
      BY <3>1, <3>2
  <2>3. temps' = temps \/ temps' = {t \in temps : t[1] # Root}
    BY <1>0, <1>14 DEF EnterRoot, ProcInv, NewDirectory
  <2> QED
    BY <1>0, <2>1, <2>2, <2>3, HoldersFreed DEF Frees
<1>15. CASE Leave(q)
  <2>1. mem[q].dir \in Places
    BY <1>0, <1>15 DEF Leave, ProcInv, Holds
  <2> QED
    BY <1>0, <1>1, <1>15, <2>1, GoneElsewhere DEF Leave
<1>16. CASE Recovered(q)
  BY <1>0, <1>1, <1>16, <1>a, GoneElsewhere DEF Recovered
<1>17. ASSUME NEW d \in Directories, Sweep(q, d) PROVE Frees(q)
  <2>1. Taken(q, d) /\ holder'[d] = q /\ temps' = {t \in temps : t[1] # d}
    BY <1>0, <1>17, TakenHolds DEF Sweep
  <2>2. at'[q] # "rename"
    BY <1>0, <1>17, GoneElsewhere DEF Sweep
  <2> QED
    BY <1>0, <2>1, <2>2, HoldersFreed DEF Frees
<1> QED
  BY <1>2, <1>3, <1>4, <1>5, <1>6, <1>7, <1>8, <1>9, <1>10, <1>11, <1>12, <1>13, <1>14, <1>15, <1>16,
     <1>17 DEF Step

LEMMA WritesStand ==
    ASSUME WorkStateRecordsAssumption, IInv, LockedWritesStand, [Next]_vars
    PROVE  LockedWritesStand'
<1>1. CASE UNCHANGED vars
  BY <1>1 DEF vars, LockedWritesStand, Place
<1>2. ASSUME NEW q \in Procs, Step(q), NEW p \in Procs, at'[p] = "rename",
             holder'[Place(mem'[p])] = p
      PROVE  <<Place(mem'[p]), p>> \in temps'
  <2>1. Frees(q) /\ Does(q) /\ Nobody \notin Procs
    BY <1>2, StepFrees, StepDoes, Basics
  <2>2. CASE p = q
    BY <1>2, <2>1, <2>2 DEF Frees
  <2>3. CASE p # q
    <3>1. at[p] = "rename" /\ mem'[p] = mem[p]
      BY <1>2, <2>1, <2>3 DEF Does
    <3>2. mem[p].write \in Writes
      BY <3>1 DEF IInv, ProcInv, WriteInv
    <3>3. Place(mem[p]) \in Places /\ Place(mem'[p]) = Place(mem[p])
      BY <3>1, <3>2, Basics DEF Place, Writes
    <3>4. holder[Place(mem[p])] = p
      BY <1>2, <2>1, <2>3, <3>3 DEF Frees
    <3>5. <<Place(mem[p]), p>> \in temps
      BY <3>1, <3>4 DEF LockedWritesStand
    <3> QED
      BY <1>2, <2>1, <2>3, <3>3, <3>5 DEF Frees
  <2> QED
    BY <2>2, <2>3
<1> QED
  BY <1>1, <1>2 DEF Next, LockedWritesStand

(* A recovery removes the temporary files it finds, but never the one an   *)
(* operation is about to rename under the lock of the place                *)
(* (#recoverIntentDirectory, atomicWriteText).                             *)
THEOREM LockedWrites ==
    ASSUME WorkStateRecordsAssumption
    PROVE  Spec => []LockedWritesStand
<1>1. Init => LockedWritesStand
  BY DEF Init, LockedWritesStand
<1> QED
  BY <1>1, WritesStand, Invariant, PTL DEF Spec

(***************************************************************************)
(* Lost revisions.                                                         *)
(***************************************************************************)
LEMMA RecordSuperseded ==
    ASSUME WorkStateRecordsAssumption, IInv, NEW p \in Procs, Rename(p)
    PROVE  Supersedes
<1> SUFFICES ASSUME NEW d \in Directories, rec[d] # None, rec'[d] # rec[d], ~Legacy(rec[d]),
                    ~UnlockedMigration(p)
             PROVE  rec'[d].rev > rec[d].rev
  BY DEF Supersedes
<1> DEFINE w == mem[p].write
<1>1. /\ WriteInv(p) /\ w \in Writes /\ w.file = "rec" /\ w.dir = d /\ rec'[d] = w.value
      /\ w.next \notin {"locate", "reread"}
  BY DEF Rename, IInv, ProcInv, WriteInv, TypeOK, FilesType, UnlockedMigration
<1>2. w.next \notin {"read", "point"}
  <2>1. Legacy(Old)
    BY Basics DEF Legacy, Old
  <2> QED
    BY <1>1, <2>1 DEF WriteInv
<1>3. w.next = "end" /\ rec[d].rev < w.value.rev
  BY <1>1, <1>2 DEF WriteInv, Writes
<1>4. rec[d].rev \in Nat /\ w.value.rev \in Nat
  BY <1>1 DEF IInv, TypeOK, FilesType, Writes, IntentRecords
<1> QED
  BY <1>1, <1>3, <1>4

(* A revision is lost to nobody but a reader that migrates, without the    *)
(* lock, a record of the previous schema it has read before (#locate and   *)
(* selectCurrent calling #readIntentPath).                                 *)
THEOREM LostToMigration ==
    ASSUME WorkStateRecordsAssumption
    PROVE  Spec => LostOnlyToMigration
<1>1. ASSUME IInv, [Next]_vars PROVE Supersedes \/ UNCHANGED vars
  <2>1. CASE UNCHANGED vars
    BY <2>1
  <2>2. CASE \E p \in Procs : Rename(p)
    BY <1>1, <2>2, RecordSuperseded
  <2>3. ASSUME NEW p \in Procs, Step(p), ~Rename(p) PROVE UNCHANGED rec
    BY <2>3 DEF Step, Begin, OpenTemp, RenameFails, Locate, Reread, Enter, Read, OpenArchive, FillArchive,
                NamePlan, Finish, EnterRoot, NewDirectory, Point, Leave, Recovered, Sweep, Die,
                WriteFails, files
  <2> QED
    BY <1>1, <2>1, <2>2, <2>3 DEF Next, Supersedes
<1> QED
  BY <1>1, Invariant, PTL DEF Spec, LostOnlyToMigration

===============================================================================
