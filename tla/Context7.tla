------------------------------ MODULE Context7 ------------------------------
(***************************************************************************)
(* The one tool HolyCodex installs outside of Codex, ctx7, through the     *)
(* package manager it was launched with (packages/cli/src/tooling.ts), and *)
(* what the installer and its removal remember about it.  The machine is   *)
(* the user's: ctx7 may be there already, on PATH or in a manager's global *)
(* installation, and the user goes on installing and removing it.          *)
(*                                                                         *)
(* An inspection runs several commands and looks at several files; here it *)
(* is one step, and any of them failing makes it say "not there".  What    *)
(* it looks for first is the package: only one that is there can be        *)
(* reported as shadowed by another ctx7 on PATH.                           *)
(***************************************************************************)
EXTENDS Naturals, FiniteSets

CONSTANTS
    Managers,    \* package managers with a global installation
    Bun,         \* the one that can also be the process HolyCodex runs in
    Foreign,     \* a ctx7 on PATH that no manager has installed
    None,        \* nothing
    Gone,        \* no journal
    MaxVersion,  \* bound: releases of ctx7
    MaxRuns,     \* bound: commands of HolyCodex
    MaxFaults,   \* bound: failures of commands, and deaths
    MaxFails,    \* bound: installs that fail after the tool is recorded
    MaxMoves     \* bound: what the user does to the machine meanwhile

Context7Assumption ==
    /\ Bun \in Managers
    /\ Foreign \notin Managers /\ {None, Gone} \cap (Managers \cup {Foreign}) = {} /\ None # Gone
    /\ {MaxVersion, MaxRuns, MaxFaults, MaxFails, MaxMoves} \subseteq Nat
    /\ None \notin [version : Nat, identity : Managers \X Nat]
    /\ \A absent \in {None, Gone} :
            absent \notin [manager : Managers, version : Nat, executable : Managers \cup {Foreign},
                          ownership : {"holycodex", "user"},
                          identity : (Managers \X Nat) \cup {None}]

VARIABLES
    package,   \* manager -> the ctx7 in its global installation
    path,      \* what of ctx7 the directories on PATH may lead to
    latest,    \* the newest version of ctx7
    active,    \* tooling.context7 of the active record
    journal,   \* tooling.context7 of a journal left behind, or Gone
    pc, mem,   \* where the command is, and what it remembers
    budget,    \* bounds: commands, faults, failed installs, moves
    blind,     \* history: managers this command may be wrong about: an inspection
               \* has failed, or the user has installed something meanwhile
    forgotten  \* history: managers whose package no record tells of any more, from
               \* a step that is known to lose it

world == <<package, path, latest>>
vars == <<world, active, journal, pc, mem, budget, blind, forgotten>>

Versions == 1..MaxVersion
Launchers == {[family |-> m, bun |-> FALSE] : m \in Managers} \cup {[family |-> Bun, bun |-> TRUE]}

Idle == [by |-> None, op |-> None, previous |-> None, before |-> None, tool |-> None, added |-> FALSE]

Spend(what) == budget[what] > 0 /\ budget' = [budget EXCEPT ![what] = @ - 1]
Go(place, m) == pc' = place /\ mem' = m
Histories == UNCHANGED <<blind, forgotten>>
Records == UNCHANGED <<active, journal>>

(***************************************************************************)
(* Looking.                                                                *)
(***************************************************************************)
(* What PATH resolves to: the first directory that holds a ctx7. *)
OnPath ==
    IF Foreign \in path THEN Foreign
    ELSE IF \E m \in path : package[m] # None
      THEN CHOOSE m \in path : package[m] # None
      ELSE None

(* Its version: that of a foreign copy does not matter here. *)
VersionOn(where) == IF where \in Managers THEN package[where].version ELSE 0

(* The digest of manager, places and package.json. *)
Identity(m) == <<m, package[m].version>>

(* context7_shadowed: the package is there, but PATH leads to another      *)
(* executable.  The process itself being Bun, nobody looks at PATH.        *)
Shadowed(by) == ~by.bun /\ package[by.family] # None /\ OnPath \notin {None, by.family}

Tool(manager, version, executable, ownership, identity) ==
    [manager |-> manager, version |-> version, executable |-> executable,
     ownership |-> ownership, identity |-> identity]

Owned(t) == t # None /\ t.ownership = "holycodex"

(* Mutant: any package of the recorded manager counts as recorded. *)
OwnershipByManager(previous, by, before) ==
    IF before = None THEN "holycodex"
    ELSE IF Owned(previous) /\ previous.manager = by.family THEN "holycodex" ELSE "user"

(* context7Ownership: what is not there is HolyCodex's to install; what is *)
(* there is the user's, unless the record has this very installation.      *)
Ownership(previous, by, before) ==
    IF before = None THEN "holycodex"
    ELSE IF /\ Owned(previous)
            /\ previous.manager = by.family
            /\ previous.identity = before.identity THEN "holycodex" ELSE "user"

(* An inspection of the global installation, as the rest of the step sees  *)
(* it: what is there, None when nothing is or something fails on the way,  *)
(* or Foreign when it is shadowed.                                         *)
Inspected(by) ==
    IF package[by.family] = None THEN None
    ELSE IF Shadowed(by) THEN Foreign
    ELSE [version |-> package[by.family].version, identity |-> Identity(by.family)]

Seen(by, seen) ==
    \/ seen = Inspected(by) /\ UNCHANGED <<budget, blind>>
    \/ /\ package[by.family] # None
       /\ seen = None
       /\ Spend("faults")
       /\ blind' = blind \cup {by.family}

(***************************************************************************)
(* ensureContext7 in an install.  Whatever goes wrong is a warning, and    *)
(* the install goes on with the tool of the previous record.               *)
(***************************************************************************)
Unavailable == Go("record", mem)

(* A package this command has installed and then does not record. *)
Unrecorded == IF mem.added THEN {mem.by.family} ELSE {}

(* A copy on PATH that works is enough; it stays HolyCodex's only if the   *)
(* record has an identity and this executable.  A foreign one may be       *)
(* anything, also something that reports no version.                       *)
PathTool ==
    LET previous == mem.previous
        kept == Owned(previous) /\ previous.identity # None /\ previous.executable = OnPath
    IN
    Tool(mem.by.family, VersionOn(OnPath), OnPath,
         IF kept THEN "holycodex" ELSE "user", IF kept THEN previous.identity ELSE None)

TryPath ==
    /\ pc = "path"
    /\ \/ OnPath # None /\ Go("record", [mem EXCEPT !.tool = PathTool]) /\ UNCHANGED budget
       \/ OnPath \in {None, Foreign} /\ Go("before", mem) /\ UNCHANGED budget
       \/ OnPath # None /\ Spend("faults") /\ Go("before", mem)
    /\ UNCHANGED world /\ Records /\ Histories

InspectBefore ==
    /\ pc = "before"
    /\ \E seen \in {None, Inspected(mem.by)} :
        /\ Seen(mem.by, seen)
        /\ IF seen = Foreign
             THEN Unavailable
             ELSE Go("latest", [mem EXCEPT !.before = seen])
    /\ UNCHANGED <<world, forgotten>> /\ Records

(* The registry names the latest version; only a package of HolyCodex's    *)
(* own is brought to it.                                                   *)
AskRegistry ==
    LET owned == Ownership(mem.previous, mem.by, mem.before) = "holycodex"
        current == mem.before # None /\ mem.before.version = latest
    IN
    /\ pc = "latest"
    /\ \/ Go(IF owned /\ ~current THEN "add" ELSE "after", mem) /\ UNCHANGED budget
       \/ Spend("faults") /\ Unavailable
    /\ UNCHANGED world /\ Records /\ Histories

Installed(m) == [package EXCEPT ![m] = [version |-> latest, by |-> "holycodex"]]

(* The manager's command; one that fails may have had its effect, and then *)
(* nobody looks what is there now.                                         *)
Add ==
    /\ pc = "add"
    /\ \/ /\ package' = Installed(mem.by.family)
          /\ Go("after", [mem EXCEPT !.added = TRUE])
          /\ UNCHANGED <<budget, forgotten>>
       \/ /\ Spend("faults")
          /\ \/ package' = package /\ UNCHANGED forgotten
             \/ package' = Installed(mem.by.family) /\ forgotten' = forgotten \cup {mem.by.family}
          /\ Unavailable
    /\ UNCHANGED <<path, latest, blind>> /\ Records

(* An install it cannot confirm is not recorded: the inspection fails, or  *)
(* finds what it has installed shadowed by a copy on PATH.                 *)
InspectAfter ==
    /\ pc = "after"
    /\ \E seen \in {None, Inspected(mem.by)} :
        /\ Seen(mem.by, seen)
        /\ IF seen \in {None, Foreign} \/ seen.version # latest
             THEN Unavailable /\ forgotten' = forgotten \cup Unrecorded
             ELSE /\ Go("record", [mem EXCEPT !.tool =
                        Tool(mem.by.family, seen.version, mem.by.family,
                             Ownership(mem.previous, mem.by, mem.before), seen.identity)])
                  /\ UNCHANGED forgotten
    /\ UNCHANGED world /\ Records

(* A record that names another executable, or none of HolyCodex's, lets    *)
(* go of the package the previous one named.                               *)
Lets(previous, tool) ==
    IF Owned(previous) /\ tool # previous /\ ~(Owned(tool) /\ tool.manager = previous.manager)
      THEN {previous.manager} ELSE {}

(* The tool goes into the journal, for the rest of the install. *)
Record ==
    /\ pc = "record"
    /\ journal' = IF mem.tool = None THEN mem.previous ELSE mem.tool
    /\ forgotten' = forgotten \cup Lets(mem.previous, journal')
    /\ Go("rest", mem)
    /\ UNCHANGED <<world, active, budget, blind>>

(* The rest of the install: its record, or its failure. *)
Publish ==
    /\ pc = "rest"
    /\ active' = journal
    /\ journal' = Gone
    /\ Go("idle", Idle)
    /\ UNCHANGED <<world, budget>> /\ Histories

(* Mutant: a failed install leaves the tool. *)
RestKept ==
    /\ pc = "rest"
    /\ Spend("fails")
    /\ journal' = Gone
    /\ Go("idle", Idle)
    /\ UNCHANGED <<world, active>> /\ Histories

(* The rollback removes a tool this install has made HolyCodex's.  An      *)
(* upgrade of one that was HolyCodex's before is not undone, and the       *)
(* record that is kept does not fit it any more.                           *)
RestFails ==
    /\ pc = "rest"
    /\ Spend("fails")
    /\ IF Owned(mem.tool) /\ ~Owned(mem.previous)
         THEN Go("check", [mem EXCEPT !.op = "undo"]) /\ UNCHANGED <<journal, forgotten>>
         ELSE /\ journal' = Gone
              /\ forgotten' = forgotten \cup
                   {m \in Managers : /\ Owned(mem.previous) /\ Owned(mem.tool)
                                     /\ m = mem.tool.manager
                                     /\ mem.tool.identity # mem.previous.identity}
              /\ Go("idle", Idle)
    /\ UNCHANGED <<world, active, blind>>

(***************************************************************************)
(* removeOwnedContext7, in a rollback and in a removal.                    *)
(***************************************************************************)
Target == IF mem.op = "undo" THEN mem.tool ELSE mem.previous

(* Without a removal: a rollback keeps its journal, as conflicted; a       *)
(* removal drops the records all the same.                                 *)
NotRemoved ==
    IF mem.op = "undo"
      THEN Go("idle", Idle) /\ UNCHANGED <<active, journal, forgotten>>
      ELSE /\ active' = None /\ journal' = Gone
           /\ forgotten' = forgotten \cup Lets(Target, None)
           /\ Go(IF mem.op = "reconcile" THEN "path" ELSE "idle",
                 IF mem.op = "reconcile" THEN [Idle EXCEPT !.by = mem.by] ELSE Idle)

Removed ==
    IF mem.op = "undo"
      THEN journal' = Gone /\ Go("idle", Idle) /\ UNCHANGED <<active, forgotten>>
      ELSE /\ active' = None /\ journal' = Gone
           /\ Go(IF mem.op = "reconcile" THEN "path" ELSE "idle",
                 IF mem.op = "reconcile" THEN [Idle EXCEPT !.by = mem.by] ELSE Idle)
           /\ UNCHANGED forgotten

(* context7_remove_failed: the records stay. *)
RemovalFails ==
    /\ journal' = Target
    /\ Go("idle", Idle)
    /\ UNCHANGED <<active, forgotten>>

(* Mutant: the identity is not compared. *)
FitsVersion(seen) == seen \notin {None, Foreign} /\ seen.version = Target.version

Fits(seen) ==
    /\ seen \notin {None, Foreign}
    /\ seen.version = Target.version
    /\ Target.executable = Target.manager
    /\ seen.identity = Target.identity

CheckOwned ==
    /\ pc = "check"
    /\ UNCHANGED world
    /\ IF ~Owned(Target) \/ Target.manager # mem.by.family
         THEN NotRemoved /\ UNCHANGED <<budget, blind>>
         ELSE \E seen \in {None, Inspected(mem.by)} :
                /\ Seen(mem.by, seen)
                /\ IF Fits(seen)
                     THEN Go("remove", mem) /\ UNCHANGED <<active, journal, forgotten>>
                     ELSE NotRemoved

Uninstalled(m) == [package EXCEPT ![m] = None]

RemovePackage ==
    /\ pc = "remove"
    /\ \/ /\ package' = Uninstalled(mem.by.family)
          /\ Go("verify", mem) /\ UNCHANGED <<active, journal, forgotten, budget>>
       \/ /\ Spend("faults")
          /\ package' \in {package, Uninstalled(mem.by.family)}
          /\ RemovalFails
    /\ UNCHANGED <<path, latest, blind>>

(* With the package gone PATH is not looked at. *)
VerifyRemoved ==
    /\ pc = "verify"
    /\ UNCHANGED world
    /\ \E seen \in {None, Inspected(mem.by)} :
        /\ Seen(mem.by, seen)
        /\ IF seen = None THEN Removed ELSE RemovalFails

(***************************************************************************)
(* Commands.                                                               *)
(***************************************************************************)
(* An install reconciles a journal by a removal first. *)
Install(by) ==
    /\ pc = "idle"
    /\ Spend("runs")
    /\ IF journal # Gone
         THEN Go("check", [Idle EXCEPT !.by = by, !.op = "reconcile", !.previous = journal])
         ELSE Go("path", [Idle EXCEPT !.by = by, !.previous = active])
    /\ blind' = {}
    /\ UNCHANGED <<world, forgotten>> /\ Records

(* inspectContext7ReadOnly, as an upgrade compares it with the record. *)
ReadOnly(by) ==
    IF OnPath # None THEN <<by.family, VersionOn(OnPath), OnPath>>
    ELSE IF package[by.family] # None
      THEN <<by.family, package[by.family].version, by.family>>
      ELSE None

Drift(by) ==
    ReadOnly(by) # IF active = None THEN None
                   ELSE <<active.manager, active.version, active.executable>>

(* An upgrade that finds nothing else to do installs again when the tool   *)
(* is not as recorded.                                                     *)
Upgrade(by) == active # None /\ Drift(by) /\ Install(by)

Remove(by) ==
    /\ pc = "idle"
    /\ active # None \/ journal # Gone
    /\ Spend("runs")
    /\ Go("check", [Idle EXCEPT !.by = by, !.op = "remove",
                      !.previous = IF journal # Gone THEN journal ELSE active])
    /\ blind' = {}
    /\ UNCHANGED <<world, forgotten>> /\ Records

(* Death.  Before the tool is recorded the journal has the previous one. *)
Die ==
    /\ pc # "idle"
    /\ Spend("faults")
    /\ journal' = IF pc \in {"path", "before", "latest", "add", "after", "record"}
                    THEN mem.previous ELSE journal
    /\ forgotten' = forgotten \cup
            IF pc \in {"after", "record"} THEN Unrecorded ELSE {}
    /\ Go("idle", Idle)
    /\ UNCHANGED <<world, active, blind>>

(***************************************************************************)
(* The user, and the registry.                                             *)
(***************************************************************************)
UserInstalls(m, v) ==
    /\ Spend("moves")
    /\ package' = [package EXCEPT ![m] = [version |-> v, by |-> "user"]]
    /\ blind' = blind \cup {m}
    /\ UNCHANGED <<path, latest>>

UserRemoves(m) ==
    /\ Spend("moves")
    /\ package[m] # None
    /\ package' = [package EXCEPT ![m] = None]
    /\ UNCHANGED <<path, latest, blind>>

PathChanges(set) ==
    /\ Spend("moves")
    /\ path' = set
    /\ UNCHANGED <<package, latest, blind>>

NewVersion ==
    /\ Spend("moves")
    /\ latest < MaxVersion
    /\ latest' = latest + 1
    /\ UNCHANGED <<package, path, blind>>

User ==
    /\ \/ \E m \in Managers : UserRemoves(m) \/ \E v \in 1..latest : UserInstalls(m, v)
       \/ \E set \in SUBSET {Foreign, Bun} : PathChanges(set)
       \/ NewVersion
    /\ UNCHANGED <<pc, mem, forgotten>> /\ Records

Ensure == TryPath \/ InspectBefore \/ AskRegistry \/ Add \/ InspectAfter \/ Record
Rest == Publish \/ RestFails
Removal == CheckOwned \/ RemovePackage \/ VerifyRemoved

Command ==
    \/ \E by \in Launchers : Install(by) \/ Upgrade(by) \/ Remove(by)
    \/ Ensure \/ Rest \/ Removal \/ Die

Next == Command \/ User

Init ==
    /\ package \in [Managers -> {None, [version |-> 1, by |-> "user"]}]
    /\ path \in {{}, {Foreign}, {Bun}}
    /\ latest = 1
    /\ active = None
    /\ journal = Gone
    /\ pc = "idle"
    /\ mem = Idle
    /\ budget = [runs |-> MaxRuns, faults |-> MaxFaults, fails |-> MaxFails, moves |-> MaxMoves]
    /\ blind = {}
    /\ forgotten = {}

Spec == Init /\ [][Next]_vars

(***************************************************************************)
(* Properties.                                                             *)
(***************************************************************************)

(* HolyCodex never replaces or removes a ctx7 the user has installed,      *)
(* unless an inspection has failed and taken it for absent, or it is, to   *)
(* the last file, the installation the record calls HolyCodex's own.       *)
Recorded(m) ==
    \E t \in {mem.previous, mem.tool} : Owned(t) /\ t.identity = Identity(m)

SparesUser ==
    \A m \in Managers \ blind :
        package[m] # None /\ package[m].by = "user" /\ ~Recorded(m) => package'[m] = package[m]

Spares == Command => SparesUser
UserToolsStay == [][Spares]_vars

(* Between commands a package HolyCodex has installed is told, as the very *)
(* installation it is, by a record it will be removed by, whatever has     *)
(* failed or died, unless one of these steps has lost it: a record that    *)
(* moves on to another manager or to a copy on PATH, a removal launched by *)
(* another manager or that does not find what is recorded, a failed        *)
(* install that had upgraded it, an add that fails after taking effect, an *)
(* install its inspection does not confirm or that dies before it is in    *)
(* the journal.                                                            *)
Told(m) ==
    \E t \in {active, journal} \ {None, Gone} :
        Owned(t) /\ t.manager = m /\ t.identity = Identity(m)

ToolsTold ==
    pc = "idle" =>
        \A m \in Managers \ forgotten :
            package[m] # None /\ package[m].by = "holycodex" => Told(m)
=============================================================================
