----------------------------- MODULE CodexBindings ----------------------------
(***************************************************************************)
(* The generated Codex bindings: scripts/generate-codex-bindings.ts, which *)
(* every script runs first, reuses the tree of an earlier run or generates *)
(* it anew, and packages/codex/src/generated-artifact.ts, which verifies   *)
(* the tree.  Nothing keeps two of them apart: files are removed, copied   *)
(* and read one by one, and a run may die anywhere.                        *)
(*                                                                         *)
(* A file is the version of the Codex CLI that generated it; a digest of   *)
(* the tree is the tree.  protocol.ts is written by the script itself.     *)
(***************************************************************************)
EXTENDS Naturals

CONSTANTS
    Procs,
    Required,       \* the files a tree must have, besides protocol.ts
    Versions,       \* versions of the Codex CLI, positive numbers
    Absent,
    Limits          \* bounds: runs, faults, changes of version

VersionAssumption == Versions \subseteq Nat \ {0}

VARIABLES
    cli,            \* the version locked and installed in the workspace
    tree,           \* [Files -> version, 0 when there is no such file]
    provenance,     \* provenance.json
    procs,          \* [Procs -> what the process is doing]
    mixed,          \* history: versions some tree was generated for by another
    left            \* what is left of Limits

vars == <<cli, tree, provenance, procs, mixed, left>>
disk == <<tree, provenance>>

Files == Required \cup {"protocol"}
None == [f \in Files |-> 0]
Spend(what) == left[what] > 0 /\ left' = [left EXCEPT ![what] = @ - 1]

Idle == [phase |-> "idle", kind |-> "none", version |-> 0, made |-> None,
         prov |-> Absent, read |-> None, todo |-> {}, again |-> FALSE, alone |-> FALSE]
At(p, phase) == procs[p].phase = phase
Does(p, proc) == procs' = [procs EXCEPT ![p] = proc]
Passes(p, phase) == procs' = [procs EXCEPT ![p].phase = phase]
Running(p) == procs[p].phase \notin {"idle", "done"}

(* "alone" remembers, for the properties, that a process has run with no   *)
(* other process and no upgrade beside it.                                 *)
Start(p, kind) ==
    /\ ~Running(p) /\ Spend("runs") /\ UNCHANGED <<cli, disk, mixed>>
    /\ procs' = [q \in Procs |->
            IF q = p THEN [Idle EXCEPT !.phase = IF kind = "ensure" THEN "resolve" ELSE "provenance",
                                       !.kind = kind, !.alone = \A o \in Procs \ {p} : ~Running(o)]
            ELSE [procs[q] EXCEPT !.alone = FALSE]]

(* resolveCodexTool: the package, the native binary and their digest agree *)
Resolve(p) ==
    /\ At(p, "resolve") /\ UNCHANGED <<cli, disk, mixed, left>>
    /\ Does(p, [procs[p] EXCEPT !.version = cli, !.phase = "provenance"])

-----------------------------------------------------------------------------
(* verifyCurrentOutput and verifyGeneratedArtifact: provenance, the tree   *)
(* file by file, protocol.ts.  What does not verify is generated anew,     *)
(* once, or fails.                                                         *)
Unverified(p) ==
    IF procs[p].kind = "ensure" /\ ~procs[p].again THEN Passes(p, "generate") ELSE Does(p, Idle)

CanReuse(proc, prov) ==
    prov # Absent /\ (proc.kind = "ensure" => prov.cli = proc.version)

ReadProvenance(p) ==
    /\ At(p, "provenance") /\ UNCHANGED <<cli, disk, mixed, left>>
    /\ IF CanReuse(procs[p], provenance)
       THEN Does(p, [procs[p] EXCEPT !.prov = provenance, !.version = provenance.cli,
                         !.todo = Files, !.phase = "inventory"])
       ELSE Unverified(p)

ReadFile(p) ==
    /\ At(p, "inventory") /\ UNCHANGED <<cli, disk, mixed, left>>
    /\ \E f \in procs[p].todo :
        Does(p, [procs[p] EXCEPT !.read[f] = tree[f], !.todo = @ \ {f}])

(* The digest of the inventory is the recorded one, the required files are *)
(* there, and protocol.ts is that of the version.                          *)
VerifiedByVersion(proc) ==  \* mutant of Verified: the inventory is not compared
    proc.read["protocol"] = proc.version
Verified(proc) ==
    /\ \A f \in Required : proc.read[f] # 0
    /\ proc.read = proc.prov.files
    /\ proc.read["protocol"] = proc.version

Verify(p) ==
    /\ At(p, "inventory") /\ procs[p].todo = {} /\ UNCHANGED <<cli, disk, mixed, left>>
    /\ IF Verified(procs[p]) THEN Passes(p, "done") ELSE Unverified(p)

-----------------------------------------------------------------------------
(* ensureCodexGenerated: the CLI generates into a temporary directory, the *)
(* old tree is removed, the new one copied, its provenance written.  The   *)
(* version is the one resolved before: another may be installed by now.    *)
Generate(p) ==
    /\ At(p, "generate") /\ UNCHANGED <<cli, disk, left>>
    /\ mixed' = mixed \cup ({procs[p].version} \ {cli})
    /\ Does(p, [procs[p] EXCEPT !.phase = "remove",
                    !.made = [f \in Files |-> IF f = "protocol" THEN procs[p].version ELSE cli]])

RemoveOne(p) ==
    /\ At(p, "remove") /\ UNCHANGED <<cli, procs, mixed, left>>
    /\ \/ \E f \in Files : tree[f] # 0 /\ tree' = [tree EXCEPT ![f] = 0] /\ UNCHANGED provenance
       \/ provenance # Absent /\ provenance' = Absent /\ UNCHANGED tree

Removed(p) ==
    /\ At(p, "remove") /\ tree = None /\ provenance = Absent /\ UNCHANGED <<cli, disk, mixed, left>>
    /\ Does(p, [procs[p] EXCEPT !.phase = "copy", !.todo = Files])

CopyOne(p) ==
    /\ At(p, "copy") /\ UNCHANGED <<cli, provenance, mixed, left>>
    /\ \E f \in procs[p].todo :
        /\ tree' = [tree EXCEPT ![f] = procs[p].made[f]]
        /\ Does(p, [procs[p] EXCEPT !.todo = @ \ {f}])

WriteProvenance(p) ==
    /\ At(p, "copy") /\ procs[p].todo = {} /\ UNCHANGED <<cli, tree, mixed, left>>
    /\ provenance' = [cli |-> procs[p].version, files |-> procs[p].made]
    /\ Does(p, [procs[p] EXCEPT !.phase = "provenance", !.again = TRUE])

(* A run dies, or fails: another one removes the directory below it.       *)
Stop(p) == Running(p) /\ Spend("faults") /\ Does(p, Idle) /\ UNCHANGED <<cli, disk, mixed>>
Disturbed(p) ==
    /\ procs[p].phase \in {"remove", "copy"}
    /\ \E q \in Procs \ {p} : procs[q].phase \in {"remove", "copy"}
    /\ Does(p, Idle) /\ UNCHANGED <<cli, disk, mixed, left>>

(* "bun install" brings another version, or one there was before.          *)
Upgrade(v) ==
    /\ v # cli /\ Spend("upgrades") /\ cli' = v /\ UNCHANGED <<disk, mixed>>
    /\ procs' = [p \in Procs |-> [procs[p] EXCEPT !.alone = FALSE]]

Init ==
    /\ cli \in Versions /\ tree = None /\ provenance = Absent /\ mixed = {}
    /\ procs = [p \in Procs |-> Idle] /\ left = Limits

Step(p) ==
    \/ Start(p, "ensure") \/ Start(p, "check") \/ Resolve(p) \/ ReadProvenance(p)
    \/ ReadFile(p) \/ Verify(p) \/ Generate(p) \/ RemoveOne(p) \/ Removed(p)
    \/ CopyOne(p) \/ WriteProvenance(p) \/ Stop(p) \/ Disturbed(p)
Next == (\E p \in Procs : Step(p)) \/ (\E v \in Versions : Upgrade(v))

Spec == Init /\ [][Next]_vars

-----------------------------------------------------------------------------
(* "Ensure generated bindings match the Codex CLI locked in this           *)
(* workspace": a run that nothing disturbs ends with a whole tree that is  *)
(* recorded as it is, for the installed version, whatever earlier runs,    *)
(* killed or colliding, left; and every file is of that version, unless    *)
(* another one was installed between the resolution and the generation of  *)
(* some run for it: that tree verifies ever after, mixed as it is, also    *)
(* when the version it is recorded for comes back.                         *)
WholeTreeReturned ==
    \A p \in Procs :
        At(p, "done") /\ procs[p].alone /\ procs[p].kind = "ensure"
            => /\ \A f \in Files : tree[f] # 0
               /\ tree["protocol"] = cli
               /\ provenance = [cli |-> cli, files |-> tree]
               /\ cli \in mixed \/ \A f \in Files : tree[f] = cli
=============================================================================
