------------------------------ MODULE PartsProofs ------------------------------
(***************************************************************************)
(* Proofs about the smaller components: the generated bindings             *)
(* (CodexBindings), the banked reset (BankedReset), ctx7 (Context7), the   *)
(* choices of an install (Selections) and its review (InstallReview), and  *)
(* the calls that change Codex's plugins (OfficialPlugins).                *)
(* Each has an inductive invariant and theorems of its own; what Parts     *)
(* states of a behaviour of that part follows, as nothing else happens in  *)
(* it.  Release and WorkStateRecords have proof modules of their own.      *)
(***************************************************************************)
EXTENDS Parts, Sequences, TLAPS

-----------------------------------------------------------------------------
(***************************************************************************)
(* The generated bindings.  A run nothing has disturbed is the only one,   *)
(* and what it has read of the tree is the tree.  What is recorded for a   *)
(* version is of that version, unless some run of it mixed two.            *)
(***************************************************************************)
ProcFields == {"phase", "kind", "version", "made", "prov", "read", "todo", "again", "alone"}

TreeOK ==
    /\ tree = [f \in Bindings!Files |-> tree[f]]
    /\ \/ provenance = Absent
       \/ \E version, files : /\ provenance = [cli |-> version, files |-> files]
                              /\ files = [f \in Bindings!Files |-> files[f]]
    /\ cli \in Releases

ProcsOK ==
    /\ procs = [p \in Procs |-> procs[p]]
    /\ \A p \in Procs : /\ ProcFields \subseteq DOMAIN procs[p]
                        /\ procs[p].made = [f \in Bindings!Files |-> procs[p].made[f]]
                        /\ procs[p].read = [f \in Bindings!Files |-> procs[p].read[f]]

Whole(p) ==
    /\ \A f \in Bindings!Files : tree[f] # 0
    /\ tree["protocol"] = cli
    /\ provenance = [cli |-> cli, files |-> tree] /\ provenance # Absent

Undisturbed(p) ==
    /\ \A q \in Procs \ {p} : ~Bindings!Running(q)
    /\ procs[p].kind = "ensure" /\ procs[p].phase \notin {"idle", "resolve"}
        => procs[p].version = cli
    /\ procs[p].kind = "ensure" /\ procs[p].phase = "inventory"
        => /\ provenance = procs[p].prov /\ provenance # Absent /\ provenance.cli = cli
           /\ \A f \in Bindings!Files \ procs[p].todo : procs[p].read[f] = tree[f]
    /\ procs[p].kind = "ensure" /\ procs[p].phase = "done" => Whole(p)

BindingsInv == TreeOK /\ ProcsOK /\ \A p \in Procs : procs[p].alone => Undisturbed(p)

(* What the other processes know of a step: only a start is made beside a  *)
(* running process, and whoever it disturbs is told so.                    *)
LEMMA OthersDisturbed ==
    ASSUME BindingsInv, NEW p \in Procs, Bindings!Step(p), NEW q \in Procs \ {p}
    PROVE  ~procs'[q].alone
<1>1. ASSUME NEW kind, Bindings!Start(p, kind) PROVE ~procs'[q].alone
  <2>1. procs'[q] = [procs[q] EXCEPT !.alone = FALSE]
    BY <1>1, Zenon DEF Bindings!Start
  <2> QED
    BY <2>1 DEF BindingsInv, ProcsOK, ProcFields
<1>2. CASE ~(Bindings!Start(p, "ensure") \/ Bindings!Start(p, "check"))
  <2>1. Bindings!Running(p)
    BY <1>2 DEF Bindings!Step, Bindings!Running, Bindings!At, Bindings!Resolve, Bindings!ReadProvenance,
       Bindings!ReadFile, Bindings!Verify, Bindings!Generate, Bindings!RemoveOne, Bindings!Removed,
       Bindings!CopyOne, Bindings!WriteProvenance, Bindings!Stop, Bindings!Disturbed
  <2>2. \A proc : Bindings!Does(p, proc) => procs'[q] = procs[q]
    BY DEF Bindings!Does, BindingsInv, ProcsOK
  <2>3. \A phase : Bindings!Passes(p, phase) => procs'[q] = procs[q]
    BY DEF Bindings!Passes, BindingsInv, ProcsOK
  <2>4. procs'[q] = procs[q]
    BY <1>2, <2>2, <2>3, Zenon DEF Bindings!Step, Bindings!Resolve,
       Bindings!ReadProvenance, Bindings!ReadFile, Bindings!Verify, Bindings!Unverified,
       Bindings!Generate, Bindings!RemoveOne, Bindings!Removed, Bindings!CopyOne,
       Bindings!WriteProvenance, Bindings!Stop, Bindings!Disturbed
  <2>5. ~procs[q].alone
    BY <2>1 DEF BindingsInv, Undisturbed
  <2> QED
    BY <2>4, <2>5
<1> QED
  BY <1>1, <1>2

LEMMA ProcShape ==
    ASSUME BindingsInv, NEW p \in Procs
    PROVE  /\ ProcFields \subseteq DOMAIN procs[p]
           /\ procs[p].made = [f \in Bindings!Files |-> procs[p].made[f]]
           /\ procs[p].read = [f \in Bindings!Files |-> procs[p].read[f]]
BY DEF BindingsInv, ProcsOK

(* A step that gives the process the record "proc". *)
LEMMA StepsTo ==
    ASSUME BindingsInv, NEW p \in Procs, Bindings!Step(p), TreeOK',
           NEW proc, procs' = [procs EXCEPT ![p] = proc],
           ProcFields \subseteq DOMAIN proc,
           proc.made = [f \in Bindings!Files |-> proc.made[f]],
           proc.read = [f \in Bindings!Files |-> proc.read[f]],
           proc.alone => Undisturbed(p)'
    PROVE  BindingsInv'
<1>1. procs'[p] = proc /\ \A q \in Procs \ {p} : procs'[q] = procs[q]
  BY DEF BindingsInv, ProcsOK
<1>0. procs' = [q \in Procs |-> procs'[q]]
  BY DEF BindingsInv, ProcsOK
<1>2. ProcsOK'
  <2>1. \A q \in Procs : /\ ProcFields \subseteq DOMAIN procs'[q]
                         /\ procs'[q].made = [f \in Bindings!Files |-> procs'[q].made[f]]
                         /\ procs'[q].read = [f \in Bindings!Files |-> procs'[q].read[f]]
    BY <1>1 DEF BindingsInv, ProcsOK
  <2> QED
    BY <1>0, <2>1 DEF ProcsOK, Bindings!Files
<1>3. \A q \in Procs \ {p} : ~procs'[q].alone
  BY OthersDisturbed
<1> QED
  BY <1>1, <1>2, <1>3 DEF BindingsInv

LEMMA StartStep ==
    ASSUME BindingsInv, NEW p \in Procs, NEW kind \in {"ensure", "check"}, Bindings!Start(p, kind),
           Bindings!Step(p)
    PROVE  BindingsInv'
<1> DEFINE first == IF kind = "ensure" THEN "resolve" ELSE "provenance"
           proc == [Bindings!Idle EXCEPT !.phase = first, !.kind = kind,
                        !.alone = \A o \in Procs \ {p} : ~Bindings!Running(o)]
<1>1. /\ procs' = [q \in Procs |-> IF q = p THEN proc ELSE [procs[q] EXCEPT !.alone = FALSE]]
      /\ UNCHANGED <<cli, tree, provenance>>
  BY Zenon DEF Bindings!Start, Bindings!disk
<1>2. /\ proc.kind = kind /\ proc.phase = first /\ proc.made = Bindings!None
      /\ proc.read = Bindings!None /\ ProcFields \subseteq DOMAIN proc
  BY DEF Bindings!Idle, ProcFields
<1>3. proc.alone => \A q \in Procs \ {p} : ~Bindings!Running(q)
  BY Zenon DEF Bindings!Idle
<1> HIDE DEF proc
<1>4. TreeOK'
  BY <1>1 DEF BindingsInv, TreeOK, Bindings!Files
<1>5. \A q \in Procs \ {p} : /\ procs'[q].phase = procs[q].phase /\ procs'[q].made = procs[q].made
                             /\ procs'[q].read = procs[q].read
                             /\ ProcFields \subseteq DOMAIN procs'[q]
  BY <1>1 DEF BindingsInv, ProcsOK, ProcFields
<1>6. procs'[p] = proc /\ procs' = [q \in Procs |-> procs'[q]]
  BY <1>1
<1>7. ProcsOK'
  <2>1. \A q \in Procs : /\ ProcFields \subseteq DOMAIN procs'[q]
                         /\ procs'[q].made = [f \in Bindings!Files |-> procs'[q].made[f]]
                         /\ procs'[q].read = [f \in Bindings!Files |-> procs'[q].read[f]]
    BY <1>2, <1>5, <1>6 DEF BindingsInv, ProcsOK, Bindings!None
  <2> QED
    BY <1>6, <2>1 DEF ProcsOK, Bindings!Files
<1>8. procs'[p].alone => Undisturbed(p)'
  BY <1>2, <1>3, <1>5, <1>6 DEF Undisturbed, Bindings!Running
<1> QED
  BY <1>4, <1>7, <1>8, OthersDisturbed DEF BindingsInv

(* A process that goes on by itself is still the only one. *)
LEMMA StillAlone ==
    ASSUME BindingsInv, NEW p \in Procs, procs[p].alone, NEW proc, procs' = [procs EXCEPT ![p] = proc]
    PROVE  /\ \A q \in Procs \ {p} : ~Bindings!Running(q)'
           /\ procs'[p] = proc
BY DEF BindingsInv, ProcsOK, Undisturbed, Bindings!Running

(* The process is idle again. *)
LEMMA IdleStep ==
    ASSUME BindingsInv, NEW p \in Procs, Bindings!Step(p), TreeOK', Bindings!Does(p, Bindings!Idle)
    PROVE  BindingsInv'
<1>1. /\ ProcFields \subseteq DOMAIN Bindings!Idle /\ Bindings!Idle.alone = FALSE
      /\ Bindings!Idle.made = [f \in Bindings!Files |-> Bindings!Idle.made[f]]
      /\ Bindings!Idle.read = [f \in Bindings!Files |-> Bindings!Idle.read[f]]
  BY DEF Bindings!Idle, ProcFields, Bindings!None
<1> QED
  BY <1>1, StepsTo DEF Bindings!Does

(* What does not verify is generated anew, or nothing is returned. *)
LEMMA UnverifiedStep ==
    ASSUME BindingsInv, NEW p \in Procs, Bindings!Step(p), UNCHANGED <<cli, tree, provenance>>,
           Bindings!Unverified(p), procs[p].phase \notin {"idle", "resolve"}
    PROVE  BindingsInv'
<1>1. TreeOK'
  BY DEF BindingsInv, TreeOK, Bindings!Files
<1>2. CASE Bindings!Passes(p, "generate")
  <2> DEFINE proc == [procs[p] EXCEPT !.phase = "generate"]
  <2>1. procs' = [procs EXCEPT ![p] = proc]
    BY <1>2 DEF Bindings!Passes
  <2>2. /\ ProcFields \subseteq DOMAIN proc /\ proc.made = procs[p].made /\ proc.read = procs[p].read
        /\ proc.alone = procs[p].alone /\ proc.kind = procs[p].kind /\ proc.phase = "generate"
        /\ proc.version = procs[p].version
    BY DEF BindingsInv, ProcsOK, ProcFields
  <2> HIDE DEF proc
  <2>3. proc.alone => Undisturbed(p)'
    <3>1. proc.alone => Undisturbed(p)
      BY <2>2 DEF BindingsInv
    <3>2. proc.alone => procs'[p] = proc /\ \A q \in Procs \ {p} : ~Bindings!Running(q)'
      BY <2>1, <2>2, StillAlone
    <3> QED
      BY <2>2, <3>1, <3>2 DEF Undisturbed
  <2> QED
    BY <1>1, <2>1, <2>2, <2>3, ProcShape, StepsTo
<1> QED
  BY <1>1, <1>2, IdleStep DEF Bindings!Unverified

LEMMA ResolveStep ==
    ASSUME BindingsInv, NEW p \in Procs, Bindings!Step(p), Bindings!Resolve(p)
    PROVE  BindingsInv'
<1> DEFINE proc == [procs[p] EXCEPT !.version = cli, !.phase = "provenance"]
<1>1. procs' = [procs EXCEPT ![p] = proc] /\ UNCHANGED <<cli, tree, provenance>>
  BY Zenon DEF Bindings!Resolve, Bindings!Does, Bindings!disk
<1>2. /\ ProcFields \subseteq DOMAIN proc /\ proc.made = procs[p].made /\ proc.read = procs[p].read
      /\ proc.alone = procs[p].alone /\ proc.phase = "provenance" /\ proc.version = cli
  BY DEF BindingsInv, ProcsOK, ProcFields
<1> HIDE DEF proc
<1>3. TreeOK'
  BY <1>1 DEF BindingsInv, TreeOK, Bindings!Files
<1>4. proc.alone => Undisturbed(p)'
  BY <1>1, <1>2, StillAlone DEF Undisturbed
<1> QED
  BY <1>1, <1>2, <1>3, <1>4, ProcShape, StepsTo

LEMMA ReadProvenanceStep ==
    ASSUME BindingsInv, NEW p \in Procs, Bindings!Step(p), Bindings!ReadProvenance(p)
    PROVE  BindingsInv'
<1>1. UNCHANGED <<cli, tree, provenance>> /\ procs[p].phase = "provenance"
  BY DEF Bindings!ReadProvenance, Bindings!disk, Bindings!At
<1>2. CASE Bindings!CanReuse(procs[p], provenance)
  <2> DEFINE proc == [procs[p] EXCEPT !.prov = provenance, !.version = provenance.cli,
                          !.todo = Bindings!Files, !.phase = "inventory"]
  <2>1. procs' = [procs EXCEPT ![p] = proc]
    BY <1>2, Zenon DEF Bindings!ReadProvenance, Bindings!Does
  <2>2. /\ ProcFields \subseteq DOMAIN proc /\ proc.made = procs[p].made /\ proc.read = procs[p].read
        /\ proc.alone = procs[p].alone /\ proc.phase = "inventory" /\ proc.kind = procs[p].kind
        /\ proc.version = provenance.cli /\ proc.prov = provenance /\ proc.todo = Bindings!Files
    BY DEF BindingsInv, ProcsOK, ProcFields
  <2> HIDE DEF proc
  <2>3. TreeOK'
    BY <1>1 DEF BindingsInv, TreeOK, Bindings!Files
  <2>4. proc.alone => Undisturbed(p)'
    <3> SUFFICES ASSUME proc.alone PROVE Undisturbed(p)'
      OBVIOUS
    <3>1. procs[p].kind = "ensure" => procs[p].version = cli
      BY <1>1, <2>2 DEF BindingsInv, Undisturbed
    <3>2. provenance # Absent /\ (procs[p].kind = "ensure" => provenance.cli = cli)
      BY <1>2, <3>1 DEF Bindings!CanReuse
    <3>3. procs'[p] = proc /\ \A q \in Procs \ {p} : ~Bindings!Running(q)'
      BY <2>1, <2>2, StillAlone
    <3> QED
      BY <1>1, <2>2, <3>2, <3>3 DEF Undisturbed
  <2> QED
    BY <2>1, <2>2, <2>3, <2>4, ProcShape, StepsTo
<1>3. CASE ~Bindings!CanReuse(procs[p], provenance)
  BY <1>1, <1>3, UnverifiedStep DEF Bindings!ReadProvenance
<1> QED
  BY <1>2, <1>3

LEMMA ReadFileStep ==
    ASSUME BindingsInv, NEW p \in Procs, Bindings!Step(p), Bindings!ReadFile(p)
    PROVE  BindingsInv'
<1>1. PICK f \in procs[p].todo :
        Bindings!Does(p, [procs[p] EXCEPT !.read[f] = tree[f], !.todo = @ \ {f}])
  BY Zenon DEF Bindings!ReadFile
<1> DEFINE read == [procs[p].read EXCEPT ![f] = tree[f]]
           proc == [procs[p] EXCEPT !.read = read, !.todo = @ \ {f}]
<1>2. procs' = [procs EXCEPT ![p] = proc]
  BY <1>1 DEF Bindings!Does
<1>3. UNCHANGED <<cli, tree, provenance>> /\ procs[p].phase = "inventory"
  BY DEF Bindings!ReadFile, Bindings!disk, Bindings!At
<1>4. /\ ProcFields \subseteq DOMAIN proc /\ proc.made = procs[p].made /\ proc.read = read
      /\ proc.alone = procs[p].alone /\ proc.phase = "inventory" /\ proc.kind = procs[p].kind
      /\ proc.version = procs[p].version /\ proc.prov = procs[p].prov
      /\ proc.todo = procs[p].todo \ {f}
  BY <1>3 DEF BindingsInv, ProcsOK, ProcFields
<1>5. read = [g \in Bindings!Files |-> IF g = f THEN tree[g] ELSE procs[p].read[g]]
  BY DEF BindingsInv, ProcsOK
<1> HIDE DEF proc, read
<1>6. read = [g \in Bindings!Files |-> read[g]]
  BY <1>5
<1>7. TreeOK'
  BY <1>3 DEF BindingsInv, TreeOK, Bindings!Files
<1>8. proc.alone => Undisturbed(p)'
  <2> SUFFICES ASSUME proc.alone PROVE Undisturbed(p)'
    OBVIOUS
  <2>1. procs[p].alone /\ Undisturbed(p)
    BY <1>4 DEF BindingsInv
  <2>2. procs'[p] = proc /\ \A q \in Procs \ {p} : ~Bindings!Running(q)'
    BY <1>2, <1>4, StillAlone
  <2>3. procs[p].kind = "ensure" =>
            \A g \in Bindings!Files \ (procs[p].todo \ {f}) : read[g] = tree[g]
    BY <1>3, <1>5, <2>1 DEF Undisturbed
  <2> QED
    BY <1>3, <1>4, <2>1, <2>2, <2>3 DEF Undisturbed, Bindings!Files
<1> QED
  BY <1>2, <1>4, <1>6, <1>7, <1>8, ProcShape, StepsTo

LEMMA VerifyStep ==
    ASSUME Bindings!VersionAssumption, BindingsInv, NEW p \in Procs, Bindings!Step(p),
           Bindings!Verify(p)
    PROVE  BindingsInv'
<1>1. /\ UNCHANGED <<cli, tree, provenance>> /\ procs[p].phase = "inventory"
      /\ procs[p].todo = {}
  BY DEF Bindings!Verify, Bindings!disk, Bindings!At
<1>2. CASE Bindings!Verified(procs[p])
  <2> DEFINE proc == [procs[p] EXCEPT !.phase = "done"]
  <2>1. procs' = [procs EXCEPT ![p] = proc]
    BY <1>2 DEF Bindings!Verify, Bindings!Passes
  <2>2. /\ ProcFields \subseteq DOMAIN proc /\ proc.made = procs[p].made /\ proc.read = procs[p].read
        /\ proc.alone = procs[p].alone /\ proc.phase = "done" /\ proc.kind = procs[p].kind
        /\ proc.version = procs[p].version
    BY DEF BindingsInv, ProcsOK, ProcFields
  <2> HIDE DEF proc
  <2>3. TreeOK'
    BY <1>1 DEF BindingsInv, TreeOK, Bindings!Files
  <2>4. proc.alone => Undisturbed(p)'
    <3> SUFFICES ASSUME proc.alone PROVE Undisturbed(p)'
      OBVIOUS
    <3>1. procs'[p] = proc /\ \A q \in Procs \ {p} : ~Bindings!Running(q)'
      BY <2>1, <2>2, StillAlone
    <3>2. Undisturbed(p)
      BY <2>2 DEF BindingsInv
    <3>3. CASE procs[p].kind = "ensure"
      <4>1. /\ procs[p].version = cli /\ provenance = procs[p].prov /\ provenance # Absent
            /\ provenance.cli = cli
            /\ \A f \in Bindings!Files : procs[p].read[f] = tree[f]
        BY <1>1, <3>2, <3>3 DEF Undisturbed
      <4>2. procs[p].read = tree
        BY <4>1, ProcShape DEF BindingsInv, TreeOK
      <4>3. tree = provenance.files /\ tree["protocol"] = cli /\ \A f \in Required : tree[f] # 0
        BY <1>2, <4>1, <4>2 DEF Bindings!Verified
      <4>4. cli # 0
        BY DEF Bindings!VersionAssumption, BindingsInv, TreeOK
      <4>5. \A f \in Bindings!Files : tree[f] # 0
        BY <4>3, <4>4 DEF Bindings!Files
      <4>6. provenance = [cli |-> cli, files |-> tree]
        BY <4>1, <4>3 DEF BindingsInv, TreeOK
      <4> QED
        BY <1>1, <2>2, <3>1, <4>1, <4>3, <4>5, <4>6 DEF Undisturbed, Whole, Bindings!Files
    <3>4. CASE procs[p].kind # "ensure"
      BY <2>2, <3>1, <3>4 DEF Undisturbed
    <3> QED
      BY <3>3, <3>4
  <2> QED
    BY <2>1, <2>2, <2>3, <2>4, ProcShape, StepsTo
<1>3. CASE ~Bindings!Verified(procs[p])
  BY <1>1, <1>3, UnverifiedStep DEF Bindings!Verify
<1> QED
  BY <1>2, <1>3

(* A step of the generation: it claims nothing of the tree. *)
LEMMA Generates ==
    ASSUME BindingsInv, NEW p \in Procs, Bindings!Step(p), UNCHANGED cli, TreeOK',
           NEW proc, procs' = [procs EXCEPT ![p] = proc], ProcFields \subseteq DOMAIN proc,
           proc.made = [f \in Bindings!Files |-> proc.made[f]], proc.read = procs[p].read,
           proc.alone = procs[p].alone, proc.kind = procs[p].kind, proc.version = procs[p].version,
           procs[p].phase \notin {"idle", "resolve"}, proc.phase \notin {"inventory", "done"}
    PROVE  BindingsInv'
<1>1. proc.alone => procs'[p] = proc /\ \A q \in Procs \ {p} : ~Bindings!Running(q)'
  BY StillAlone
<1>2. proc.alone => Undisturbed(p)
  BY DEF BindingsInv
<1>3. proc.alone => Undisturbed(p)'
  BY <1>1, <1>2 DEF Undisturbed
<1> QED
  BY <1>3, ProcShape, StepsTo

LEMMA GenerationSteps ==
    ASSUME BindingsInv, NEW p \in Procs, Bindings!Step(p),
           Bindings!Generate(p) \/ Bindings!RemoveOne(p) \/ Bindings!Removed(p)
             \/ Bindings!CopyOne(p) \/ Bindings!WriteProvenance(p)
    PROVE  BindingsInv'
<1>1. UNCHANGED cli /\ procs[p].phase \in {"generate", "remove", "copy"}
  BY DEF Bindings!Generate, Bindings!RemoveOne, Bindings!Removed, Bindings!CopyOne,
     Bindings!WriteProvenance, Bindings!At
<1>2. CASE Bindings!Generate(p)
  <2> DEFINE fresh == [f \in Bindings!Files |-> IF f = "protocol" THEN procs[p].version ELSE cli]
             proc == [procs[p] EXCEPT !.phase = "remove", !.made = fresh]
  <2>1. procs' = [procs EXCEPT ![p] = proc] /\ UNCHANGED <<cli, tree, provenance>>
    BY <1>2, Zenon DEF Bindings!Generate, Bindings!Does, Bindings!disk
  <2> HIDE DEF fresh
  <2>2. /\ ProcFields \subseteq DOMAIN proc /\ proc.made = fresh /\ proc.read = procs[p].read
        /\ proc.alone = procs[p].alone /\ proc.phase = "remove" /\ proc.kind = procs[p].kind
        /\ proc.version = procs[p].version
    BY DEF BindingsInv, ProcsOK, ProcFields
  <2>3. fresh = [f \in Bindings!Files |-> fresh[f]]
    BY DEF fresh
  <2> HIDE DEF proc
  <2>4. TreeOK'
    BY <2>1 DEF BindingsInv, TreeOK, Bindings!Files
  <2> QED
    BY <1>1, <2>1, <2>2, <2>3, <2>4, Generates
<1>3. CASE Bindings!RemoveOne(p)
  <2>1. procs' = [procs EXCEPT ![p] = procs[p]]
    BY <1>3 DEF Bindings!RemoveOne, BindingsInv, ProcsOK
  <2>2. TreeOK'
    <3>1. CASE \E f \in Bindings!Files : tree' = [tree EXCEPT ![f] = 0] /\ UNCHANGED provenance
      BY <1>1, <3>1 DEF BindingsInv, TreeOK, Bindings!Files
    <3>2. CASE provenance' = Absent /\ UNCHANGED tree
      BY <1>1, <3>2 DEF BindingsInv, TreeOK, Bindings!Files
    <3> QED
      BY <1>3, <3>1, <3>2 DEF Bindings!RemoveOne
  <2> QED
    BY <1>1, <2>1, <2>2, ProcShape, Generates
<1>4. CASE Bindings!Removed(p)
  <2> DEFINE proc == [procs[p] EXCEPT !.phase = "copy", !.todo = Bindings!Files]
  <2>1. procs' = [procs EXCEPT ![p] = proc] /\ UNCHANGED <<cli, tree, provenance>>
    BY <1>4, Zenon DEF Bindings!Removed, Bindings!Does, Bindings!disk
  <2>2. /\ ProcFields \subseteq DOMAIN proc /\ proc.made = procs[p].made /\ proc.read = procs[p].read
        /\ proc.alone = procs[p].alone /\ proc.phase = "copy" /\ proc.kind = procs[p].kind
        /\ proc.version = procs[p].version
    BY DEF BindingsInv, ProcsOK, ProcFields
  <2> HIDE DEF proc
  <2>3. TreeOK'
    BY <2>1 DEF BindingsInv, TreeOK, Bindings!Files
  <2> QED
    BY <1>1, <2>1, <2>2, <2>3, ProcShape, Generates
<1>5. CASE Bindings!CopyOne(p)
  <2>1. PICK f \in procs[p].todo : /\ tree' = [tree EXCEPT ![f] = procs[p].made[f]]
                                   /\ Bindings!Does(p, [procs[p] EXCEPT !.todo = @ \ {f}])
    BY <1>5, Zenon DEF Bindings!CopyOne
  <2> DEFINE proc == [procs[p] EXCEPT !.todo = @ \ {f}]
  <2>2. procs' = [procs EXCEPT ![p] = proc] /\ UNCHANGED <<cli, provenance>>
    BY <1>5, <2>1 DEF Bindings!Does, Bindings!CopyOne
  <2>3. /\ ProcFields \subseteq DOMAIN proc /\ proc.made = procs[p].made /\ proc.read = procs[p].read
        /\ proc.alone = procs[p].alone /\ proc.phase = procs[p].phase /\ proc.kind = procs[p].kind
        /\ proc.version = procs[p].version
    BY DEF BindingsInv, ProcsOK, ProcFields
  <2> HIDE DEF proc
  <2>4. TreeOK'
    BY <2>1, <2>2 DEF BindingsInv, TreeOK, Bindings!Files
  <2> QED
    BY <1>1, <2>2, <2>3, <2>4, ProcShape, Generates
<1>6. CASE Bindings!WriteProvenance(p)
  <2> DEFINE proc == [procs[p] EXCEPT !.phase = "provenance", !.again = TRUE]
  <2>1. /\ procs' = [procs EXCEPT ![p] = proc] /\ UNCHANGED <<cli, tree>>
        /\ provenance' = [cli |-> procs[p].version, files |-> procs[p].made]
    BY <1>6, Zenon DEF Bindings!WriteProvenance, Bindings!Does
  <2>2. /\ ProcFields \subseteq DOMAIN proc /\ proc.made = procs[p].made /\ proc.read = procs[p].read
        /\ proc.alone = procs[p].alone /\ proc.phase = "provenance" /\ proc.kind = procs[p].kind
        /\ proc.version = procs[p].version
    BY DEF BindingsInv, ProcsOK, ProcFields
  <2> HIDE DEF proc
  <2>3. TreeOK'
    BY <2>1, ProcShape DEF BindingsInv, TreeOK, Bindings!Files
  <2> QED
    BY <1>1, <2>1, <2>2, <2>3, ProcShape, Generates
<1> QED
  BY <1>2, <1>3, <1>4, <1>5, <1>6

LEMMA BindingsNext ==
    ASSUME Bindings!VersionAssumption, BindingsInv, [Bindings!Next]_(Bindings!vars)
    PROVE  BindingsInv'
<1>1. CASE UNCHANGED Bindings!vars
  <2>1. UNCHANGED <<cli, tree, provenance, procs>>
    BY <1>1 DEF Bindings!vars
  <2>2. TreeOK' /\ ProcsOK'
    BY <2>1 DEF BindingsInv, TreeOK, ProcsOK, Bindings!Files
  <2>3. ASSUME NEW p \in Procs, Undisturbed(p) PROVE Undisturbed(p)'
    BY <2>1, <2>3 DEF Undisturbed, Whole, Bindings!Running, Bindings!Files
  <2> QED
    BY <2>1, <2>2, <2>3 DEF BindingsInv
<1>2. ASSUME NEW p \in Procs, Bindings!Step(p) PROVE BindingsInv'
  <2>1. CASE Bindings!Start(p, "ensure") \/ Bindings!Start(p, "check")
    BY <1>2, <2>1, StartStep
  <2>2. CASE Bindings!Stop(p) \/ Bindings!Disturbed(p)
    <3>1. TreeOK'
      BY <2>2 DEF Bindings!Stop, Bindings!Disturbed, Bindings!disk, BindingsInv, TreeOK, Bindings!Files
    <3> QED
      BY <1>2, <2>2, <3>1, IdleStep DEF Bindings!Stop, Bindings!Disturbed
  <2> QED
    BY <1>2, <2>1, <2>2, ResolveStep, ReadProvenanceStep, ReadFileStep, VerifyStep, GenerationSteps
       DEF Bindings!Step
<1>3. ASSUME NEW v \in Releases, Bindings!Upgrade(v) PROVE BindingsInv'
  <2>1. /\ cli' = v /\ UNCHANGED <<tree, provenance>>
        /\ procs' = [p \in Procs |-> [procs[p] EXCEPT !.alone = FALSE]]
    BY <1>3 DEF Bindings!Upgrade, Bindings!disk
  <2>2. \A p \in Procs : /\ ~procs'[p].alone /\ ProcFields \subseteq DOMAIN procs'[p]
                         /\ procs'[p].made = procs[p].made /\ procs'[p].read = procs[p].read
    BY <2>1 DEF BindingsInv, ProcsOK, ProcFields
  <2>3. TreeOK'
    BY <2>1 DEF BindingsInv, TreeOK, Bindings!Files
  <2>4. ProcsOK'
    <3>1. procs' = [p \in Procs |-> procs'[p]]
      BY <2>1
    <3>2. \A p \in Procs : /\ procs'[p].made = [f \in Bindings!Files |-> procs'[p].made[f]]
                           /\ procs'[p].read = [f \in Bindings!Files |-> procs'[p].read[f]]
      BY <2>2 DEF BindingsInv, ProcsOK
    <3> QED
      BY <2>2, <3>1, <3>2 DEF ProcsOK, Bindings!Files
  <2> QED
    BY <2>2, <2>3, <2>4 DEF BindingsInv
<1> QED
  BY <1>1, <1>2, <1>3 DEF Bindings!Next

LEMMA BindingsInit == Bindings!Init => BindingsInv
<1> SUFFICES ASSUME Bindings!Init PROVE BindingsInv
  OBVIOUS
<1>1. \A p \in Procs : procs[p] = Bindings!Idle
  BY DEF Bindings!Init
<1>2. TreeOK
  BY DEF Bindings!Init, TreeOK, Bindings!None
<1>3. ProcsOK /\ \A p \in Procs : ~procs[p].alone
  BY <1>1 DEF Bindings!Init, ProcsOK, ProcFields, Bindings!Idle, Bindings!None, Bindings!Files
<1> QED
  BY <1>2, <1>3 DEF BindingsInv

(* What a run has generated, and what is recorded, is of one version, or   *)
(* the version is one that a run has mixed with another.                   *)
OfOneVersion(version, files) ==
    version \in mixed \/ \A f \in Bindings!Files : files[f] = version

MadeInv ==
    /\ provenance # Absent => OfOneVersion(provenance.cli, provenance.files)
    /\ \A p \in Procs : procs[p].phase \in {"remove", "copy"}
                            => OfOneVersion(procs[p].version, procs[p].made)

(* A step that generates nothing.                                          *)
LEMMA MadeKept ==
    ASSUME BindingsInv, MadeInv, UNCHANGED mixed, NEW p \in Procs, NEW proc,
           procs' = [procs EXCEPT ![p] = proc],
           proc.phase \in {"remove", "copy"} =>
               /\ procs[p].phase \in {"remove", "copy"} /\ proc.version = procs[p].version
               /\ proc.made = procs[p].made,
           provenance' # Absent =>
               \/ UNCHANGED provenance
               \/ OfOneVersion(provenance'.cli, provenance'.files)
    PROVE  MadeInv'
<1>1. procs'[p] = proc /\ \A q \in Procs : q # p => procs'[q] = procs[q]
  BY DEF BindingsInv, ProcsOK
<1>2. \A q \in Procs : procs'[q].phase \in {"remove", "copy"} =>
            /\ procs[q].phase \in {"remove", "copy"} /\ procs'[q].version = procs[q].version
            /\ procs'[q].made = procs[q].made
  BY <1>1
<1> QED
  BY <1>2 DEF MadeInv, OfOneVersion, Bindings!Files

LEMMA MadeNext ==
    ASSUME BindingsInv, MadeInv, [Bindings!Next]_(Bindings!vars)
    PROVE  MadeInv'
<1>1. CASE UNCHANGED Bindings!vars
  BY <1>1 DEF Bindings!vars, MadeInv, OfOneVersion, Bindings!Files
<1>2. ASSUME NEW p \in Procs, NEW kind \in {"ensure", "check"}, Bindings!Start(p, kind)
      PROVE  MadeInv'
  <2>1. /\ UNCHANGED <<provenance, mixed>>
        /\ \A q \in Procs : procs'[q] = IF q = p THEN procs'[p]
                                           ELSE [procs[q] EXCEPT !.alone = FALSE]
    BY <1>2, Zenon DEF Bindings!Start, Bindings!disk
  <2>2. procs'[p].phase \in {"resolve", "provenance"}
    BY <1>2 DEF Bindings!Start, Bindings!Idle
  <2>3. \A q \in Procs : procs'[q].phase \in {"remove", "copy"} =>
            /\ procs[q].phase \in {"remove", "copy"} /\ procs'[q].version = procs[q].version
            /\ procs'[q].made = procs[q].made
    BY <2>1, <2>2 DEF BindingsInv, ProcsOK, ProcFields
  <2> QED
    BY <2>1, <2>3 DEF MadeInv, OfOneVersion, Bindings!Files
<1>3. ASSUME NEW p \in Procs, NEW proc, Bindings!Does(p, proc), UNCHANGED <<provenance, mixed>>,
             proc.phase \notin {"remove", "copy"}
      PROVE  MadeInv'
  BY <1>3, MadeKept DEF Bindings!Does
<1>4. ASSUME NEW p \in Procs, NEW phase \in {"generate", "done"}, Bindings!Passes(p, phase),
             UNCHANGED <<provenance, mixed>>
      PROVE  MadeInv'
  <2> DEFINE proc == [procs[p] EXCEPT !.phase = phase]
  <2>1. procs' = [procs EXCEPT ![p] = proc]
    BY <1>4 DEF Bindings!Passes
  <2>2. proc.phase = phase
    BY ProcShape DEF ProcFields
  <2> HIDE DEF proc
  <2> QED
    BY <1>4, <2>1, <2>2, MadeKept
<1>5. ASSUME NEW p \in Procs, Bindings!Unverified(p), UNCHANGED <<provenance, mixed>>
      PROVE  MadeInv'
  BY <1>3, <1>4, <1>5 DEF Bindings!Unverified, Bindings!Idle
<1>6. ASSUME NEW p \in Procs, Bindings!Resolve(p) PROVE MadeInv'
  <2>1. [procs[p] EXCEPT !.version = cli, !.phase = "provenance"].phase = "provenance"
    BY ProcShape DEF ProcFields
  <2> QED
    BY <1>3, <1>6, <2>1 DEF Bindings!Resolve, Bindings!disk
<1>7. ASSUME NEW p \in Procs, Bindings!ReadProvenance(p) PROVE MadeInv'
  <2> DEFINE proc == [procs[p] EXCEPT !.prov = provenance, !.version = provenance.cli,
                          !.todo = Bindings!Files, !.phase = "inventory"]
  <2>1. proc.phase = "inventory"
    BY ProcShape DEF ProcFields
  <2>2. UNCHANGED <<provenance, mixed>> /\ (Bindings!Does(p, proc) \/ Bindings!Unverified(p))
    BY <1>7, Zenon DEF Bindings!ReadProvenance, Bindings!disk
  <2> HIDE DEF proc
  <2> QED
    BY <1>3, <1>5, <2>1, <2>2
<1>8. ASSUME NEW p \in Procs, Bindings!ReadFile(p) PROVE MadeInv'
  <2>1. PICK f \in procs[p].todo :
            Bindings!Does(p, [procs[p] EXCEPT !.read[f] = tree[f], !.todo = @ \ {f}])
    BY <1>8, Zenon DEF Bindings!ReadFile
  <2> DEFINE proc == [procs[p] EXCEPT !.read[f] = tree[f], !.todo = @ \ {f}]
  <2>2. /\ UNCHANGED <<provenance, mixed>> /\ procs[p].phase = "inventory"
        /\ Bindings!Does(p, proc)
    BY <1>8, <2>1 DEF Bindings!ReadFile, Bindings!disk, Bindings!At
  <2>3. proc.phase = procs[p].phase
    BY ProcShape DEF ProcFields
  <2> HIDE DEF proc
  <2> QED
    BY <1>3, <2>2, <2>3
<1>9. ASSUME NEW p \in Procs, Bindings!Verify(p) PROVE MadeInv'
  BY <1>4, <1>5, <1>9 DEF Bindings!Verify, Bindings!disk
<1>10. ASSUME NEW p \in Procs, Bindings!Generate(p) PROVE MadeInv'
  <2>0. PICK fresh, proc :
            /\ fresh = [f \in Bindings!Files |-> IF f = "protocol" THEN procs[p].version ELSE cli]
            /\ proc = [procs[p] EXCEPT !.phase = "remove", !.made = fresh]
    OBVIOUS
  <2>1. /\ procs' = [procs EXCEPT ![p] = proc] /\ UNCHANGED <<cli, tree, provenance>>
        /\ mixed' = mixed \cup ({procs[p].version} \ {cli})
    BY <1>10, <2>0, Zenon DEF Bindings!Generate, Bindings!Does, Bindings!disk
  <2>2. procs[p].version = cli \/ procs[p].version \in mixed'
    BY <2>1
  <2>3. \A f \in Bindings!Files : procs[p].version = cli => fresh[f] = procs[p].version
    BY <2>0
  <2>4. proc.version = procs[p].version /\ proc.made = fresh
    BY <2>0, ProcShape DEF ProcFields
  <2>5. procs'[p] = proc /\ \A q \in Procs : q # p => procs'[q] = procs[q]
    BY <2>1 DEF BindingsInv, ProcsOK
  <2>6. OfOneVersion(proc.version, proc.made)'
    BY <2>2, <2>3, <2>4, <2>5 DEF OfOneVersion, Bindings!Files
  <2>7. \A version, files : OfOneVersion(version, files) =>
            version \in mixed' \/ \A f \in Bindings!Files : files[f] = version
    BY <2>1 DEF OfOneVersion
  <2>8. provenance' # Absent => OfOneVersion(provenance.cli, provenance.files)'
    BY <2>1, <2>7 DEF MadeInv, OfOneVersion, Bindings!Files
  <2>9. ASSUME NEW q \in Procs, procs'[q].phase \in {"remove", "copy"}
        PROVE  OfOneVersion(procs[q].version, procs[q].made)'
    <3>1. CASE q = p
      BY <2>4, <2>5, <2>6, <3>1 DEF OfOneVersion, Bindings!Files
    <3>2. CASE q # p
      BY <2>5, <2>7, <2>9, <3>2 DEF MadeInv, OfOneVersion, Bindings!Files
    <3> QED
      BY <3>1, <3>2
  <2> QED
    BY <2>8, <2>9 DEF MadeInv
<1>11. ASSUME NEW p \in Procs, Bindings!RemoveOne(p) PROVE MadeInv'
  <2>1. procs' = [procs EXCEPT ![p] = procs[p]] /\ UNCHANGED mixed
    BY <1>11 DEF Bindings!RemoveOne, BindingsInv, ProcsOK
  <2>2. provenance' # Absent => UNCHANGED provenance
    BY <1>11 DEF Bindings!RemoveOne
  <2> QED
    BY <2>1, <2>2, MadeKept
<1>12. ASSUME NEW p \in Procs, Bindings!Removed(p) \/ Bindings!CopyOne(p) PROVE MadeInv'
  <2>1. PICK proc : /\ procs' = [procs EXCEPT ![p] = proc] /\ UNCHANGED <<provenance, mixed>>
                    /\ \/ proc = [procs[p] EXCEPT !.phase = "copy", !.todo = Bindings!Files]
                       \/ \E f \in procs[p].todo : proc = [procs[p] EXCEPT !.todo = @ \ {f}]
                    /\ procs[p].phase \in {"remove", "copy"}
    BY <1>12, Zenon DEF Bindings!Removed, Bindings!CopyOne, Bindings!Does, Bindings!disk, Bindings!At
  <2>2. proc.version = procs[p].version /\ proc.made = procs[p].made
    BY <2>1, ProcShape DEF ProcFields
  <2> QED
    BY <2>1, <2>2, MadeKept
<1>13. ASSUME NEW p \in Procs, Bindings!WriteProvenance(p) PROVE MadeInv'
  <2> DEFINE proc == [procs[p] EXCEPT !.phase = "provenance", !.again = TRUE]
  <2>1. /\ procs' = [procs EXCEPT ![p] = proc] /\ UNCHANGED mixed /\ procs[p].phase = "copy"
        /\ provenance' = [cli |-> procs[p].version, files |-> procs[p].made]
    BY <1>13, Zenon DEF Bindings!WriteProvenance, Bindings!Does, Bindings!At
  <2>2. proc.phase = "provenance"
    BY ProcShape DEF ProcFields
  <2> HIDE DEF proc
  <2>3. OfOneVersion(provenance'.cli, provenance'.files)
    BY <2>1 DEF MadeInv
  <2> QED
    BY <2>1, <2>2, <2>3, MadeKept
<1>14. ASSUME NEW p \in Procs, Bindings!Stop(p) \/ Bindings!Disturbed(p) PROVE MadeInv'
  BY <1>3, <1>14 DEF Bindings!Stop, Bindings!Disturbed, Bindings!disk, Bindings!Idle
<1>15. ASSUME NEW v \in Releases, Bindings!Upgrade(v) PROVE MadeInv'
  <2>1. /\ UNCHANGED <<provenance, mixed>>
        /\ \A q \in Procs : procs'[q] = [procs[q] EXCEPT !.alone = FALSE]
    BY <1>15 DEF Bindings!Upgrade, Bindings!disk
  <2>2. \A q \in Procs : /\ procs'[q].phase = procs[q].phase
                          /\ procs'[q].version = procs[q].version
                          /\ procs'[q].made = procs[q].made
    BY <2>1 DEF BindingsInv, ProcsOK, ProcFields
  <2> QED
    BY <2>1, <2>2 DEF MadeInv, OfOneVersion, Bindings!Files
<1> QED
  BY <1>1, <1>2, <1>6, <1>7, <1>8, <1>9, <1>10, <1>11, <1>12, <1>13, <1>14, <1>15
     DEF Bindings!Next, Bindings!Step

LEMMA MadeInit == Bindings!Init => MadeInv
BY DEF Bindings!Init, MadeInv, Bindings!Idle

(* A run of ensureCodexGenerated that nothing disturbs returns a whole     *)
(* tree, recorded for the installed Codex, whatever earlier runs left; all *)
(* its files are of that version, unless a run for it mixed two.           *)
THEOREM UndisturbedTree ==
    ASSUME Bindings!VersionAssumption
    PROVE  Bindings!Spec => []Bindings!WholeTreeReturned
<1>1. ASSUME BindingsInv, MadeInv PROVE Bindings!WholeTreeReturned
  <2> SUFFICES ASSUME NEW p \in Procs, Whole(p)
               PROVE  cli \in mixed \/ \A f \in Bindings!Files : tree[f] = cli
    BY <1>1 DEF BindingsInv, Undisturbed, Whole, Bindings!WholeTreeReturned, Bindings!At
  <2>1. provenance # Absent /\ provenance.cli = cli /\ provenance.files = tree
    BY <1>1 DEF Whole, BindingsInv, TreeOK
  <2> QED
    BY <1>1, <2>1 DEF MadeInv, OfOneVersion
<1>2. ASSUME BindingsInv /\ MadeInv, [Bindings!Next]_(Bindings!vars)
      PROVE  BindingsInv' /\ MadeInv'
  BY <1>2, BindingsNext, MadeNext
<1> QED
  BY <1>1, <1>2, BindingsInit, MadeInit, PTL DEF Bindings!Spec

-----------------------------------------------------------------------------
(***************************************************************************)
(* The banked reset, for one Root.  A request that may still redeem, and   *)
(* that no renewal has overtaken, is one of the attempt Root is at, and    *)
(* that attempt is authorized, now and not just when it looked.            *)
(***************************************************************************)
OneRoot == \A a, b \in Agents : a = b

AgentFields == {"phase", "permission", "key", "credit", "outdated"}
RequestFields == {"from", "permission", "key", "credit", "outdated"}
Bounds == {"attempts", "faults", "uses", "renewals"}
Low(week, hours) ==
    \/ Reset!Week \in plan /\ remaining[Reset!Week] < week
    \/ Reset!FiveHours \in plan /\ remaining[Reset!FiveHours] < hours
Authorized(permission) ==
    \/ Reset!FiveHours \in plan /\ (Low(7, 15) \/ (permission = "granted" /\ Low(15, 20)))
    \/ plan = {Reset!Week} /\ (Low(5, 0) \/ (permission = "granted" /\ Low(10, 0)))

(* Keys are handed out downwards. *)
Issued(key) == key \in Nat /\ key > left.attempts

Redeemable(q) == ~Reset!Known(q.key) /\ spent[q.credit] = Absent
Live(q) == Redeemable(q) /\ ~q.outdated

Asked(q) ==
    /\ RequestFields \subseteq DOMAIN q /\ q.from \in Agents /\ q.credit \in Credits
    /\ q.outdated \in BOOLEAN

ResetTypes ==
    /\ remaining \in [plan -> Nat]
    /\ left \in [Bounds -> Nat]
    /\ spent = [c \in Credits |-> spent[c]]
    /\ \A c \in Credits : spent[c] = Absent \/ Issued(spent[c])
    /\ agents = [a \in Agents |-> agents[a]]
    /\ \A a \in Agents : /\ AgentFields \subseteq DOMAIN agents[a]
                         /\ agents[a].outdated \in BOOLEAN
                         /\ agents[a].key = Absent \/ Issued(agents[a].key)
                         /\ agents[a].phase # "idle" => agents[a].key # Absent
    /\ \A q \in requests : Asked(q) /\ Issued(q.key)

Current(q) ==
    LET agent == agents[q.from] IN
    /\ q.key = agent.key /\ q.permission = agent.permission
    /\ agent.phase \in {"consume", "send", "waiting"}
    /\ Authorized(q.permission)

Chosen(a) ==
    agents[a].phase \in {"send", "waiting"} =>
        /\ agents[a].credit \in Credits
        /\ \/ Reset!Known(agents[a].key) \/ agents[a].outdated
           \/ spent[agents[a].credit] = Absent /\ Authorized(agents[a].permission)

(* What overtakes Root overtakes all its requests.                         *)
Overtaken(a) == agents[a].outdated => \A q \in requests : q.outdated

ResetInv ==
    /\ ResetTypes
    /\ \A q \in requests : Live(q) => Current(q)
    /\ \A a \in Agents : Chosen(a) /\ Overtaken(a)

(* decideBankedReset authorizes what the thresholds allow, and no more. *)
LEMMA FiveHoursDecision ==
    ASSUME NEW w, NEW permission,
           Reset!Below(w, Reset!FiveHours, 15) => Reset!Below(w, Reset!FiveHours, 20),
           Reset!Below(w, Reset!Week, 7) => Reset!Below(w, Reset!Week, 15)
    PROVE  Reset!WithFiveHours(w, permission) = "resetAuthorized" <=>
            \/ Reset!Below(w, Reset!FiveHours, 15) \/ Reset!Below(w, Reset!Week, 7)
            \/ permission = "granted"
                /\ (Reset!Below(w, Reset!FiveHours, 20) \/ Reset!Below(w, Reset!Week, 15))
<1> DEFINE urgent == Reset!Below(w, Reset!FiveHours, 15) \/ Reset!Below(w, Reset!Week, 7)
           ask == Reset!Below(w, Reset!FiveHours, 20) \/ Reset!Below(w, Reset!Week, 15)
<1>1. CASE urgent
  <2>1. Reset!WithFiveHours(w, permission) = "resetAuthorized"
    BY <1>1 DEF Reset!WithFiveHours
  <2> QED
    BY <1>1, <2>1
<1>2. CASE ~ask
  <2>1. ~urgent
    BY <1>2
  <2>2. CASE Reset!Week \notin DOMAIN w
    <3>1. Reset!WithFiveHours(w, permission) = "insufficientEvidence"
      BY <1>2, <2>1, <2>2 DEF Reset!WithFiveHours
    <3> QED
      BY <1>2, <2>1, <3>1
  <2>3. CASE Reset!Week \in DOMAIN w
    <3>1. Reset!WithFiveHours(w, permission) = "doNotReset"
      BY <1>2, <2>1, <2>3 DEF Reset!WithFiveHours
    <3> QED
      BY <1>2, <2>1, <3>1
  <2> QED
    BY <2>2, <2>3
<1>3. CASE ask /\ ~urgent
  <2>1. Reset!WithFiveHours(w, permission) =
            IF permission = "granted" THEN "resetAuthorized" ELSE "requestPermission"
    BY <1>3 DEF Reset!WithFiveHours
  <2> QED
    BY <1>3, <2>1
<1> QED
  BY <1>1, <1>2, <1>3

LEMMA WeeklyDecision ==
    ASSUME NEW w, NEW permission, Reset!Week \in DOMAIN w, w[Reset!Week] \in Nat
    PROVE  Reset!WeeklyOnly(w, permission) = "resetAuthorized" <=>
            w[Reset!Week] < 5 \/ (permission = "granted" /\ w[Reset!Week] < 10)
<1> DEFINE rest == w[Reset!Week]
<1>1. Reset!Below(w, Reset!Week, 5) <=> rest < 5
  BY DEF Reset!Below
<1>2. CASE rest < 5
  <2>1. Reset!WeeklyOnly(w, permission) = "resetAuthorized"
    BY <1>1, <1>2 DEF Reset!WeeklyOnly
  <2> QED
    BY <1>2, <2>1
<1>3. CASE rest >= 10
  <2>1. ~(rest < 5) /\ ~(rest < 10)
    BY <1>3
  <2>2. Reset!WeeklyOnly(w, permission) = "doNotReset"
    BY <1>1, <1>3, <2>1 DEF Reset!WeeklyOnly
  <2> QED
    BY <2>1, <2>2
<1>4. CASE ~(rest < 5) /\ ~(rest >= 10)
  <2>1. rest < 10
    BY <1>4
  <2>2. Reset!WeeklyOnly(w, permission) =
            IF permission = "granted" THEN "resetAuthorized" ELSE "requestPermission"
    BY <1>1, <1>4 DEF Reset!WeeklyOnly
  <2> QED
    BY <1>4, <2>1, <2>2
<1> QED
  BY <1>2, <1>3, <1>4

LEMMA Decisions ==
    ASSUME ResetTypes, NEW permission
    PROVE  Reset!Decide(Reset!Windows, permission) = "resetAuthorized" <=> Authorized(permission)
<1>0. PICK w : w = Reset!Windows
  OBVIOUS
<1> SUFFICES Reset!Decide(w, permission) = "resetAuthorized" <=> Authorized(permission)
  BY <1>0, Zenon
<1>1. /\ DOMAIN w = plan /\ (\A l \in plan : w[l] = remaining[l] /\ remaining[l] \in Nat)
      /\ \A l, n : Reset!Below(w, l, n) <=> l \in plan /\ remaining[l] < n
  BY <1>0 DEF ResetTypes, Reset!Windows, Reset!Below
<1>2. CASE Reset!FiveHours \in plan
  <2>0. DOMAIN w # {Reset!Week}
    BY <1>1, <1>2 DEF Reset!FiveHours, Reset!Week
  <2>1. Reset!Decide(w, permission) = Reset!WithFiveHours(w, permission)
    BY <1>1, <1>2, <2>0 DEF Reset!Decide
  <2>2. /\ Reset!Below(w, Reset!FiveHours, 15) => Reset!Below(w, Reset!FiveHours, 20)
        /\ Reset!Below(w, Reset!Week, 7) => Reset!Below(w, Reset!Week, 15)
    BY <1>1
  <2>3. Authorized(permission) <=>
            \/ Reset!Below(w, Reset!FiveHours, 15) \/ Reset!Below(w, Reset!Week, 7)
            \/ permission = "granted"
                /\ (Reset!Below(w, Reset!FiveHours, 20) \/ Reset!Below(w, Reset!Week, 15))
    BY <1>1, <1>2 DEF Authorized, Low, Reset!FiveHours, Reset!Week
  <2> QED
    BY <2>1, <2>2, <2>3, FiveHoursDecision, Zenon
<1>3. CASE Reset!FiveHours \notin plan /\ plan = {Reset!Week}
  <2>1. Reset!Decide(w, permission) = Reset!WeeklyOnly(w, permission)
    BY <1>1, <1>3 DEF Reset!Decide
  <2>2. /\ Authorized(permission) <=> remaining[Reset!Week] < 5
                \/ (permission = "granted" /\ remaining[Reset!Week] < 10)
        /\ w[Reset!Week] = remaining[Reset!Week] /\ w[Reset!Week] \in Nat
        /\ Reset!Week \in DOMAIN w
    BY <1>1, <1>3 DEF Authorized, Low
  <2>3. Reset!WeeklyOnly(w, permission) = "resetAuthorized" <=>
            w[Reset!Week] < 5 \/ (permission = "granted" /\ w[Reset!Week] < 10)
    BY <2>2, WeeklyDecision
  <2> QED
    BY <2>1, <2>2, <2>3
<1>4. CASE Reset!FiveHours \notin plan /\ plan # {Reset!Week}
  <2>1. Reset!Decide(w, permission) = "insufficientEvidence"
    BY <1>1, <1>4 DEF Reset!Decide
  <2> QED
    BY <1>4, <2>1 DEF Authorized
<1> QED
  BY <1>2, <1>3, <1>4

(* Quota that is used makes nothing unwarranted; full windows warrant      *)
(* nothing.                                                                *)
LEMMA Thresholds ==
    ASSUME ResetTypes, NEW permission, Authorized(permission)
    PROVE  Reset!Warranted(permission) /\ ~Reset!Full
BY DEF Authorized, Low, Reset!Warranted, Reset!OnHoursAlone, Reset!Full, ResetTypes, Reset!Below, Reset!Windows,
   Reset!FiveHours, Reset!Week

LEMMA Lowered ==
    ASSUME ResetTypes, UNCHANGED plan, remaining' \in [plan -> Nat],
           \A w \in plan : remaining'[w] <= remaining[w], NEW permission, Authorized(permission)
    PROVE  Authorized(permission)'
BY DEF Authorized, Low, ResetTypes, Reset!FiveHours, Reset!Week

LEMMA ResetTypesKept ==
    ASSUME Reset!ResetAssumption, ResetTypes, NEW a \in Agents, NEW agent,
           agents' = [agents EXCEPT ![a] = agent], UNCHANGED <<plan, remaining, spent>>,
           left' \in [Bounds -> Nat], left'.attempts <= left.attempts,
           AgentFields \subseteq DOMAIN agent, agent.phase # "idle" => agent.key # Absent,
           agent.outdated \in BOOLEAN,
           agent.key = Absent \/ (agent.key \in Nat /\ agent.key > left'.attempts),
           \A q \in requests' \ requests :
                Asked(q) /\ Issued(q.key)
    PROVE  ResetTypes'
<1>1. left.attempts \in Nat /\ left'.attempts \in Nat
  BY DEF ResetTypes, Bounds
<1>2. \A key : Issued(key) => Issued(key)'
  BY <1>1 DEF Issued
<1>3. remaining' \in [plan' -> Nat] /\ spent' = [c \in Credits |-> spent'[c]]
  BY DEF ResetTypes
<1>4. \A c \in Credits : spent'[c] = Absent \/ Issued(spent[c])'
  BY <1>2 DEF ResetTypes
<1>5. \A q \in requests' : Asked(q)' /\ Issued(q.key)'
  BY <1>2 DEF ResetTypes, Asked
<1>6. agents' = [b \in Agents |-> agents'[b]]
  BY DEF ResetTypes
<1>7. ASSUME NEW b \in Agents
      PROVE  /\ AgentFields \subseteq DOMAIN agents'[b] /\ agents'[b].outdated \in BOOLEAN
             /\ agents'[b].key = Absent \/ Issued(agents[b].key)'
             /\ agents'[b].phase # "idle" => agents'[b].key # Absent
  <2>1. CASE b = a
    <3>1. agents'[b] = agent
      BY <2>1 DEF ResetTypes
    <3> QED
      BY <3>1 DEF Issued
  <2>2. CASE b # a
    <3>1. agents'[b] = agents[b]
      BY <2>2 DEF ResetTypes
    <3> QED
      BY <3>1, <1>2 DEF ResetTypes, Issued
  <2> QED
    BY <2>1, <2>2
<1> QED
  BY <1>3, <1>4, <1>5, <1>6, <1>7 DEF ResetTypes, Issued

(* Root moves on: it keeps its attempt, or no request can redeem anything. *)
LEMMA RootMoves ==
    ASSUME Reset!ResetAssumption, OneRoot, ResetInv, NEW a \in Agents, NEW agent,
           agents' = [agents EXCEPT ![a] = agent], UNCHANGED <<plan, remaining, spent>>,
           ResetTypes',
           \/ \A q \in requests : ~Live(q)
           \/ /\ agent.key = agents[a].key /\ agent.permission = agents[a].permission
              /\ agent.phase \in {"consume", "send", "waiting"},
           agent.phase \in {"send", "waiting"} =>
                /\ agent.credit \in Credits
                /\ \/ Reset!Known(agent.key) \/ agent.outdated
                   \/ spent[agent.credit] = Absent /\ Authorized(agent.permission),
           agent.outdated => agents[a].outdated,
           \A q \in requests' \ requests :
                /\ q.from = a /\ q.key = agent.key /\ q.permission = agent.permission
                /\ agent.phase = "waiting" /\ (Live(q) => Authorized(q.permission))
                /\ agent.outdated => q.outdated
    PROVE  ResetInv'
<1>1. agents'[a] = agent /\ \A b \in Agents : b = a
  BY DEF ResetInv, ResetTypes, OneRoot
<1>2. /\ \A permission : Authorized(permission)' <=> Authorized(permission)
      /\ \A key : Reset!Known(key)' <=> Reset!Known(key)
  BY DEF Authorized, Low, Reset!Known
<1>3. ASSUME NEW q \in requests', Live(q)' PROVE Current(q)'
  <2>1. Live(q)
    BY <1>2, <1>3 DEF Live, Redeemable
  <2>2. CASE q \in requests
    <3>1. Current(q) /\ q.from = a
      BY <2>1, <2>2, <1>1 DEF ResetInv, ResetTypes, Asked
    <3> QED
      BY <3>1, <2>1, <2>2, <1>1, <1>2 DEF Current
  <2>3. CASE q \notin requests
    BY <2>1, <2>3, <1>1, <1>2 DEF Current
  <2> QED
    BY <2>2, <2>3
<1>4. ASSUME NEW b \in Agents PROVE Chosen(b)'
  BY <1>1, <1>2 DEF Chosen
<1>5. ASSUME NEW b \in Agents PROVE Overtaken(b)'
  BY <1>1 DEF ResetInv, Overtaken
<1> QED
  BY <1>3, <1>4, <1>5 DEF ResetInv

(* Before it consumes, nothing of its attempt is on its way. *)
LEMMA NothingToRedeem ==
    ASSUME OneRoot, ResetInv, NEW a \in Agents,
           agents[a].phase \notin {"consume", "send", "waiting"}
    PROVE  \A q \in requests : ~Live(q)
BY DEF ResetInv, ResetTypes, Asked, Live, OneRoot, Current

LEMMA BeforeConsuming ==
    ASSUME Reset!ResetAssumption, OneRoot, ResetInv, NEW a \in Agents,
           Reset!Attempt(a) \/ Reset!Read(a) \/ Reset!AskUser(a)
    PROVE  ResetInv'
<1>1. ResetTypes
  BY DEF ResetInv
<1>2. CASE Reset!Attempt(a)
  <2>1. PICK agent : agent = Reset!Idle(left.attempts)
    OBVIOUS
  <2>2. /\ agents' = [agents EXCEPT ![a] = agent] /\ UNCHANGED <<plan, remaining, spent, requests>>
        /\ agents[a].key = Absent /\ left.attempts > 0
        /\ left' = [left EXCEPT !["attempts"] = @ - 1]
    BY <1>2, <2>1 DEF Reset!Attempt, Reset!Does, Reset!Spend, Reset!account
  <2>3. /\ AgentFields \subseteq DOMAIN agent /\ agent.phase = "idle" /\ agent.key = left.attempts
        /\ agent.outdated = FALSE
    BY <2>1 DEF Reset!Idle, AgentFields
  <2>4. /\ left' \in [Bounds -> Nat] /\ left.attempts \in Nat
        /\ left'.attempts <= left.attempts /\ left.attempts > left'.attempts
    BY <1>1, <2>2 DEF ResetTypes, Bounds
  <2>5. ResetTypes'
    <3>1. agent.key \in Nat /\ agent.key > left'.attempts /\ agent.phase = "idle"
      BY <2>3, <2>4
    <3>2. UNCHANGED <<plan, remaining, spent>> /\ \A q \in requests' \ requests : FALSE
      BY <2>2
    <3> QED
      BY <1>1, <2>2, <2>3, <2>4, <3>1, <3>2, ResetTypesKept
  <2>6. agents[a].phase = "idle"
    BY <1>1, <2>2 DEF ResetTypes
  <2> QED
    BY <2>2, <2>3, <2>5, <2>6, NothingToRedeem, RootMoves
<1>3. CASE Reset!Read(a)
  <2>1. CASE UNCHANGED agents
    <3>1. UNCHANGED <<plan, remaining, spent, agents, requests, left>>
      BY <1>3, <2>1 DEF Reset!Read, Reset!account
    <3> QED
      BY <3>1 DEF ResetInv, ResetTypes, Asked, Issued, Live, Redeemable, Current, Chosen,
                  Overtaken, Reset!Known, Authorized, Low
  <2>2. ASSUME NEW phase \in {"ask", "consume"}, Reset!Passes(a, phase) PROVE ResetInv'
    <3>1. PICK agent : agent = [agents[a] EXCEPT !.phase = phase]
      OBVIOUS
    <3>2. /\ agents' = [agents EXCEPT ![a] = agent]
          /\ UNCHANGED <<plan, remaining, spent, requests, left>>
          /\ agents[a].phase = "idle" /\ agents[a].key # Absent
      BY <1>3, <2>2, <3>1 DEF Reset!Read, Reset!Passes, Reset!account
    <3>3. /\ AgentFields \subseteq DOMAIN agent /\ agent.phase = phase /\ agent.key = agents[a].key
          /\ agent.outdated = agents[a].outdated /\ agent.outdated \in BOOLEAN
      BY <1>1, <3>1 DEF ResetTypes, AgentFields
    <3>4. ResetTypes'
      BY <1>1, <3>2, <3>3, ResetTypesKept DEF ResetTypes, Issued
    <3> QED
      BY <3>2, <3>3, <3>4, NothingToRedeem, RootMoves
  <2> QED
    BY <1>3, <2>1, <2>2 DEF Reset!Read
<1>4. CASE Reset!AskUser(a)
  <2>1. PICK answer \in {"granted", "refused"} :
            Reset!Does(a, [agents[a] EXCEPT !.permission = answer, !.phase = "consume"])
    BY <1>4 DEF Reset!AskUser
  <2>2. PICK agent : agent = [agents[a] EXCEPT !.permission = answer, !.phase = "consume"]
    OBVIOUS
  <2>3. /\ agents' = [agents EXCEPT ![a] = agent] /\ agents[a].phase = "ask"
        /\ UNCHANGED <<plan, remaining, spent, requests, left>>
    BY <1>4, <2>1, <2>2 DEF Reset!AskUser, Reset!Does, Reset!account
  <2>4. /\ AgentFields \subseteq DOMAIN agent /\ agent.phase = "consume"
        /\ agent.key = agents[a].key
        /\ agent.outdated = agents[a].outdated /\ agent.outdated \in BOOLEAN
    BY <1>1, <2>2 DEF ResetTypes, AgentFields
  <2>5. ResetTypes'
    BY <1>1, <2>3, <2>4, ResetTypesKept DEF ResetTypes, Issued
  <2> QED
    BY <2>3, <2>4, <2>5, NothingToRedeem, RootMoves
<1> QED
  BY <1>2, <1>3, <1>4

LEMMA ConsumeStep ==
    ASSUME Reset!ResetAssumption, OneRoot, ResetInv, NEW a \in Agents, Reset!Consume(a)
    PROVE  ResetInv'
<1>1. ResetTypes
  BY DEF ResetInv
<1>2. /\ agents[a].phase = "consume" /\ UNCHANGED <<plan, remaining, spent, requests, left>>
  BY DEF Reset!Consume, Reset!account
<1>3. Reset!Decide(Reset!Windows, agents[a].permission) = "resetAuthorized"
        <=> Authorized(agents[a].permission)
  BY <1>1, Decisions
<1>4. CASE /\ Authorized(agents[a].permission)
           /\ \E c \in Reset!Available :
                 Reset!Does(a, [agents[a] EXCEPT !.phase = "send", !.credit = c,
                                                 !.outdated = FALSE])
  <2>1. PICK c \in Reset!Available :
                 Reset!Does(a, [agents[a] EXCEPT !.phase = "send", !.credit = c,
                                                 !.outdated = FALSE])
    BY <1>4
  <2>2. PICK agent : agent = [agents[a] EXCEPT !.phase = "send", !.credit = c, !.outdated = FALSE]
    OBVIOUS
  <2>3. agents' = [agents EXCEPT ![a] = agent] /\ c \in Credits /\ spent[c] = Absent
    BY <2>1, <2>2 DEF Reset!Does, Reset!Available
  <2>4. /\ AgentFields \subseteq DOMAIN agent /\ agent.phase = "send" /\ agent.credit = c
        /\ agent.key = agents[a].key /\ agent.permission = agents[a].permission
        /\ agent.outdated = FALSE
    BY <1>1, <2>2 DEF ResetTypes, AgentFields
  <2>5. ResetTypes'
    BY <1>1, <1>2, <2>3, <2>4, ResetTypesKept DEF ResetTypes, Issued
  <2> QED
    BY <1>2, <1>4, <2>3, <2>4, <2>5, RootMoves
<1>5. CASE /\ ~Authorized(agents[a].permission) \/ Reset!Available = {}
           /\ Reset!Does(a, Reset!Idle(Absent))
  <2>1. PICK agent : agent = Reset!Idle(Absent)
    OBVIOUS
  <2>2. /\ agents' = [agents EXCEPT ![a] = agent] /\ AgentFields \subseteq DOMAIN agent
        /\ agent.phase = "idle" /\ agent.key = Absent /\ agent.outdated = FALSE
    BY <1>5, <2>1 DEF Reset!Does, Reset!Idle, AgentFields
  <2>3. ResetTypes'
    <3>1. left' = left /\ left.attempts \in Nat /\ left \in [Bounds -> Nat]
      BY <1>1, <1>2 DEF ResetTypes, Bounds
    <3>2. left' \in [Bounds -> Nat] /\ left'.attempts <= left.attempts
      BY <3>1
    <3>3. agent.outdated \in BOOLEAN /\ \A q \in requests' \ requests : FALSE
      BY <1>2, <2>2
    <3> QED
      BY <1>1, <1>2, <2>2, <3>2, <3>3, ResetTypesKept
  <2>4. ASSUME NEW q \in requests, Live(q) PROVE FALSE
    <3>1. /\ q.from = a /\ q.credit \in Credits /\ spent[q.credit] = Absent
          /\ Authorized(agents[a].permission)
      BY <1>1, <2>4 DEF ResetInv, ResetTypes, Asked, OneRoot, Current, Live, Redeemable
    <3> QED
      BY <1>5, <3>1 DEF Reset!Available
  <2> QED
    BY <1>2, <2>2, <2>3, <2>4, RootMoves
<1> QED
  BY <1>3, <1>4, <1>5 DEF Reset!Consume

LEMMA SendStep ==
    ASSUME Reset!ResetAssumption, OneRoot, ResetInv, NEW a \in Agents, Reset!Send(a)
    PROVE  ResetInv'
<1>1. ResetTypes /\ Chosen(a)
  BY DEF ResetInv
<1>2. PICK agent : agent = [agents[a] EXCEPT !.phase = "waiting"]
  OBVIOUS
<1>3. PICK sent : sent = [from |-> a, key |-> agents[a].key, credit |-> agents[a].credit,
                          permission |-> agents[a].permission,
                          outdated |-> agents[a].outdated]
  OBVIOUS
<1>4. /\ agents' = [agents EXCEPT ![a] = agent] /\ requests' = requests \cup {sent}
      /\ agents[a].phase = "send" /\ UNCHANGED <<plan, remaining, spent, left>>
  BY <1>2, <1>3 DEF Reset!Send, Reset!Passes, Reset!KeyOf, Reset!account
<1>5. /\ AgentFields \subseteq DOMAIN agent /\ agent.phase = "waiting"
      /\ agent.key = agents[a].key /\ agent.permission = agents[a].permission
      /\ agent.credit = agents[a].credit /\ agent.outdated = agents[a].outdated
      /\ agent.outdated \in BOOLEAN
  BY <1>1, <1>2 DEF ResetTypes, AgentFields
<1>6. /\ sent.from = a /\ sent.key = agent.key /\ sent.permission = agent.permission
      /\ sent.credit = agent.credit /\ agent.credit \in Credits
      /\ Issued(agent.key) /\ sent.outdated = agent.outdated /\ Asked(sent)
  BY <1>1, <1>3, <1>4, <1>5 DEF Chosen, ResetTypes, Asked, RequestFields
<1>7. ResetTypes'
  BY <1>1, <1>4, <1>5, <1>6, ResetTypesKept DEF ResetTypes, Issued
<1>8. \/ Reset!Known(agent.key) \/ agent.outdated
      \/ spent[agent.credit] = Absent /\ Authorized(agent.permission)
  BY <1>1, <1>4, <1>5 DEF Chosen
<1>9. Live(sent) => Authorized(sent.permission)
  BY <1>6, <1>8 DEF Live, Redeemable
<1>10. \A q \in requests' \ requests :
            /\ q.from = a /\ q.key = agent.key /\ q.permission = agent.permission
            /\ agent.phase = "waiting" /\ (Live(q) => Authorized(q.permission))
            /\ agent.outdated => q.outdated
  BY <1>4, <1>5, <1>6, <1>9
<1>11. /\ UNCHANGED <<plan, remaining, spent>> /\ agents' = [agents EXCEPT ![a] = agent]
       /\ agent.outdated => agents[a].outdated
       /\ \/ \A q \in requests : ~Live(q)
          \/ /\ agent.key = agents[a].key /\ agent.permission = agents[a].permission
             /\ agent.phase \in {"consume", "send", "waiting"}
  BY <1>4, <1>5
<1>12. agent.phase \in {"send", "waiting"} =>
            /\ agent.credit \in Credits
            /\ \/ Reset!Known(agent.key) \/ agent.outdated
               \/ spent[agent.credit] = Absent /\ Authorized(agent.permission)
  BY <1>6, <1>8
<1> QED
  BY <1>7, <1>10, <1>11, <1>12, RootMoves, ZenonT(60)

LEMMA GiveUpStep ==
    ASSUME Reset!ResetAssumption, OneRoot, ResetInv, NEW a \in Agents, Reset!GiveUp(a)
    PROVE  ResetInv'
<1>1. ResetTypes
  BY DEF ResetInv
<1>2. PICK agent : agent = [agents[a] EXCEPT !.phase = "consume"]
  OBVIOUS
<1>3. /\ agents' = [agents EXCEPT ![a] = agent] /\ requests' \subseteq requests
      /\ agents[a].phase = "waiting" /\ UNCHANGED <<plan, remaining, spent>>
      /\ left.faults > 0 /\ left' = [left EXCEPT !["faults"] = @ - 1]
  BY <1>2 DEF Reset!GiveUp, Reset!Passes, Reset!Spend, Reset!account
<1>4. /\ AgentFields \subseteq DOMAIN agent /\ agent.phase = "consume"
      /\ agent.key = agents[a].key /\ agent.permission = agents[a].permission
      /\ agent.outdated = agents[a].outdated /\ agent.outdated \in BOOLEAN
  BY <1>1, <1>2 DEF ResetTypes, AgentFields
<1>5. /\ left' \in [Bounds -> Nat] /\ left'.attempts = left.attempts
      /\ left.attempts \in Nat
  BY <1>1, <1>3 DEF ResetTypes, Bounds
<1>6. ResetTypes'
  BY <1>1, <1>3, <1>4, <1>5, ResetTypesKept DEF ResetTypes, Issued
<1> QED
  BY <1>3, <1>4, <1>6, RootMoves

LEMMA UseStep ==
    ASSUME Reset!ResetAssumption, ResetInv, NEW length \in plan, NEW level \in Levels,
           Reset!Use(length, level)
    PROVE  ResetInv'
<1>1. ResetTypes
  BY DEF ResetInv
<1>2. /\ UNCHANGED <<plan, spent, agents, requests>> /\ level < remaining[length]
      /\ remaining' = [remaining EXCEPT ![length] = level] /\ level \in Nat
      /\ left.uses > 0 /\ left' = [left EXCEPT !["uses"] = @ - 1]
  BY DEF Reset!Use, Reset!Spend, Reset!ResetAssumption
<1>3. /\ remaining' \in [plan -> Nat] /\ \A w \in plan : remaining'[w] <= remaining[w]
      /\ left' \in [Bounds -> Nat] /\ left'.attempts = left.attempts
  BY <1>1, <1>2 DEF ResetTypes, Bounds
<1>4. \A permission : Authorized(permission) => Authorized(permission)'
  BY <1>1, <1>2, <1>3, Lowered
<1>5. ResetTypes'
  BY <1>1, <1>2, <1>3 DEF ResetTypes, Asked, Issued
<1>6. ASSUME NEW q \in requests', Live(q)' PROVE Current(q)'
  BY <1>2, <1>4, <1>6 DEF ResetInv, Live, Redeemable, Reset!Known, Current
<1>7. ASSUME NEW a \in Agents PROVE Chosen(a)' /\ Overtaken(a)'
  BY <1>2, <1>4 DEF ResetInv, Reset!Known, Chosen, Overtaken
<1> QED
  BY <1>5, <1>6, <1>7 DEF ResetInv

(* What a step outdates keeps everything else.                             *)
Alike(x, y) ==
    /\ x.key = y.key /\ x.permission = y.permission /\ x.credit = y.credit

LEMMA Rereading ==
    ASSUME ResetTypes, NEW those \in SUBSET requests, NEW late \in BOOLEAN,
           NEW q \in Reset!Reread(those, late)
    PROVE  /\ Asked(q)
           /\ \E r \in those : /\ Alike(q, r) /\ q.from = r.from
                               /\ q.outdated = (r.outdated \/ late)
<1>1. PICK r \in those : q = IF late THEN [r EXCEPT !.outdated = TRUE] ELSE r
  BY DEF Reset!Reread, Reset!Outdated
<1>2. Asked(r)
  BY DEF ResetTypes
<1>3. /\ DOMAIN q = DOMAIN r /\ Alike(q, r) /\ q.from = r.from
      /\ q.outdated = (r.outdated \/ late)
  BY <1>1, <1>2 DEF Asked, RequestFields, Alike
<1> QED
  BY <1>2, <1>3 DEF Asked, Alike

LEMMA ToldOf ==
    ASSUME ResetTypes, NEW q \in requests, NEW late \in BOOLEAN, agents' = Reset!Told(q, late),
           NEW a \in Agents
    PROVE  /\ agents' = [b \in Agents |-> agents'[b]] /\ AgentFields \subseteq DOMAIN agents'[a]
           /\ \/ /\ agents'[a].phase = "idle" /\ agents'[a].key = Absent
                 /\ agents'[a].outdated = FALSE
                 /\ a = q.from /\ agents[a].phase = "waiting"
                 /\ q.key = agents[a].key /\ q.credit = agents[a].credit
              \/ /\ Alike(agents'[a], agents[a]) /\ agents'[a].phase = agents[a].phase
                 /\ agents'[a].outdated = (agents[a].outdated \/ late)
<1>1. agents' = [b \in Agents |-> agents'[b]]
  BY DEF Reset!Told
<1>2. AgentFields \subseteq DOMAIN agents[a] /\ agents[a].outdated \in BOOLEAN
  BY DEF ResetTypes
<1>3. CASE /\ a = q.from /\ agents[a].phase = "waiting"
           /\ q.key = agents[a].key /\ q.credit = agents[a].credit
  <2>1. agents'[a] = Reset!Idle(Absent)
    BY <1>3 DEF Reset!Told, Reset!KeyOf
  <2> QED
    BY <1>1, <1>3, <2>1 DEF Reset!Idle, AgentFields
<1>4. CASE ~(/\ a = q.from /\ agents[a].phase = "waiting"
             /\ q.key = agents[a].key /\ q.credit = agents[a].credit)
  <2>1. agents'[a] = [agents[a] EXCEPT !.outdated = @ \/ late]
    BY <1>4 DEF Reset!Told, Reset!KeyOf
  <2> QED
    BY <1>1, <1>2, <2>1 DEF AgentFields, Alike
<1> QED
  BY <1>3, <1>4

(* A window that renews overtakes all that is on its way.                  *)
LEMMA RenewStep ==
    ASSUME Reset!ResetAssumption, ResetInv, NEW length \in plan, Reset!Renew(length)
    PROVE  ResetInv'
<1>1. ResetTypes
  BY DEF ResetInv
<1>2. /\ UNCHANGED <<plan, spent>> /\ remaining' = [remaining EXCEPT ![length] = 100]
      /\ left.renewals > 0 /\ left' = [left EXCEPT !["renewals"] = @ - 1]
      /\ agents' = [a \in Agents |-> [agents[a] EXCEPT !.outdated = TRUE]]
      /\ requests' = Reset!Reread(requests, TRUE)
  BY DEF Reset!Renew, Reset!Spend, Reset!Reread
<1>3. /\ remaining' \in [plan -> Nat] /\ left' \in [Bounds -> Nat]
      /\ left'.attempts = left.attempts
  BY <1>1, <1>2 DEF ResetTypes, Bounds
<1>4. ASSUME NEW q \in requests'
      PROVE  Asked(q) /\ q.outdated = TRUE /\ \E r \in requests : q.key = r.key
  <2>1. /\ Asked(q)
        /\ \E r \in requests : /\ Alike(q, r) /\ q.from = r.from
                               /\ q.outdated = (r.outdated \/ TRUE)
    BY <1>1, <1>2, <1>4, Rereading
  <2> QED
    BY <2>1 DEF Alike
<1>5. ASSUME NEW a \in Agents
      PROVE  /\ AgentFields \subseteq DOMAIN agents'[a] /\ agents'[a].outdated = TRUE
             /\ Alike(agents'[a], agents[a]) /\ agents'[a].phase = agents[a].phase
  <2>1. agents'[a] = [agents[a] EXCEPT !.outdated = TRUE] /\ AgentFields \subseteq DOMAIN agents[a]
    BY <1>1, <1>2 DEF ResetTypes
  <2> QED
    BY <2>1 DEF AgentFields, Alike
<1>6. ResetTypes'
  <2>1. agents' = [a \in Agents |-> agents'[a]]
    BY <1>2
  <2>2. \A q \in requests' : Asked(q)' /\ Issued(q.key)'
    BY <1>1, <1>3, <1>4 DEF ResetTypes, Asked, Issued
  <2>3. \A a \in Agents : /\ AgentFields \subseteq DOMAIN agents'[a]
                          /\ agents'[a].outdated \in BOOLEAN
                          /\ agents'[a].key = Absent \/ Issued(agents[a].key)'
                          /\ agents'[a].phase # "idle" => agents'[a].key # Absent
    BY <1>1, <1>3, <1>5 DEF ResetTypes, Issued, Alike
  <2>4. /\ spent' = [c \in Credits |-> spent'[c]] /\ remaining' \in [plan' -> Nat]
        /\ \A c \in Credits : spent'[c] = Absent \/ Issued(spent[c])'
    BY <1>1, <1>2, <1>3 DEF ResetTypes, Issued
  <2> QED
    BY <1>3, <2>1, <2>2, <2>3, <2>4 DEF ResetTypes
<1>7. \A q \in requests' : ~Live(q)'
  BY <1>4 DEF Live
<1>8. ASSUME NEW a \in Agents PROVE Chosen(a)' /\ Overtaken(a)'
  BY <1>1, <1>4, <1>5 DEF Chosen, Overtaken, ResetInv, Alike
<1> QED
  BY <1>6, <1>7, <1>8 DEF ResetInv

(* The types hold when a request has been carried out.                     *)
LEMMA CarriedOut ==
    ASSUME Reset!ResetAssumption, ResetTypes, NEW q \in requests, NEW late \in BOOLEAN,
           requests' = Reset!Reread(requests \ {q}, late), agents' = Reset!Told(q, late),
           UNCHANGED <<plan, left>>, remaining' \in [plan -> Nat],
           spent' = [spent EXCEPT ![q.credit] = q.key] \/ UNCHANGED spent
    PROVE  ResetTypes'
<1>1. ASSUME NEW r \in requests' PROVE Asked(r)' /\ Issued(r.key)'
  <2>1. /\ Asked(r)
        /\ \E s \in requests \ {q} : /\ Alike(r, s) /\ r.from = s.from
                                     /\ r.outdated = (s.outdated \/ late)
    BY <1>1, Rereading
  <2> QED
    BY <2>1 DEF ResetTypes, Asked, Issued, Alike
<1>2. ASSUME NEW a \in Agents
      PROVE  /\ agents' = [b \in Agents |-> agents'[b]] /\ AgentFields \subseteq DOMAIN agents'[a]
             /\ agents'[a].outdated \in BOOLEAN
             /\ agents'[a].key = Absent \/ Issued(agents[a].key)'
             /\ agents'[a].phase # "idle" => agents'[a].key # Absent
  <2>1. /\ agents[a].outdated \in BOOLEAN
        /\ agents[a].key = Absent \/ Issued(agents[a].key)
        /\ agents[a].phase # "idle" => agents[a].key # Absent
    BY DEF ResetTypes
  <2> QED
    BY <2>1, ToldOf DEF Issued, Alike
<1>3. /\ spent' = [c \in Credits |-> spent'[c]]
      /\ \A c \in Credits : spent'[c] = Absent \/ Issued(spent[c])'
  BY DEF ResetTypes, Issued
<1>4. agents' = [b \in Agents |-> agents'[b]]
  BY DEF Reset!Told
<1> QED
  BY <1>1, <1>2, <1>3, <1>4 DEF ResetTypes

(* A request whose credit goes.  If it was overtaken, so is now everything *)
(* else; otherwise it was the current one, and with it no other request    *)
(* can redeem anything any more.                                           *)
LEMMA Redeems ==
    ASSUME Reset!ResetAssumption, OneRoot, ResetInv, NEW q \in requests,
           Reset!CarryOut(q), Reset!Outcome(q) = "reset"
    PROVE  ResetInv'
<1>1. ResetTypes
  BY DEF ResetInv
<1>2. Redeemable(q)
  <2>1. ~Reset!Known(q.key)
    BY DEF Reset!Outcome
  <2>2. ~Reset!Full
    BY <2>1 DEF Reset!Outcome
  <2>3. spent[q.credit] = Absent
    BY <2>1, <2>2 DEF Reset!Outcome
  <2> QED
    BY <2>1, <2>3 DEF Redeemable
<1>3. PICK a \in Agents : a = q.from /\ \A b \in Agents : b = a
  BY <1>1 DEF ResetTypes, Asked, OneRoot
<1>4. /\ requests' = Reset!Reread(requests \ {q}, q.outdated)
      /\ agents' = Reset!Told(q, q.outdated) /\ q.outdated \in BOOLEAN
      /\ UNCHANGED <<plan, left>>
      /\ spent' = [spent EXCEPT ![q.credit] = q.key] /\ remaining' = [w \in plan |-> 100]
  BY <1>1 DEF Reset!CarryOut, ResetTypes, Asked
<1>5. /\ q.credit \in Credits /\ q.key \in Nat /\ q.key # Absent /\ spent[q.credit] = Absent
  BY <1>1, <1>2 DEF ResetTypes, Asked, Issued, Redeemable, Reset!ResetAssumption
<1>6. /\ spent' = [c \in Credits |-> spent'[c]] /\ spent'[q.credit] = q.key
      /\ \A c \in Credits : c # q.credit => spent'[c] = spent[c]
  BY <1>1, <1>4, <1>5 DEF ResetTypes
<1>7. (\A key : key \in Nat /\ Reset!Known(key) => Reset!Known(key)') /\ Reset!Known(q.key)'
  BY <1>5, <1>6 DEF Reset!Known, Reset!ResetAssumption
<1>8. ResetTypes'
  <2>1. remaining' \in [plan -> Nat]
    BY <1>4
  <2> QED
    BY <1>1, <1>4, <2>1, CarriedOut
<1>9. ASSUME NEW r \in requests'
      PROVE  \E s \in requests : /\ Alike(r, s) /\ r.from = s.from
                                 /\ r.outdated = (s.outdated \/ q.outdated)
  BY <1>1, <1>4, <1>9, Rereading
<1>10. ASSUME NEW r \in requests', Live(r)' PROVE FALSE
  <2>1. PICK s \in requests : /\ Alike(r, s) /\ r.from = s.from
                              /\ r.outdated = (s.outdated \/ q.outdated)
    BY <1>9
  <2>2. ~s.outdated /\ ~q.outdated /\ s.from = a /\ s.credit \in Credits /\ s.key \in Nat
    BY <1>1, <1>3, <1>4, <1>10, <2>1 DEF Live, ResetTypes, Asked, Issued
  <2>3. ~Reset!Known(s.key) /\ spent[s.credit] = Absent
    BY <1>5, <1>6, <1>7, <1>10, <2>1, <2>2 DEF Live, Redeemable, Alike
  <2>4. s.key = agents[a].key /\ q.key = agents[a].key
    BY <1>2, <1>3, <2>2, <2>3 DEF ResetInv, Live, Redeemable, Current
  <2> QED
    BY <1>5, <1>7, <1>10, <2>1, <2>4 DEF Live, Redeemable, Alike
<1>11. ASSUME NEW b \in Agents PROVE Chosen(b)'
  <2>1. b = a /\ Chosen(a)
    BY <1>3 DEF ResetInv
  <2>2. CASE agents'[a].phase = "idle"
    BY <2>1, <2>2 DEF Chosen
  <2>3. CASE /\ Alike(agents'[a], agents[a]) /\ agents'[a].phase = agents[a].phase
             /\ agents'[a].outdated = (agents[a].outdated \/ q.outdated)
             /\ ~q.outdated /\ ~agents[a].outdated
             /\ agents[a].phase \in {"send", "waiting"}
    <3>1. Current(q)
      BY <1>2, <2>3 DEF ResetInv, Live
    <3>2. q.key = agents'[a].key /\ agents'[a].credit \in Credits
      BY <1>3, <2>1, <2>3, <3>1 DEF Current, Alike, Chosen
    <3> QED
      BY <1>7, <2>1, <3>2 DEF Chosen
  <2>4. CASE /\ Alike(agents'[a], agents[a]) /\ agents'[a].phase = agents[a].phase
             /\ agents'[a].outdated = TRUE
    BY <2>1, <2>4 DEF Chosen, Alike
  <2>5. CASE agents'[a].phase \notin {"send", "waiting"}
    BY <2>1, <2>5 DEF Chosen
  <2> QED
    BY <1>1, <1>4, <2>2, <2>3, <2>4, <2>5, ToldOf DEF ResetTypes
<1>12. ASSUME NEW b \in Agents PROVE Overtaken(b)'
  <2>1. b = a /\ Overtaken(a)
    BY <1>3 DEF ResetInv
  <2>2. agents'[a].outdated => agents[a].outdated \/ q.outdated
    BY <1>1, <1>4, ToldOf
  <2> QED
    BY <1>9, <2>1, <2>2 DEF Overtaken
<1> QED
  BY <1>8, <1>10, <1>11, <1>12 DEF ResetInv

(* A request that finds nothing to reset: when Root was waiting for it, no *)
(* other request of the attempt could redeem anything either.              *)
LEMMA RedeemsNothing ==
    ASSUME Reset!ResetAssumption, OneRoot, ResetInv, NEW q \in requests,
           Reset!CarryOut(q), Reset!Outcome(q) # "reset"
    PROVE  ResetInv'
<1>1. ResetTypes
  BY DEF ResetInv
<1>2. PICK a \in Agents : a = q.from /\ \A b \in Agents : b = a
  BY <1>1 DEF ResetTypes, Asked, OneRoot
<1>3. /\ requests' = Reset!Reread(requests \ {q}, FALSE) /\ requests' = requests \ {q}
      /\ agents' = Reset!Told(q, FALSE) /\ UNCHANGED <<plan, left, spent, remaining>>
  BY DEF Reset!CarryOut, Reset!Reread
<1>4. Reset!Known(q.key) \/ Reset!Full \/ spent[q.credit] # Absent
  BY DEF Reset!Outcome
<1>5. ResetTypes'
  <2>1. remaining' \in [plan -> Nat]
    BY <1>1, <1>3 DEF ResetTypes
  <2> QED
    BY <1>1, <1>3, <2>1, CarriedOut
<1>6. /\ \A permission : Authorized(permission)' <=> Authorized(permission)
      /\ \A key : Reset!Known(key)' <=> Reset!Known(key)
  BY <1>3 DEF Authorized, Low, Reset!Known
<1>7. CASE /\ Alike(agents'[a], agents[a]) /\ agents'[a].phase = agents[a].phase
           /\ agents'[a].outdated = (agents[a].outdated \/ FALSE)
  <2>1. ASSUME NEW r \in requests', Live(r)' PROVE Current(r)'
    <3>1. r \in requests /\ Live(r) /\ r.from = a
      BY <1>1, <1>2, <1>3, <1>6, <2>1 DEF Live, Redeemable, ResetTypes, Asked
    <3> QED
      BY <1>6, <1>7, <3>1 DEF ResetInv, Current, Alike
  <2>2. ASSUME NEW b \in Agents PROVE Chosen(b)'
    <3>1. b = a /\ Chosen(a) /\ (agents'[a].outdated <=> agents[a].outdated)
      BY <1>1, <1>2, <1>7 DEF ResetInv, ResetTypes
    <3>2. UNCHANGED spent
      BY <1>3
    <3> QED
      BY <1>6, <1>7, <3>1, <3>2 DEF Chosen, Alike
  <2>3. ASSUME NEW b \in Agents PROVE Overtaken(b)'
    BY <1>1, <1>2, <1>3, <1>7 DEF ResetInv, ResetTypes, Overtaken
  <2> QED
    BY <1>5, <2>1, <2>2, <2>3 DEF ResetInv
<1>8. CASE /\ agents'[a].phase = "idle" /\ agents'[a].outdated = FALSE
           /\ agents[a].phase = "waiting"
           /\ q.key = agents[a].key /\ q.credit = agents[a].credit
  <2>1. ASSUME NEW r \in requests, Live(r) PROVE FALSE
    <3>1. r.key = agents[a].key /\ Authorized(r.permission) /\ ~Reset!Known(r.key)
      BY <1>1, <1>2, <2>1 DEF ResetInv, ResetTypes, Asked, Current, Live, Redeemable
    <3>2. ~Reset!Full
      BY <1>1, <3>1, Thresholds
    <3>3. ~agents[a].outdated
      BY <2>1 DEF ResetInv, Overtaken, Live
    <3>4. spent[agents[a].credit] = Absent
      BY <1>8, <3>1, <3>3 DEF ResetInv, Chosen
    <3> QED
      BY <1>4, <1>8, <3>1, <3>2, <3>4
  <2>2. \A r \in requests' : ~Live(r)'
    BY <1>3, <1>6, <2>1 DEF Live, Redeemable
  <2>3. ASSUME NEW b \in Agents PROVE Chosen(b)' /\ Overtaken(b)'
    BY <1>2, <1>8 DEF Chosen, Overtaken
  <2> QED
    BY <1>5, <2>2, <2>3 DEF ResetInv
<1> QED
  BY <1>1, <1>3, <1>7, <1>8, ToldOf

LEMMA ResetInit == ASSUME Reset!ResetAssumption, Reset!Init PROVE ResetInv
<1>1. \A a \in Agents : agents[a] = Reset!Idle(Absent)
  BY DEF Reset!Init
<1>2. ResetTypes
  BY <1>1 DEF Reset!Init, Reset!ResetAssumption, ResetTypes, AgentFields, Bounds,
             Reset!Idle
<1>3. requests = {} /\ \A a \in Agents : Chosen(a) /\ Overtaken(a)
  BY <1>1 DEF Reset!Init, Chosen, Overtaken, Reset!Idle
<1> QED
  BY <1>2, <1>3 DEF ResetInv

LEMMA ResetNext ==
    ASSUME Reset!ResetAssumption, OneRoot, ResetInv, [Reset!Next]_(Reset!vars)
    PROVE  ResetInv'
<1>1. CASE Reset!Disable \/ UNCHANGED Reset!vars
  <2>1. UNCHANGED <<plan, remaining, spent, agents, requests, left>>
    BY <1>1 DEF Reset!Disable, Reset!account, Reset!vars
  <2> QED
    BY <2>1 DEF ResetInv, ResetTypes, Asked, Issued, Live, Redeemable, Current, Chosen,
                Overtaken, Reset!Known, Authorized, Low
<1>2. ASSUME NEW a \in Agents, \/ Reset!Attempt(a) \/ Reset!Read(a) \/ Reset!AskUser(a)
                               \/ Reset!Consume(a) \/ Reset!Send(a) \/ Reset!GiveUp(a)
      PROVE  ResetInv'
  BY <1>2, BeforeConsuming, ConsumeStep, SendStep, GiveUpStep
<1>3. ASSUME NEW q \in requests, Reset!CarryOut(q) PROVE ResetInv'
  BY <1>3, Redeems, RedeemsNothing
<1>4. ASSUME NEW length \in plan, NEW level \in Levels, Reset!Use(length, level) PROVE ResetInv'
  BY <1>4, UseStep
<1>5. ASSUME NEW length \in plan, Reset!Renew(length) PROVE ResetInv'
  BY <1>5, RenewStep
<1> QED
  BY <1>1, <1>2, <1>3, <1>4, <1>5 DEF Reset!Next

(* Only a consume that has just read a quota that warrants it goes on to   *)
(* send its request.                                                       *)
LEMMA SendsWarranted ==
    ASSUME ResetTypes, Reset!Next, NEW a \in Agents,
           agents[a].phase # "send", agents'[a].phase = "send"
    PROVE  Reset!Warranted(agents[a].permission)
<1>1. AgentFields \subseteq DOMAIN agents[a] /\ agents = [b \in Agents |-> agents[b]]
  BY DEF ResetTypes
<1>2. CASE Reset!Consume(a)
  <2>1. agents'[a] = Reset!Idle(Absent)
            \/ Reset!Decide(Reset!Windows, agents[a].permission) = "resetAuthorized"
    BY <1>1, <1>2 DEF Reset!Consume, Reset!Does
  <2>2. Authorized(agents[a].permission)
    BY <2>1, Decisions DEF Reset!Idle
  <2> QED
    BY <2>2, Thresholds
<1>3. ASSUME NEW b \in Agents, Reset!Consume(b), b # a PROVE FALSE
  BY <1>1, <1>3 DEF Reset!Consume, Reset!Does
<1>4. ASSUME NEW b \in Agents, NEW phase \in {"ask", "consume", "waiting"}, Reset!Passes(b, phase)
      PROVE  FALSE
  BY <1>1, <1>4 DEF Reset!Passes, AgentFields
<1>5. ASSUME NEW b \in Agents, Reset!Attempt(b) PROVE FALSE
  BY <1>1, <1>5 DEF Reset!Attempt, Reset!Does, Reset!Idle
<1>6. ASSUME NEW b \in Agents, Reset!AskUser(b) PROVE FALSE
  BY <1>1, <1>6 DEF Reset!AskUser, Reset!Does, AgentFields
<1>7. ASSUME NEW q \in requests, Reset!CarryOut(q) PROVE FALSE
  <2>1. PICK late \in BOOLEAN : agents' = Reset!Told(q, late)
    BY <1>7 DEF Reset!CarryOut, ResetTypes, Asked
  <2> QED
    BY <2>1, ToldOf
<1>8. ASSUME NEW length \in plan, Reset!Renew(length) PROVE FALSE
  BY <1>1, <1>8 DEF Reset!Renew, AgentFields
<1> QED
  BY <1>2, <1>3, <1>4, <1>5, <1>6, <1>7, <1>8
     DEF Reset!Next, Reset!Read, Reset!Send, Reset!GiveUp, Reset!Use, Reset!Disable

(* With one Root, a credit goes only when the quota warrants it, whatever  *)
(* requests were given up, repeated, delayed or lost before, unless a      *)
(* window has renewed since the quota was read for it.                     *)
THEOREM ResetWarranted ==
    ASSUME Reset!ResetAssumption, OneRoot
    PROVE  Reset!Spec => Reset!SpentOnlyWhenLow
<1>1. ASSUME ResetInv, [Reset!Next]_(Reset!vars) PROVE [Reset!Spends]_(Reset!vars)
  <2>1. CASE UNCHANGED Reset!vars
    BY <2>1
  <2>2. CASE Reset!Next /\ spent' = spent
    BY <1>1, <2>2, SendsWarranted DEF ResetInv, Reset!Spends
  <2>3. CASE Reset!Next /\ spent' # spent
    <3>1. PICK q \in requests : Reset!CarryOut(q) /\ Reset!Outcome(q) = "reset"
      BY <2>3 DEF Reset!Next, Reset!Attempt, Reset!Read, Reset!AskUser, Reset!Consume,
                  Reset!Send, Reset!GiveUp, Reset!CarryOut, Reset!Use, Reset!Renew,
                  Reset!Disable, Reset!account
    <3>2. /\ requests' = Reset!Reread(requests \ {q}, q.outdated)
          /\ spent' = [spent EXCEPT ![q.credit] = q.key] /\ q.outdated \in BOOLEAN
      BY <1>1, <3>1 DEF Reset!CarryOut, ResetInv, ResetTypes, Asked
    <3>3. Redeemable(q)
      <4>1. ~Reset!Known(q.key)
        BY <3>1 DEF Reset!Outcome
      <4>2. ~Reset!Full
        BY <3>1, <4>1 DEF Reset!Outcome
      <4> QED
        BY <3>1, <4>1, <4>2 DEF Reset!Outcome, Redeemable
    <3>4. Reset!Warranted(q.permission) \/ q.outdated
      BY <1>1, <3>2, <3>3, Thresholds DEF ResetInv, Live, Current
    <3> QED
      BY <1>1, <2>3, <3>2, <3>4, SendsWarranted DEF ResetInv, Reset!Spends
  <2> QED
    BY <1>1, <2>1, <2>2, <2>3
<1> QED
  BY <1>1, ResetInit, ResetNext, PTL DEF Reset!Spec, Reset!SpentOnlyWhenLow

-----------------------------------------------------------------------------
(***************************************************************************)
(* ctx7.  What a command is about to do to a package rests on a look at    *)
(* it that still holds; and each package HolyCodex has installed is told   *)
(* by the record the command goes by, or is lost by a step that says so.   *)
(***************************************************************************)
Identities == (Managers \X Nat) \cup {Nothing}
ToolRecords ==
    [manager : Managers, version : Nat, executable : Managers \cup {Foreign},
     ownership : {"holycodex", "user"}, identity : Identities]
MaybeTool == ToolRecords \cup {Nothing}

MemFields == {"by", "op", "previous", "before", "tool", "added"}
Looking == {"path", "before", "latest", "add"}
ToolSteps == {"idle", "path", "before", "latest", "add", "after", "record", "rest", "check", "remove",
           "verify"}

ToolTypes ==
    /\ package = [m \in Managers |-> package[m]]
    /\ \A m \in Managers : package[m] = Nothing \/ package[m].version \in Nat
    /\ path \subseteq {Foreign, Bun} /\ latest \in Nat
    /\ budget \in [{"runs", "faults", "fails", "moves"} -> Nat]
    /\ MemFields \subseteq DOMAIN mem /\ pc \in ToolSteps
    /\ pc # "idle" => mem.by \in Tools!Launchers
    /\ active \in MaybeTool /\ journal \in MaybeTool \cup {Gone}
    /\ pc = "rest" => journal # Gone
    /\ mem.previous \in MaybeTool /\ mem.tool \in MaybeTool

Inspects ==
    LET m == mem.by.family IN
    /\ pc \in {"latest", "add"} =>
            \/ m \in blind \/ package[m] = Nothing
            \/ mem.before # Nothing /\ mem.before.identity = Tools!Identity(m)
    /\ pc = "add" => Tools!Ownership(mem.previous, mem.by, mem.before) = "holycodex"
    /\ pc = "remove" =>
            /\ Tools!Owned(Tools!Target)
            /\ m \in blind \/ package[m] = Nothing \/ Tools!Target.identity = Tools!Identity(m)

Holds(m) == m \notin forgotten /\ package[m] # Nothing /\ package[m].by = "holycodex"
Tells(t, m) ==
    t \notin {Nothing, Gone} /\ Tools!Owned(t) /\ t.manager = m /\ t.identity = Tools!Identity(m)

(* An identity is of the manager, or of one that was let go of. *)
Stands(t) ==
    t \notin {Nothing, Gone} /\ Tools!Owned(t) =>
        t.identity[1] = t.manager \/ t.identity[1] \in forgotten
Last == IF journal # Gone THEN journal ELSE active

(* Installed by this command, and not in a record yet. *)
Fresh(m) == mem.added /\ m = mem.by.family

(* What the tool a command has found does to the package a record tells. *)
Found(m) ==
    \/ Tells(mem.tool, m)
    \/ Tells(mem.previous, m) /\ ~(Tools!Owned(mem.tool) /\ mem.tool.manager = m)

Telling ==
    /\ Stands(active) /\ Stands(journal) /\ Stands(mem.previous)
    /\ pc \in Looking \cup {"after", "record"} => journal = Gone /\ mem.previous = active
    /\ pc \in Looking \cup {"after"} => mem.tool = Nothing
    /\ pc = "idle" => \A m \in Managers : Holds(m) => Tells(Last, m)
    /\ pc \in Looking => \A m \in Managers : Holds(m) => Tells(mem.previous, m)
    /\ pc = "after" => \A m \in Managers : Holds(m) =>
            \/ Tells(mem.previous, m)
            \/ Fresh(m) /\ Tools!Ownership(mem.previous, mem.by, mem.before) = "holycodex"
    /\ pc = "record" =>
        /\ \A m \in Managers : Holds(m) => Found(m) /\ (Tells(mem.previous, m) \/ Fresh(m))
        /\ Stands(mem.tool) \/ (Tools!Owned(mem.previous) /\ mem.tool.identity = mem.previous.identity)
    /\ pc = "rest" =>
        /\ journal = IF mem.tool = Nothing THEN mem.previous ELSE mem.tool
        /\ mem.previous = active
        /\ \A m \in Managers : Holds(m) => Tells(journal, m)
    /\ pc \in {"check", "remove", "verify"} =>
        /\ Tools!Target = Last
        /\ \A m \in Managers : Holds(m) => Tells(Tools!Target, m)
        /\ mem.op = "undo" => journal = mem.tool /\ active = mem.previous
    /\ pc \in {"remove", "verify"} =>
            Tools!Owned(Tools!Target) /\ Tools!Target.manager = mem.by.family
    /\ pc = "verify" => ~Holds(mem.by.family)

ToolsInv == ToolTypes /\ Inspects /\ Telling

LEMMA Spends ==
    ASSUME ToolTypes, NEW what \in {"runs", "faults", "fails", "moves"}, Tools!Spend(what)
    PROVE  budget' \in [{"runs", "faults", "fails", "moves"} -> Nat]
<1>1. budget' = [budget EXCEPT ![what] = @ - 1] /\ budget[what] > 0
  BY DEF Tools!Spend
<1>2. budget[what] - 1 \in Nat
  BY <1>1 DEF ToolTypes
<1> QED
  BY <1>1, <1>2 DEF ToolTypes

LEMMA Launched ==
    ASSUME Tools!Context7Assumption, NEW by \in Tools!Launchers
    PROVE  by.family \in Managers /\ (by.bun => by.family = Bun)
BY DEF Tools!Launchers, Tools!Context7Assumption

(* What an inspection sees is there; what it does not see is not there,    *)
(* unless the command has become wrong about it.                           *)
LEMMA Looks ==
    ASSUME Tools!Context7Assumption, ToolTypes, NEW by \in Tools!Launchers,
           NEW seen \in {Nothing, Tools!Inspected(by)}, Tools!Seen(by, seen)
    PROVE  /\ budget' \in [{"runs", "faults", "fails", "moves"} -> Nat]
           /\ blind \subseteq blind'
           /\ seen = Nothing => by.family \in blind' \/ package[by.family] = Nothing
           /\ seen \notin {Nothing, Foreign} =>
                /\ package[by.family] # Nothing /\ seen.identity = Tools!Identity(by.family)
                /\ seen.version = package[by.family].version
<1>1. by.family \in Managers
  BY Launched
<1>2. package[by.family] # Nothing => Tools!Inspected(by) # Nothing
  BY <1>1 DEF Tools!Inspected, Tools!Identity, Tools!Context7Assumption, ToolTypes
<1>3. CASE seen = Tools!Inspected(by) /\ UNCHANGED <<budget, blind>>
  BY <1>2, <1>3 DEF Tools!Inspected, ToolTypes
<1>4. CASE /\ package[by.family] # Nothing /\ seen = Nothing
           /\ Tools!Spend("faults") /\ blind' = blind \cup {by.family}
  BY <1>4, Spends
<1> QED
  BY <1>3, <1>4 DEF Tools!Seen

(* The world as it was looks as it did. *)
LEMMA SameWorld ==
    ASSUME UNCHANGED package
    PROVE  /\ mem'.by = mem.by => Tools!Identity(mem.by.family)' = Tools!Identity(mem.by.family)
           /\ \A m \in Managers : Tools!Identity(m)' = Tools!Identity(m)
BY DEF Tools!Identity

LEMMA Present ==
    ASSUME Tools!Context7Assumption
    PROVE  Nothing \in MaybeTool /\ Gone \notin MaybeTool /\ Nothing \notin ToolRecords
BY DEF Tools!Context7Assumption, MaybeTool, ToolRecords, Identities

LEMMA IsTool ==
    ASSUME NEW manager \in Managers, NEW version \in Nat, NEW executable \in Managers \cup {Foreign},
           NEW ownership \in {"holycodex", "user"}, NEW identity \in Identities
    PROVE  Tools!Tool(manager, version, executable, ownership, identity) \in ToolRecords
BY DEF ToolRecords, Tools!Tool

(* A step that leaves the world alone keeps the types. *)
LEMMA TypesKept ==
    ASSUME ToolTypes, UNCHANGED <<package, path, latest>>, MemFields \subseteq DOMAIN mem',
           budget' \in [{"runs", "faults", "fails", "moves"} -> Nat],
           pc' \in ToolSteps, pc' # "idle" => mem'.by \in Tools!Launchers,
           active' \in MaybeTool, journal' \in MaybeTool \cup {Gone},
           pc' = "rest" => journal' # Gone,
           mem'.previous \in MaybeTool, mem'.tool \in MaybeTool
    PROVE  ToolTypes'
BY DEF ToolTypes, Tools!Launchers, ToolSteps

(* A step that leaves the packages alone and forgets at most more of them. *)
LEMMA SameTells ==
    ASSUME UNCHANGED package, forgotten \subseteq forgotten'
    PROVE  /\ \A t, m : Tells(t, m)' <=> Tells(t, m)
           /\ \A m : Holds(m)' => Holds(m) /\ m \notin forgotten'
           /\ \A t : Stands(t) => Stands(t)'
BY DEF Tells, Holds, Stands, Tools!Owned, Tools!Identity

LEMMA TryPathStep ==
    ASSUME Tools!Context7Assumption, ToolsInv, Tools!TryPath
    PROVE  ToolsInv'
<1>1. /\ pc = "path" /\ UNCHANGED <<package, path, latest, active, journal, blind, forgotten>>
      /\ ToolTypes /\ Inspects
  BY DEF Tools!TryPath, ToolsInv, Tools!world, Tools!Records, Tools!Histories
<1>2. CASE /\ Tools!OnPath # Nothing /\ UNCHANGED budget
           /\ Tools!Go("record", [mem EXCEPT !.tool = Tools!PathTool])
  <2>1. PICK tool : tool = Tools!PathTool
    OBVIOUS
  <2>2. PICK n : n = [mem EXCEPT !.tool = tool]
    OBVIOUS
  <2>3. pc' = "record" /\ mem' = n
    BY <1>2, <2>1, <2>2 DEF Tools!Go
  <2>4. /\ MemFields \subseteq DOMAIN n /\ n.by = mem.by /\ n.previous = mem.previous
        /\ n.tool = tool
    BY <1>1, <2>2 DEF ToolTypes, MemFields
  <2>5. PICK where : where = Tools!OnPath
    OBVIOUS
  <2>6. /\ where \in Managers \cup {Foreign}
        /\ where \in Managers => package[where] # Nothing
    BY <1>1, <1>2, <2>5 DEF Tools!OnPath, ToolTypes, Tools!Context7Assumption
  <2>7. Tools!VersionOn(where) \in Nat /\ mem.by.family \in Managers
    BY <1>1, <2>6, Launched DEF ToolTypes, Tools!VersionOn
  <2>8. PICK kept \in BOOLEAN : kept <=> /\ Tools!Owned(mem.previous) /\ mem.previous.identity # Nothing
                                         /\ mem.previous.executable = where
    OBVIOUS
  <2>9. tool = [manager |-> mem.by.family, version |-> Tools!VersionOn(where), executable |-> where,
                ownership |-> IF kept THEN "holycodex" ELSE "user",
                identity |-> IF kept THEN mem.previous.identity ELSE Nothing]
    BY <2>1, <2>5, <2>8 DEF Tools!PathTool, Tools!Tool
  <2>10. kept => mem.previous.identity \in Identities
    BY <1>1, <2>8 DEF ToolTypes, MaybeTool, ToolRecords, Tools!Owned
  <2>11. tool \in ToolRecords
    <3>1. PICK ownership, identity :
            /\ ownership = (IF kept THEN "holycodex" ELSE "user")
            /\ identity = (IF kept THEN mem.previous.identity ELSE Nothing)
      OBVIOUS
    <3>2. ownership \in {"holycodex", "user"} /\ identity \in Identities
      BY <2>10, <3>1 DEF Identities
    <3>3. tool = Tools!Tool(mem.by.family, Tools!VersionOn(where), where, ownership, identity)
      BY <2>9, <3>1 DEF Tools!Tool
    <3> QED
      BY <2>6, <2>7, <3>2, <3>3, IsTool
  <2>12. ToolTypes'
    BY <1>1, <1>2, <2>3, <2>4, <2>11, TypesKept DEF ToolTypes, ToolSteps, MaybeTool
  <2>13. Inspects'
    BY <2>3 DEF Inspects
  <2>14. Telling'
    <3>1. Telling
      BY DEF ToolsInv
    <3>2. /\ Stands(active)' /\ Stands(journal)' /\ Stands(mem'.previous)
          /\ journal' = Gone /\ mem'.previous = active'
      BY <1>1, <2>3, <2>4, <3>1 DEF Telling, Looking, Stands
    <3>3. ASSUME NEW m \in Managers, Holds(m)'
          PROVE  Tells(mem.previous, m) /\ Tells(mem.previous, m)'
      <4>1. Tells(mem.previous, m)
        BY <1>1, <3>1, <3>3 DEF Telling, Looking, Holds
      <4> QED
        BY <1>1, <2>3, <2>4, <4>1 DEF Tells, Tools!Identity
    <3>4. Stands(tool) \/ (Tools!Owned(mem'.previous) /\ tool.identity = mem'.previous.identity)
      BY <2>3, <2>4, <2>8, <2>9 DEF Stands, Tools!Owned
    <3>5. ASSUME NEW m \in Managers, Holds(m)' PROVE Found(m)'
      <4>1. Tells(mem.previous, m) /\ Tells(mem.previous, m)'
        BY <3>3, <3>5
      <4>2. CASE Tools!Owned(tool) /\ tool.manager = m
        <5>1. kept
          BY <2>9, <4>2 DEF Tools!Owned
        <5>2. tool.identity = mem.previous.identity /\ tool \notin {Nothing, Gone}
          BY <2>9, <2>11, <5>1, Present DEF MaybeTool
        <5>3. Tells(tool, m)
          BY <4>1, <4>2, <5>2 DEF Tells
        <5> QED
          BY <1>1, <2>3, <2>4, <5>3, SameTells DEF Found, Tells, Tools!Owned, Tools!Identity
      <4>3. CASE ~(Tools!Owned(tool) /\ tool.manager = m)
        BY <2>3, <2>4, <4>1, <4>3 DEF Found, Tools!Owned
      <4> QED
        BY <4>2, <4>3
    <3>6. Stands(mem.tool)' \/ (Tools!Owned(mem'.previous) /\ mem'.tool.identity = mem'.previous.identity)
      BY <1>1, <2>3, <2>4, <3>4 DEF Stands
    <3> QED
      BY <1>1, <2>3, <3>1, <3>2, <3>3, <3>5, <3>6 DEF Telling, Looking, Stands, Tools!Owned
  <2> QED
    BY <2>12, <2>13, <2>14 DEF ToolsInv
<1>3. CASE Tools!Go("before", mem) /\ (UNCHANGED budget \/ Tools!Spend("faults"))
  <2>1. pc' = "before" /\ mem' = mem
    BY <1>3 DEF Tools!Go
  <2>2. budget' \in [{"runs", "faults", "fails", "moves"} -> Nat]
    BY <1>1, <1>3, Spends DEF ToolTypes
  <2>3. ToolTypes'
    BY <1>1, <2>1, <2>2, TypesKept DEF ToolTypes, ToolSteps
  <2>4. Inspects'
    BY <2>1 DEF Inspects
  <2>5. Telling'
    <3>1. Telling
      BY DEF ToolsInv
    <3> QED
      BY <1>1, <2>1, <3>1 DEF Telling, Looking, Stands, Holds, Tells, Tools!Owned, Tools!Identity
  <2> QED
    BY <2>3, <2>4, <2>5 DEF ToolsInv
<1> QED
  BY <1>2, <1>3 DEF Tools!TryPath

(* Giving up before anything has been added: the record stays as it is. *)
LEMMA NoneFound ==
    ASSUME Tools!Context7Assumption, ToolsInv, pc \in Looking \cup {"after"}, Tools!Unavailable,
           UNCHANGED <<active, journal, path, latest>>,
           package' = [m \in Managers |-> package'[m]],
           \A m \in Managers : package'[m] = Nothing \/ package'[m].version \in Nat,
           forgotten \subseteq forgotten', blind \subseteq blind',
           \A m \in Managers : Holds(m)' =>
                /\ package'[m] = package[m]
                /\ pc = "after" => Tells(mem.previous, m),
           budget' \in [{"runs", "faults", "fails", "moves"} -> Nat]
    PROVE  ToolsInv'
<1>1. ToolTypes /\ Telling /\ pc' = "record" /\ mem' = mem
  BY DEF ToolsInv, Tools!Unavailable, Tools!Go
<1>2. ToolTypes'
  BY <1>1 DEF ToolTypes, Looking, Tools!Launchers, ToolSteps
<1>3. Inspects'
  BY <1>1 DEF Inspects
<1>4. mem.tool = Nothing /\ journal = Gone /\ mem.previous = active
  BY <1>1 DEF Telling, Looking
<1>5. ASSUME NEW m \in Managers, Holds(m)'
      PROVE  Found(m)' /\ Tells(mem.previous, m)'
  <2>1. package'[m] = package[m] /\ Holds(m)
    BY <1>5 DEF Holds
  <2>2. Tells(mem.previous, m)
    BY <1>1, <1>5, <2>1 DEF Telling, Looking
  <2>3. Tells(mem.previous, m)'
    BY <1>1, <2>1, <2>2 DEF Tells, Tools!Identity, Tools!Owned
  <2> QED
    BY <1>1, <1>4, <2>3 DEF Found, Tools!Owned
<1>6. Stands(active)' /\ Stands(journal)' /\ Stands(mem.previous)' /\ Stands(mem.tool)'
  BY <1>1, <1>4 DEF Telling, Stands
<1>7. Telling'
  BY <1>1, <1>4, <1>5, <1>6 DEF Telling, Looking
<1> QED
  BY <1>2, <1>3, <1>7 DEF ToolsInv

LEMMA InspectBeforeStep ==
    ASSUME Tools!Context7Assumption, ToolsInv, Tools!InspectBefore
    PROVE  ToolsInv'
<1>1. /\ pc = "before" /\ UNCHANGED <<package, path, latest, active, journal, forgotten>>
      /\ ToolTypes /\ mem.by.family \in Managers /\ mem.by \in Tools!Launchers
  BY Launched DEF Tools!InspectBefore, ToolsInv, Tools!world, Tools!Records, ToolTypes
<1>2. PICK seen \in {Nothing, Tools!Inspected(mem.by)} :
        /\ Tools!Seen(mem.by, seen)
        /\ IF seen = Foreign THEN Tools!Unavailable
           ELSE Tools!Go("latest", [mem EXCEPT !.before = seen])
  BY DEF Tools!InspectBefore
<1>3. /\ budget' \in [{"runs", "faults", "fails", "moves"} -> Nat]
      /\ blind \subseteq blind'
      /\ seen = Nothing => mem.by.family \in blind' \/ package[mem.by.family] = Nothing
      /\ seen \notin {Nothing, Foreign} => seen.identity = Tools!Identity(mem.by.family)
  BY <1>1, <1>2, Looks
<1>4. CASE seen = Foreign /\ Tools!Unavailable
  <2>1. /\ package' = [m \in Managers |-> package'[m]]
        /\ \A m \in Managers : package'[m] = Nothing \/ package'[m].version \in Nat
    BY <1>1 DEF ToolTypes
  <2> QED
    BY <1>1, <1>3, <1>4, <2>1, NoneFound DEF Looking
<1>5. CASE seen # Foreign /\ Tools!Go("latest", [mem EXCEPT !.before = seen])
  <2>1. PICK n : n = [mem EXCEPT !.before = seen]
    OBVIOUS
  <2>2. pc' = "latest" /\ mem' = n
    BY <1>5, <2>1 DEF Tools!Go
  <2>3. /\ MemFields \subseteq DOMAIN n /\ n.by = mem.by /\ n.previous = mem.previous
        /\ n.tool = mem.tool /\ n.before = seen
    BY <1>1, <2>1 DEF ToolTypes, MemFields
  <2>4. ToolTypes'
    BY <1>1, <1>3, <2>2, <2>3, TypesKept DEF ToolTypes, ToolSteps
  <2>5. Inspects'
    BY <1>1, <1>3, <1>5, <2>2, <2>3, SameWorld DEF Inspects
  <2>6. Telling'
    <3>1. Telling
      BY DEF ToolsInv
    <3> QED
      BY <1>1, <2>2, <2>3, <3>1 DEF Telling, Looking, Stands, Holds, Tells, Tools!Owned, Tools!Identity
  <2> QED
    BY <2>4, <2>5, <2>6 DEF ToolsInv
<1> QED
  BY <1>2, <1>4, <1>5

LEMMA AskRegistryStep ==
    ASSUME Tools!Context7Assumption, ToolsInv, Tools!AskRegistry
    PROVE  ToolsInv'
<1>1. /\ pc = "latest" /\ UNCHANGED <<package, path, latest, active, journal, blind, forgotten>>
      /\ ToolTypes /\ Inspects /\ mem' = mem
  BY DEF Tools!AskRegistry, ToolsInv, Tools!world, Tools!Records, Tools!Histories, Tools!Go,
         Tools!Unavailable
<1>2. CASE Tools!Spend("faults") /\ Tools!Unavailable
  <2>1. /\ package' = [m \in Managers |-> package'[m]]
        /\ \A m \in Managers : package'[m] = Nothing \/ package'[m].version \in Nat
    BY <1>1 DEF ToolTypes
  <2>2. budget' \in [{"runs", "faults", "fails", "moves"} -> Nat]
    BY <1>1, <1>2, Spends
  <2> QED
    BY <1>1, <1>2, <2>1, <2>2, NoneFound DEF Looking
<1>3. CASE /\ pc' \in {"add", "after"} /\ UNCHANGED budget
           /\ pc' = "add" => Tools!Ownership(mem.previous, mem.by, mem.before) = "holycodex"
  <2>1. ToolTypes'
    BY <1>1, <1>3, TypesKept DEF ToolTypes, ToolSteps
  <2>2. Inspects'
    BY <1>1, <1>3, SameWorld DEF Inspects, Tools!Ownership, Tools!Owned
  <2>3. Telling'
    <3>1. Telling
      BY DEF ToolsInv
    <3> QED
      BY <1>1, <1>3, <3>1 DEF Telling, Looking, Stands, Holds, Tells, Tools!Owned, Tools!Identity
  <2> QED
    BY <2>1, <2>2, <2>3 DEF ToolsInv
<1>4. Tools!AskRegistry
  OBVIOUS
<1> QED
  BY <1>2, <1>3, <1>4 DEF Tools!AskRegistry, Tools!Go

LEMMA AddStep ==
    ASSUME Tools!Context7Assumption, ToolsInv, Tools!Add
    PROVE  ToolsInv'
<1>1. /\ pc = "add" /\ UNCHANGED <<path, latest, active, journal, blind>>
      /\ ToolTypes /\ Inspects /\ Telling /\ mem.by \in Tools!Launchers
      /\ mem.by.family \in Managers
  BY Launched DEF Tools!Add, ToolsInv, Tools!Records, ToolTypes
<1>2. /\ package' \in {package, Tools!Installed(mem.by.family)}
      /\ forgotten \subseteq forgotten'
  BY DEF Tools!Add
<1>3. /\ package' = [m \in Managers |-> package'[m]]
      /\ \A m \in Managers : package'[m] = Nothing \/ package'[m].version \in Nat
      /\ \A m \in Managers : m # mem.by.family => package'[m] = package[m]
  BY <1>1, <1>2 DEF ToolTypes, Tools!Installed
<1>4. CASE /\ Tools!Go("after", [mem EXCEPT !.added = TRUE]) /\ UNCHANGED <<budget, forgotten>>
  <2>1. PICK n : n = [mem EXCEPT !.added = TRUE]
    OBVIOUS
  <2>2. pc' = "after" /\ mem' = n
    BY <1>4, <2>1 DEF Tools!Go
  <2>3. /\ MemFields \subseteq DOMAIN n /\ n.by = mem.by /\ n.previous = mem.previous
        /\ n.tool = mem.tool /\ n.before = mem.before /\ n.added
    BY <1>1, <2>1 DEF ToolTypes, MemFields
  <2>4. ToolTypes'
    BY <1>1, <1>3, <1>4, <2>2, <2>3 DEF ToolTypes, Tools!Launchers, ToolSteps
  <2>5. Inspects'
    BY <2>2 DEF Inspects
  <2>6. Tools!Ownership(mem.previous, mem.by, mem.before)' = "holycodex"
    BY <1>1, <2>2, <2>3 DEF Inspects, Tools!Ownership, Tools!Owned
  <2>7. ASSUME NEW m \in Managers, Holds(m)', m # mem.by.family PROVE Tells(mem.previous, m)'
    <3>1. package'[m] = package[m] /\ Holds(m)
      BY <1>3, <1>4, <2>7 DEF Holds
    <3>2. Tells(mem.previous, m)
      BY <1>1, <3>1 DEF Telling, Looking
    <3> QED
      BY <2>2, <2>3, <3>1, <3>2 DEF Tells, Tools!Identity, Tools!Owned
  <2>8. Stands(active)' /\ Stands(journal)' /\ Stands(mem.previous)'
    BY <1>1, <1>4, <2>2, <2>3 DEF Telling, Stands
  <2>9. journal' = Gone /\ mem'.previous = active' /\ mem'.tool = Nothing
    BY <1>1, <2>2, <2>3 DEF Telling, Looking
  <2>10. Telling'
    BY <2>2, <2>3, <2>6, <2>7, <2>8, <2>9 DEF Telling, Looking, Fresh
  <2> QED
    BY <2>4, <2>5, <2>10 DEF ToolsInv
<1>5. CASE /\ Tools!Spend("faults") /\ Tools!Unavailable
           /\ \/ package' = package
              \/ forgotten' = forgotten \cup {mem.by.family}
  <2>1. budget' \in [{"runs", "faults", "fails", "moves"} -> Nat]
    BY <1>1, <1>5, Spends
  <2>2. \A m \in Managers : Holds(m)' => package'[m] = package[m]
    BY <1>3, <1>5 DEF Holds
  <2> QED
    BY <1>1, <1>2, <1>3, <1>5, <2>1, <2>2, NoneFound DEF Looking
<1> QED
  BY <1>4, <1>5 DEF Tools!Add

LEMMA InspectAfterStep ==
    ASSUME Tools!Context7Assumption, ToolsInv, Tools!InspectAfter
    PROVE  ToolsInv'
<1>1. /\ pc = "after" /\ UNCHANGED <<package, path, latest, active, journal>>
      /\ ToolTypes /\ Telling /\ mem.by.family \in Managers /\ mem.by \in Tools!Launchers
  BY Launched DEF Tools!InspectAfter, ToolsInv, Tools!world, Tools!Records, ToolTypes
<1>2. PICK seen \in {Nothing, Tools!Inspected(mem.by)} :
        /\ Tools!Seen(mem.by, seen)
        /\ IF seen \in {Nothing, Foreign} \/ seen.version # latest
             THEN Tools!Unavailable /\ forgotten' = forgotten \cup Tools!Unrecorded
             ELSE /\ Tools!Go("record", [mem EXCEPT !.tool =
                        Tools!Tool(mem.by.family, seen.version, mem.by.family,
                             Tools!Ownership(mem.previous, mem.by, mem.before), seen.identity)])
                  /\ UNCHANGED forgotten
  BY DEF Tools!InspectAfter
<1>3. /\ budget' \in [{"runs", "faults", "fails", "moves"} -> Nat]
      /\ blind \subseteq blind'
      /\ seen \notin {Nothing, Foreign} =>
            /\ package[mem.by.family] # Nothing /\ seen.identity = Tools!Identity(mem.by.family)
            /\ seen.version = package[mem.by.family].version
  BY <1>1, <1>2, Looks
<1>4. CASE Tools!Unavailable /\ forgotten' = forgotten \cup Tools!Unrecorded
  <2>1. /\ package' = [m \in Managers |-> package'[m]]
        /\ \A m \in Managers : package'[m] = Nothing \/ package'[m].version \in Nat
    BY <1>1 DEF ToolTypes
  <2>2. ASSUME NEW m \in Managers, Holds(m)' PROVE Tells(mem.previous, m)
    <3>1. Holds(m) /\ m \notin Tools!Unrecorded
      BY <1>1, <1>4, <2>2 DEF Holds
    <3>2. ~Fresh(m)
      BY <3>1 DEF Fresh, Tools!Unrecorded
    <3> QED
      BY <1>1, <3>1, <3>2 DEF Telling
  <2> QED
    BY <1>1, <1>3, <1>4, <2>1, <2>2, NoneFound
<1>5. CASE /\ seen \notin {Nothing, Foreign} /\ UNCHANGED forgotten
           /\ Tools!Go("record", [mem EXCEPT !.tool =
                        Tools!Tool(mem.by.family, seen.version, mem.by.family,
                             Tools!Ownership(mem.previous, mem.by, mem.before), seen.identity)])
  <2>1. PICK ownership : ownership = Tools!Ownership(mem.previous, mem.by, mem.before)
    OBVIOUS
  <2>2. PICK tool : tool = Tools!Tool(mem.by.family, seen.version, mem.by.family, ownership, seen.identity)
    OBVIOUS
  <2>3. PICK n : n = [mem EXCEPT !.tool = tool]
    OBVIOUS
  <2>4. pc' = "record" /\ mem' = n
    BY <1>5, <2>1, <2>2, <2>3 DEF Tools!Go
  <2>5. /\ MemFields \subseteq DOMAIN n /\ n.by = mem.by /\ n.previous = mem.previous
        /\ n.tool = tool /\ n.added = mem.added
    BY <1>1, <2>3 DEF ToolTypes, MemFields
  <2>6. seen.version \in Nat /\ seen.identity = <<mem.by.family, seen.version>>
    BY <1>1, <1>3, <1>5 DEF ToolTypes, Tools!Identity
  <2>7. ownership \in {"holycodex", "user"}
    BY <2>1 DEF Tools!Ownership
  <2>8. tool \in ToolRecords
    BY <1>1, <2>2, <2>6, <2>7, IsTool DEF Identities
  <2>9. /\ tool.manager = mem.by.family /\ tool.identity = seen.identity
        /\ tool.ownership = ownership /\ tool \notin {Nothing, Gone}
    BY <2>2, <2>8, Present DEF Tools!Tool, MaybeTool
  <2>10. ToolTypes' /\ Inspects'
    BY <1>1, <1>3, <2>4, <2>5, <2>8, TypesKept DEF ToolTypes, ToolSteps, MaybeTool, Inspects
  <2>11. ASSUME NEW m \in Managers, Holds(m)'
         PROVE  Found(m)' /\ (Tells(mem.previous, m) \/ Fresh(m))'
    <3>1. Holds(m)
      BY <1>1, <1>5, <2>11 DEF Holds
    <3>2. \/ Tells(mem.previous, m)
          \/ Fresh(m) /\ ownership = "holycodex"
      BY <1>1, <2>1, <3>1 DEF Telling
    <3>3. Tools!Owned(tool) /\ tool.manager = m => Tells(tool, m)
      BY <1>3, <1>5, <2>9 DEF Tells
    <3>4. (Tells(mem.previous, m) \/ Fresh(m))'
      BY <1>1, <2>4, <2>5, <3>2 DEF Tells, Fresh, Tools!Owned, Tools!Identity
    <3>5. Tools!Owned(tool) <=> ownership = "holycodex"
      BY <2>9 DEF Tools!Owned
    <3>6. Tells(tool, m) \/ (Tells(mem.previous, m) /\ ~(Tools!Owned(tool) /\ tool.manager = m))
      BY <2>9, <3>2, <3>3, <3>5 DEF Fresh
    <3>7. Found(m)'
      BY <1>1, <2>4, <2>5, <3>6 DEF Found, Tells, Tools!Owned, Tools!Identity
    <3> QED
      BY <3>4, <3>7
  <2>12. Stands(mem.tool)'
    BY <2>4, <2>5, <2>6, <2>9 DEF Stands
  <2>13. Stands(active)' /\ Stands(journal)' /\ Stands(mem.previous)'
    BY <1>1, <1>5, <2>4, <2>5 DEF Telling, Stands
  <2>14. journal' = Gone /\ mem'.previous = active'
    BY <1>1, <2>4, <2>5 DEF Telling, Looking
  <2>15. Telling'
    BY <2>4, <2>11, <2>12, <2>13, <2>14 DEF Telling, Looking
  <2> QED
    BY <2>10, <2>15 DEF ToolsInv
<1> QED
  BY <1>2, <1>4, <1>5

LEMMA RecordStep ==
    ASSUME Tools!Context7Assumption, ToolsInv, Tools!Record
    PROVE  ToolsInv'
<1>1. /\ pc = "record" /\ pc' = "rest" /\ mem' = mem
      /\ UNCHANGED <<package, path, latest, active, budget, blind>>
      /\ journal' = IF mem.tool = Nothing THEN mem.previous ELSE mem.tool
      /\ forgotten' = forgotten \cup Tools!Lets(mem.previous, journal')
      /\ ToolTypes
  BY DEF Tools!Record, ToolsInv, Tools!world, Tools!Go
<1>2. journal' \in MaybeTool
  BY <1>1 DEF ToolTypes
<1>3. ToolTypes' /\ Inspects'
  BY <1>1, <1>2, TypesKept, Present DEF ToolTypes, ToolSteps, Inspects
<1>4. Telling'
  <2>1. Telling /\ forgotten \subseteq forgotten'
    BY <1>1 DEF ToolsInv
  <2>2. Stands(active)' /\ Stands(mem.previous)'
    BY <1>1, <2>1 DEF Telling, Stands
  <2>3. Tools!Owned(mem.previous) =>
            \/ journal' = mem.previous
            \/ Tools!Owned(journal') /\ journal'.manager = mem.previous.manager
            \/ mem.previous.manager \in forgotten'
    BY <1>1 DEF Tools!Lets
  <2>4. Stands(journal)'
    <3>1. CASE mem.tool = Nothing
      BY <1>1, <2>2, <3>1 DEF Stands
    <3>2. CASE mem.tool # Nothing /\ Stands(mem.tool)
      BY <1>1, <2>1, <3>2 DEF Stands
    <3>3. CASE /\ mem.tool # Nothing /\ Tools!Owned(mem.previous)
               /\ mem.tool.identity = mem.previous.identity
      <4>1. mem.previous \notin {Nothing, Gone} /\ journal' = mem.tool
        BY <1>1, <3>3, Present DEF Tools!Owned, ToolTypes
      <4>2. \/ journal'.identity[1] = mem.previous.manager
            \/ journal'.identity[1] \in forgotten
        BY <2>1, <3>3, <4>1 DEF Telling, Stands
      <4> QED
        BY <2>1, <2>3, <3>3, <4>2 DEF Stands
    <3> QED
      BY <1>1, <2>1, <3>1, <3>2, <3>3 DEF Telling
  <2>5. ASSUME NEW m \in Managers, Holds(m)' PROVE Tells(journal, m)'
    <3>1. Holds(m) /\ m \notin forgotten'
      BY <1>1, <2>1, <2>5 DEF Holds
    <3>2. Found(m)
      BY <1>1, <2>1, <3>1 DEF Telling
    <3>3. CASE Tells(mem.tool, m)
      <4>1. journal' = mem.tool
        BY <1>1, <3>3 DEF Tells
      <4> QED
        BY <1>1, <3>3, <4>1 DEF Tells, Tools!Owned, Tools!Identity
    <3>4. CASE Tells(mem.previous, m) /\ ~(Tools!Owned(mem.tool) /\ mem.tool.manager = m)
      <4>1. journal' = mem.previous
        BY <1>1, <2>3, <3>1, <3>4 DEF Tells
      <4> QED
        BY <1>1, <3>4, <4>1 DEF Tells, Tools!Owned, Tools!Identity
    <3> QED
      BY <3>2, <3>3, <3>4 DEF Found
  <2> QED
    BY <1>1, <2>1, <2>2, <2>4, <2>5 DEF Telling, Looking
<1> QED
  BY <1>3, <1>4 DEF ToolsInv

LEMMA PublishStep ==
    ASSUME Tools!Context7Assumption, ToolsInv, Tools!Publish
    PROVE  ToolsInv'
<1>1. PICK n : n = Tools!Idle
  OBVIOUS
<1>2. /\ pc = "rest" /\ pc' = "idle" /\ mem' = n /\ active' = journal /\ journal' = Gone
      /\ UNCHANGED <<package, path, latest, budget, blind, forgotten>> /\ ToolTypes
  BY <1>1 DEF Tools!Publish, Tools!Go, Tools!world, Tools!Histories, ToolsInv
<1>3. MemFields \subseteq DOMAIN n /\ n.previous = Nothing /\ n.tool = Nothing
  BY <1>1 DEF Tools!Idle, MemFields
<1>4. ToolTypes' /\ Inspects'
  BY <1>2, <1>3, TypesKept, Present DEF ToolTypes, ToolSteps, Inspects
<1>5. Telling'
  <2>1. Telling
    BY DEF ToolsInv
  <2> QED
    BY <1>2, <1>3, <2>1 DEF Telling, Looking, Stands, Holds, Last, Tells, Tools!Owned, Tools!Identity
<1> QED
  BY <1>4, <1>5 DEF ToolsInv

LEMMA RestFailsStep ==
    ASSUME Tools!Context7Assumption, ToolsInv, Tools!RestFails
    PROVE  ToolsInv'
<1>1. /\ pc = "rest" /\ UNCHANGED <<package, path, latest, active, blind>> /\ ToolTypes
      /\ Telling /\ Tools!Spend("fails")
  BY DEF Tools!RestFails, Tools!world, ToolsInv
<1>2. budget' \in [{"runs", "faults", "fails", "moves"} -> Nat]
  BY <1>1, Spends
<1>3. CASE /\ Tools!Owned(mem.tool) /\ ~Tools!Owned(mem.previous)
           /\ Tools!Go("check", [mem EXCEPT !.op = "undo"]) /\ UNCHANGED <<journal, forgotten>>
  <2>1. PICK n : n = [mem EXCEPT !.op = "undo"]
    OBVIOUS
  <2>2. pc' = "check" /\ mem' = n
    BY <1>3, <2>1 DEF Tools!Go
  <2>3. /\ MemFields \subseteq DOMAIN n /\ n.by = mem.by /\ n.previous = mem.previous
        /\ n.tool = mem.tool /\ n.op = "undo"
    BY <1>1, <2>1 DEF ToolTypes, MemFields
  <2>4. ToolTypes' /\ Inspects'
    BY <1>1, <1>2, <1>3, <2>2, <2>3, TypesKept DEF ToolTypes, ToolSteps, Inspects
  <2>5. mem.tool # Nothing /\ Tools!Target' = mem.tool
    BY <1>3, <2>2, <2>3 DEF Tools!Owned, Tools!Target
  <2>6. journal = mem.tool /\ active = mem.previous /\ mem.tool # Gone
    BY <1>1, <2>5, Present DEF Telling, ToolTypes
  <2>7. Last' = mem.tool
    BY <1>3, <2>6 DEF Last
  <2>8. ASSUME NEW m \in Managers, Holds(m)' PROVE Tells(Tools!Target, m)'
    <3>1. Tells(mem.tool, m)
      BY <1>1, <1>3, <2>6, <2>8 DEF Telling, Holds
    <3> QED
      BY <1>1, <2>5, <3>1 DEF Tells, Tools!Owned, Tools!Identity
  <2>9. Stands(active)' /\ Stands(journal)' /\ Stands(mem.previous)'
    BY <1>1, <1>3, <2>2, <2>3 DEF Telling, Stands
  <2>10. Telling'
    BY <1>1, <1>3, <2>2, <2>3, <2>5, <2>6, <2>7, <2>8, <2>9 DEF Telling, Looking
  <2> QED
    BY <2>4, <2>10 DEF ToolsInv
<1>4. CASE /\ ~(Tools!Owned(mem.tool) /\ ~Tools!Owned(mem.previous)) /\ journal' = Gone
           /\ forgotten' = forgotten \cup
                {m \in Managers : /\ Tools!Owned(mem.previous) /\ Tools!Owned(mem.tool)
                                  /\ m = mem.tool.manager
                                  /\ mem.tool.identity # mem.previous.identity}
           /\ Tools!Go("idle", Tools!Idle)
  <2>1. PICK n : n = Tools!Idle
    OBVIOUS
  <2>2. pc' = "idle" /\ mem' = n
    BY <1>4, <2>1 DEF Tools!Go
  <2>3. MemFields \subseteq DOMAIN n /\ n.previous = Nothing /\ n.tool = Nothing
    BY <2>1 DEF Tools!Idle, MemFields
  <2>4. ToolTypes' /\ Inspects'
    BY <1>1, <1>2, <1>4, <2>2, <2>3, TypesKept, Present DEF ToolTypes, ToolSteps, Inspects
  <2>5. forgotten \subseteq forgotten'
    BY <1>4
  <2>6. ASSUME NEW m \in Managers, Holds(m)' PROVE Tells(active, m)
    <3>1. Holds(m) /\ m \notin forgotten'
      BY <1>1, <2>5, <2>6 DEF Holds
    <3>2. mem.previous = active /\ Tells(journal, m)
      BY <1>1, <3>1 DEF Telling
    <3>3. CASE mem.tool = Nothing
      BY <1>1, <3>2, <3>3 DEF Telling
    <3>4. CASE mem.tool # Nothing
      <4>1. Tells(mem.tool, m)
        BY <1>1, <3>2, <3>4 DEF Telling
      <4>2. Tools!Owned(mem.previous) /\ mem.tool.identity = mem.previous.identity
        BY <1>4, <2>6, <3>1, <4>1 DEF Tells
      <4>3. mem.previous \notin {Nothing, Gone}
        BY <1>1, <4>2, Present DEF Tools!Owned, ToolTypes
      <4>4. mem.previous.identity[1] = m /\ m \notin forgotten
        BY <3>1, <4>1, <4>2 DEF Tells, Tools!Identity, Holds
      <4>5. mem.previous.manager = m
        BY <1>1, <4>2, <4>3, <4>4 DEF Telling, Stands
      <4> QED
        BY <3>2, <4>1, <4>2, <4>3, <4>5 DEF Tells
    <3> QED
      BY <3>3, <3>4
  <2>7. Stands(active)' /\ Stands(journal)' /\ Stands(mem.previous)'
    BY <1>1, <1>4, <2>2, <2>3, <2>5 DEF Telling, Stands
  <2>8. \A m \in Managers : Holds(m)' => Tells(Last, m)'
    BY <1>1, <1>4, <2>6 DEF Last, Tells, Tools!Owned, Tools!Identity
  <2>9. Telling'
    BY <2>2, <2>7, <2>8 DEF Telling, Looking
  <2> QED
    BY <2>4, <2>9 DEF ToolsInv
<1> QED
  BY <1>3, <1>4 DEF Tools!RestFails

(* A removal that lets go of a package lets its record go too. *)
LEMMA NotRemovedStep ==
    ASSUME Tools!Context7Assumption, ToolsInv, pc = "check", Tools!NotRemoved,
           UNCHANGED <<package, path, latest>>,
           budget' \in [{"runs", "faults", "fails", "moves"} -> Nat]
    PROVE  ToolsInv'
<1>1. ToolTypes /\ mem.by \in Tools!Launchers
  BY DEF ToolsInv, ToolTypes
<1>2. PICK n : n = IF mem.op = "reconcile" THEN [Tools!Idle EXCEPT !.by = mem.by] ELSE Tools!Idle
  OBVIOUS
<1>3. /\ MemFields \subseteq DOMAIN n /\ n.previous = Nothing /\ n.tool = Nothing
      /\ mem.op = "reconcile" => n.by = mem.by
  BY <1>2 DEF Tools!Idle, MemFields
<1>4. CASE mem.op = "undo"
  <2>1. /\ pc' = "idle" /\ UNCHANGED <<active, journal, forgotten>> /\ mem' = n
    BY <1>2, <1>4 DEF Tools!NotRemoved, Tools!Go
  <2>2. ToolTypes' /\ Inspects'
    BY <1>1, <1>3, <2>1, TypesKept, Present DEF ToolTypes, ToolSteps, Inspects
  <2>3. Telling /\ Tools!Target = Last /\ Last' = Last
    BY <2>1 DEF ToolsInv, Telling, Last
  <2>4. ASSUME NEW m \in Managers, Holds(m)' PROVE Tells(Last, m)'
    BY <2>1, <2>3, <2>4, SameTells DEF Telling
  <2>5. Stands(active)' /\ Stands(journal)' /\ Stands(mem.previous)'
    BY <1>3, <2>1, <2>3 DEF Telling, Stands
  <2>6. Telling'
    BY <2>1, <2>4, <2>5 DEF Telling, Looking
  <2> QED
    BY <2>2, <2>6 DEF ToolsInv
<1>5. CASE mem.op # "undo"
  <2>1. /\ pc' = (IF mem.op = "reconcile" THEN "path" ELSE "idle") /\ mem' = n
        /\ active' = Nothing /\ journal' = Gone
        /\ forgotten' = forgotten \cup Tools!Lets(Tools!Target, Nothing)
    BY <1>2, <1>5 DEF Tools!NotRemoved, Tools!Go
  <2>2. ToolTypes' /\ Inspects'
    BY <1>1, <1>3, <2>1, TypesKept, Present DEF ToolTypes, ToolSteps, Inspects
  <2>3. Telling'
    <3>1. Telling
      BY DEF ToolsInv
    <3>2. ASSUME NEW m \in Managers, Holds(m)' PROVE FALSE
      <4>1. Holds(m)
        BY <2>1, <3>2 DEF Holds
      <4>2. Tells(Tools!Target, m)
        BY <3>1, <4>1 DEF Telling
      <4>3. m \in Tools!Lets(Tools!Target, Nothing)
        BY <4>2 DEF Tells, Tools!Lets, Tools!Owned
      <4> QED
        BY <2>1, <3>2, <4>3 DEF Holds
    <3> QED
      BY <1>3, <2>1, <3>2 DEF Telling, Looking, Stands
  <2> QED
    BY <2>2, <2>3 DEF ToolsInv
<1> QED
  BY <1>4, <1>5

LEMMA RemovedStep ==
    ASSUME Tools!Context7Assumption, ToolsInv, pc = "verify", Tools!Removed,
           UNCHANGED <<package, path, latest>>,
           budget' \in [{"runs", "faults", "fails", "moves"} -> Nat]
    PROVE  ToolsInv'
<1>1. ToolTypes /\ mem.by \in Tools!Launchers
  BY DEF ToolsInv, ToolTypes
<1>2. PICK n : n = IF mem.op = "reconcile" THEN [Tools!Idle EXCEPT !.by = mem.by] ELSE Tools!Idle
  OBVIOUS
<1>3. /\ MemFields \subseteq DOMAIN n /\ n.previous = Nothing /\ n.tool = Nothing
      /\ mem.op = "reconcile" => n.by = mem.by
  BY <1>2 DEF Tools!Idle, MemFields
<1>4. /\ pc' = (IF mem.op = "reconcile" THEN "path" ELSE "idle") /\ mem' = n
      /\ (mem.op = "undo" /\ UNCHANGED active) \/ active' = Nothing
      /\ journal' = Gone /\ UNCHANGED forgotten
  BY <1>2 DEF Tools!Removed, Tools!Go
<1>5. ToolTypes' /\ Inspects'
  BY <1>1, <1>3, <1>4, TypesKept, Present DEF ToolTypes, ToolSteps, Inspects
<1>6. Telling'
  <2>1. Telling
    BY DEF ToolsInv
  <2>2. ASSUME NEW m \in Managers, Holds(m)' PROVE FALSE
    <3>1. Holds(m) /\ m # mem.by.family
      BY <1>4, <2>1, <2>2 DEF Holds, Telling
    <3> QED
      BY <2>1, <3>1 DEF Telling, Tells
  <2>3. CASE mem.op = "undo"
    BY <1>3, <1>4, <2>1, <2>2, <2>3 DEF Telling, Looking, Stands, Last
  <2>4. CASE active' = Nothing /\ mem.op # "undo"
    BY <1>3, <1>4, <2>2, <2>4 DEF Telling, Looking, Stands
  <2> QED
    BY <1>4, <2>3, <2>4 DEF Tools!Removed
<1> QED
  BY <1>5, <1>6 DEF ToolsInv

LEMMA RemovalFailsStep ==
    ASSUME Tools!Context7Assumption, ToolsInv, pc \in {"remove", "verify"}, Tools!RemovalFails,
           package' = [m \in Managers |-> package'[m]],
           \A m \in Managers : package'[m] \in {package[m], Nothing},
           UNCHANGED <<path, latest>>,
           budget' \in [{"runs", "faults", "fails", "moves"} -> Nat]
    PROVE  ToolsInv'
<1>1. ToolTypes
  BY DEF ToolsInv
<1>2. PICK n : n = Tools!Idle
  OBVIOUS
<1>3. MemFields \subseteq DOMAIN n /\ n.previous = Nothing /\ n.tool = Nothing
  BY <1>2 DEF Tools!Idle, MemFields
<1>4. /\ pc' = "idle" /\ mem' = n /\ journal' = Tools!Target /\ UNCHANGED <<active, forgotten>>
  BY <1>2 DEF Tools!RemovalFails, Tools!Go
<1>5. Tools!Target \in MaybeTool
  BY <1>1 DEF Tools!Target, ToolTypes
<1>6. ToolTypes'
  BY <1>1, <1>3, <1>4, <1>5, Present DEF ToolTypes, ToolSteps
<1>7. Inspects'
  BY <1>4 DEF Inspects
<1>8. Telling'
  <2>1. Telling
    BY DEF ToolsInv
  <2>2. Last' = Tools!Target
    BY <1>4, <1>5, Present DEF Last
  <2>3. ASSUME NEW m \in Managers, Holds(m)' PROVE Tells(Last, m)'
    <3>1. package'[m] = package[m] /\ Holds(m)
      BY <1>4, <2>3 DEF Holds
    <3>2. Tells(Tools!Target, m)
      BY <2>1, <3>1 DEF Telling
    <3> QED
      BY <2>2, <3>1, <3>2 DEF Tells, Tools!Owned, Tools!Identity
  <2>4. Stands(Tools!Target)
    BY <2>1 DEF Telling, Stands, Tools!Target
  <2>5. Stands(active)' /\ Stands(journal)' /\ Stands(mem.previous)'
    BY <1>3, <1>4, <2>1, <2>4 DEF Telling, Stands
  <2> QED
    BY <1>4, <2>3, <2>5 DEF Telling, Looking
<1> QED
  BY <1>6, <1>7, <1>8 DEF ToolsInv

LEMMA CheckOwnedStep ==
    ASSUME Tools!Context7Assumption, ToolsInv, Tools!CheckOwned
    PROVE  ToolsInv'
<1>1. /\ pc = "check" /\ UNCHANGED <<package, path, latest>> /\ ToolTypes
      /\ mem.by.family \in Managers /\ mem.by \in Tools!Launchers
  BY Launched DEF Tools!CheckOwned, Tools!world, ToolsInv, ToolTypes
<1>2. CASE Tools!NotRemoved /\ UNCHANGED <<budget, blind>>
  BY <1>1, <1>2, NotRemovedStep DEF ToolTypes
<1>3. ASSUME NEW seen \in {Nothing, Tools!Inspected(mem.by)},
             Tools!Seen(mem.by, seen), Tools!NotRemoved
      PROVE  ToolsInv'
  BY <1>1, <1>3, Looks, NotRemovedStep
<1>4. ASSUME NEW seen \in {Nothing, Tools!Inspected(mem.by)},
             Tools!Seen(mem.by, seen), Tools!Fits(seen),
             Tools!Owned(Tools!Target), Tools!Target.manager = mem.by.family,
             Tools!Go("remove", mem), UNCHANGED <<active, journal, forgotten>>
      PROVE  ToolsInv'
  <2>1. pc' = "remove" /\ mem' = mem
    BY <1>4 DEF Tools!Go
  <2>2. /\ budget' \in [{"runs", "faults", "fails", "moves"} -> Nat]
        /\ seen \notin {Nothing, Foreign} => seen.identity = Tools!Identity(mem.by.family)
    BY <1>1, <1>4, Looks
  <2>3. ToolTypes'
    BY <1>1, <1>4, <2>1, <2>2, TypesKept DEF ToolTypes, ToolSteps
  <2>4. Tools!Target' = Tools!Target /\ (Tools!Owned(Tools!Target)' <=> Tools!Owned(Tools!Target))
    BY <2>1 DEF Tools!Target, Tools!Owned
  <2>5. Tools!Target.identity = Tools!Identity(mem.by.family)
    BY <1>4, <2>2 DEF Tools!Fits
  <2>6. Inspects'
    BY <1>1, <1>4, <2>1, <2>4, <2>5, SameWorld DEF Inspects
  <2>7. Telling /\ Last' = Last
    BY <1>4 DEF ToolsInv, Last
  <2>8. ASSUME NEW m \in Managers, Holds(m)' PROVE Tells(Tools!Target, m)'
    <3>1. Tells(Tools!Target, m)
      BY <1>1, <1>4, <2>7, <2>8 DEF Telling, Holds
    <3> QED
      BY <1>1, <2>4, <3>1 DEF Tells, Tools!Owned, Tools!Identity
  <2>9. Stands(active)' /\ Stands(journal)' /\ Stands(mem.previous)'
    BY <1>4, <2>1, <2>7 DEF Telling, Stands
  <2>10. Telling'
    BY <1>1, <1>4, <2>1, <2>4, <2>7, <2>8, <2>9 DEF Telling, Looking
  <2> QED
    BY <2>3, <2>6, <2>10 DEF ToolsInv
<1>5. \/ Tools!NotRemoved /\ UNCHANGED <<budget, blind>>
      \/ \E seen \in {Nothing, Tools!Inspected(mem.by)} :
            /\ Tools!Seen(mem.by, seen)
            /\ \/ Tools!NotRemoved
               \/ /\ Tools!Fits(seen) /\ Tools!Owned(Tools!Target)
                  /\ Tools!Target.manager = mem.by.family
                  /\ Tools!Go("remove", mem) /\ UNCHANGED <<active, journal, forgotten>>
  BY DEF Tools!CheckOwned
<1> QED
  BY <1>2, <1>3, <1>4, <1>5

LEMMA RemovePackageStep ==
    ASSUME Tools!Context7Assumption, ToolsInv, Tools!RemovePackage
    PROVE  ToolsInv'
<1>1. /\ pc = "remove" /\ UNCHANGED <<path, latest, blind>> /\ ToolTypes /\ Telling
      /\ mem.by.family \in Managers /\ mem.by \in Tools!Launchers
      /\ package' \in {package, Tools!Uninstalled(mem.by.family)}
  BY Launched DEF Tools!RemovePackage, ToolsInv, ToolTypes
<1>2. /\ package' = [m \in Managers |-> package'[m]]
      /\ \A m \in Managers : package'[m] \in {package[m], Nothing}
  BY <1>1 DEF ToolTypes, Tools!Uninstalled
<1>3. CASE /\ Tools!Go("verify", mem) /\ UNCHANGED <<active, journal, forgotten, budget>>
           /\ package' = Tools!Uninstalled(mem.by.family)
  <2>1. pc' = "verify" /\ mem' = mem
    BY <1>3 DEF Tools!Go
  <2>2. ToolTypes'
    BY <1>1, <1>2, <1>3, <2>1 DEF ToolTypes, Tools!Launchers, ToolSteps
  <2>3. Inspects'
    BY <2>1 DEF Inspects
  <2>4. /\ Tools!Target' = Tools!Target /\ (Tools!Owned(Tools!Target)' <=> Tools!Owned(Tools!Target))
        /\ Last' = Last
    BY <1>3, <2>1 DEF Tools!Target, Tools!Owned, Last
  <2>5. ~Holds(mem.by.family)'
    BY <1>1, <1>3, <2>1 DEF Holds, Tools!Uninstalled, ToolTypes
  <2>6. ASSUME NEW m \in Managers, Holds(m)' PROVE Tells(Tools!Target, m)'
    <3>1. package'[m] = package[m] /\ Holds(m)
      BY <1>2, <1>3, <2>6 DEF Holds
    <3>2. Tells(Tools!Target, m)
      BY <1>1, <3>1 DEF Telling
    <3> QED
      BY <2>4, <3>1, <3>2 DEF Tells, Tools!Owned, Tools!Identity
  <2>7. Stands(active)' /\ Stands(journal)' /\ Stands(mem.previous)'
    BY <1>1, <1>3, <2>1 DEF Telling, Stands
  <2>8. Telling'
    BY <1>1, <1>3, <2>1, <2>4, <2>5, <2>6, <2>7 DEF Telling, Looking
  <2> QED
    BY <2>2, <2>3, <2>8 DEF ToolsInv
<1>4. CASE Tools!Spend("faults") /\ Tools!RemovalFails
  BY <1>1, <1>2, <1>4, Spends, RemovalFailsStep
<1> QED
  BY <1>3, <1>4 DEF Tools!RemovePackage

LEMMA VerifyRemovedStep ==
    ASSUME Tools!Context7Assumption, ToolsInv, Tools!VerifyRemoved
    PROVE  ToolsInv'
<1>1. /\ pc = "verify" /\ UNCHANGED <<package, path, latest>> /\ ToolTypes
      /\ mem.by.family \in Managers /\ mem.by \in Tools!Launchers
      /\ package' = [m \in Managers |-> package'[m]]
      /\ \A m \in Managers : package'[m] \in {package[m], Nothing}
  BY Launched DEF Tools!VerifyRemoved, Tools!world, ToolsInv, ToolTypes
<1>2. PICK seen \in {Nothing, Tools!Inspected(mem.by)} :
             /\ Tools!Seen(mem.by, seen)
             /\ IF seen = Nothing THEN Tools!Removed ELSE Tools!RemovalFails
  BY DEF Tools!VerifyRemoved
<1>3. budget' \in [{"runs", "faults", "fails", "moves"} -> Nat]
  BY <1>1, <1>2, Looks
<1> QED
  BY <1>1, <1>2, <1>3, RemovedStep, RemovalFailsStep

LEMMA InstallStep ==
    ASSUME Tools!Context7Assumption, ToolsInv, NEW by \in Tools!Launchers, Tools!Install(by)
    PROVE  ToolsInv'
<1>1. /\ pc = "idle" /\ UNCHANGED <<package, path, latest, active, journal, forgotten>> /\ ToolTypes
      /\ Tools!Spend("runs")
  BY DEF Tools!Install, Tools!world, Tools!Records, ToolsInv
<1>2. /\ budget' \in [{"runs", "faults", "fails", "moves"} -> Nat]
  BY <1>1, Spends
<1>3. PICK n : n = IF journal # Gone
                   THEN [Tools!Idle EXCEPT !.by = by, !.op = "reconcile", !.previous = journal]
                   ELSE [Tools!Idle EXCEPT !.by = by, !.previous = active]
  OBVIOUS
<1>4. pc' = (IF journal # Gone THEN "check" ELSE "path") /\ mem' = n
  BY <1>3 DEF Tools!Install, Tools!Go
<1>5. /\ MemFields \subseteq DOMAIN n /\ n.by = by /\ n.tool = Nothing /\ n.previous = Last
      /\ journal # Gone => n.op = "reconcile"
  BY <1>3 DEF Tools!Idle, MemFields, Last
<1>6. ToolTypes'
  BY <1>1, <1>2, <1>4, <1>5, TypesKept, Present DEF ToolTypes, ToolSteps, Last
<1>7. Inspects'
  BY <1>4 DEF Inspects
<1>8. Telling'
  <2>1. Telling
    BY DEF ToolsInv
  <2>2. journal # Gone => Tools!Target' = Last
    BY <1>4, <1>5 DEF Tools!Target
  <2>3. Stands(Last)
    BY <2>1 DEF Telling, Last
  <2> QED
    BY <1>1, <1>4, <1>5, <2>1, <2>2, <2>3 DEF Telling, Looking, Stands, Holds, Tells, Last, Tools!Owned, Tools!Identity
<1> QED
  BY <1>6, <1>7, <1>8 DEF ToolsInv

LEMMA RemoveStep ==
    ASSUME Tools!Context7Assumption, ToolsInv, NEW by \in Tools!Launchers, Tools!Remove(by)
    PROVE  ToolsInv'
<1>1. /\ pc = "idle" /\ UNCHANGED <<package, path, latest, active, journal, forgotten>> /\ ToolTypes
      /\ Tools!Spend("runs")
  BY DEF Tools!Remove, Tools!world, Tools!Records, ToolsInv
<1>2. /\ budget' \in [{"runs", "faults", "fails", "moves"} -> Nat]
  BY <1>1, Spends
<1>3. PICK n : n = [Tools!Idle EXCEPT !.by = by, !.op = "remove", !.previous = Last]
  OBVIOUS
<1>4. pc' = "check" /\ mem' = n
  BY <1>3 DEF Tools!Remove, Tools!Go, Last
<1>5. /\ MemFields \subseteq DOMAIN n /\ n.by = by /\ n.tool = Nothing /\ n.previous = Last
      /\ n.op = "remove"
  BY <1>3 DEF Tools!Idle, MemFields
<1>6. ToolTypes'
  BY <1>1, <1>2, <1>4, <1>5, TypesKept, Present DEF ToolTypes, ToolSteps, Last
<1>7. Inspects'
  BY <1>4 DEF Inspects
<1>8. Telling'
  <2>1. Telling
    BY DEF ToolsInv
  <2>2. Tools!Target' = Last
    BY <1>4, <1>5 DEF Tools!Target
  <2>3. Stands(Last)
    BY <2>1 DEF Telling, Last
  <2> QED
    BY <1>1, <1>4, <1>5, <2>1, <2>2, <2>3 DEF Telling, Looking, Stands, Holds, Tells, Last, Tools!Owned, Tools!Identity
<1> QED
  BY <1>6, <1>7, <1>8 DEF ToolsInv

(* Before the tool is in the journal the record that stays is that of the  *)
(* command's start; what the command has installed by then is lost.        *)
LEMMA DieStep ==
    ASSUME Tools!Context7Assumption, ToolsInv, Tools!Die
    PROVE  ToolsInv'
<1>1. PICK n : n = Tools!Idle
  OBVIOUS
<1> DEFINE early == pc \in Looking \cup {"after", "record"}
<1>2. /\ UNCHANGED <<package, path, latest, active, blind>> /\ ToolTypes /\ Telling
      /\ pc # "idle" /\ Tools!Spend("faults") /\ pc' = "idle" /\ mem' = n
      /\ journal' = IF early THEN mem.previous ELSE journal
      /\ forgotten' = forgotten \cup
            IF pc \in {"after", "record"} THEN Tools!Unrecorded ELSE {}
  BY <1>1 DEF Tools!Die, Tools!world, Tools!Go, ToolsInv, Looking
<1>3. MemFields \subseteq DOMAIN n /\ n.previous = Nothing /\ n.tool = Nothing
  BY <1>1 DEF Tools!Idle, MemFields
<1>4. budget' \in [{"runs", "faults", "fails", "moves"} -> Nat]
  BY <1>2, Spends
<1>5. ToolTypes' /\ Inspects'
  BY <1>2, <1>3, <1>4, TypesKept, Present DEF ToolTypes, ToolSteps, Inspects
<1>6. ASSUME NEW m \in Managers, Holds(m)' PROVE Tells(Last, m)'
  <2>1. Holds(m) /\ m \notin forgotten'
    BY <1>2, <1>6 DEF Holds
  <2>2. \A t : Tells(t, m)' <=> Tells(t, m)
    BY <1>2, SameTells
  <2>3. CASE early
    <3>1. pc \in {"after", "record"} => ~Fresh(m)
      BY <1>2, <2>1 DEF Fresh, Tools!Unrecorded
    <3>2. Tells(mem.previous, m)
      BY <1>2, <2>1, <2>3, <3>1 DEF Telling, Looking
    <3>3. Last' = mem.previous
      BY <1>2, <2>3, <3>2 DEF Last, Tells
    <3> QED
      BY <2>2, <3>2, <3>3
  <2>4. CASE ~early /\ pc = "rest"
    <3>1. Tells(journal, m)
      BY <1>2, <2>1, <2>4 DEF Telling
    <3>2. Last' = journal
      BY <1>2, <2>4, <3>1 DEF Last, Tells
    <3> QED
      BY <2>2, <3>1, <3>2
  <2>5. CASE ~early /\ pc \in {"check", "remove", "verify"}
    <3>1. Tells(Last, m)
      BY <1>2, <2>1, <2>5 DEF Telling
    <3>2. Last' = Last
      BY <1>2, <2>5 DEF Last
    <3> QED
      BY <2>2, <3>1, <3>2
  <2> QED
    BY <1>2, <2>3, <2>4, <2>5 DEF Looking, ToolTypes, ToolSteps
<1>7. Stands(active)' /\ Stands(journal)' /\ Stands(mem.previous)'
  BY <1>2, <1>3 DEF Telling, Stands
<1>8. Telling'
  BY <1>2, <1>6, <1>7 DEF Telling, Looking
<1> QED
  BY <1>5, <1>8 DEF ToolsInv

(* The user takes packages away or puts his own in their place. *)
LEMMA UserStep ==
    ASSUME Tools!Context7Assumption, ToolsInv, Tools!User
    PROVE  ToolsInv'
<1>1. UNCHANGED <<pc, mem, active, journal, forgotten>> /\ ToolTypes /\ Inspects /\ Telling
  BY DEF Tools!User, Tools!Records, ToolsInv
<1>2. Tools!Spend("moves") /\ blind \subseteq blind'
  BY DEF Tools!User, Tools!UserRemoves, Tools!UserInstalls, Tools!PathChanges, Tools!NewVersion
<1>3. budget' \in [{"runs", "faults", "fails", "moves"} -> Nat]
  BY <1>1, <1>2, Spends
<1>4. /\ path' \subseteq {Foreign, Bun} /\ latest' \in Nat
      /\ package' = [m \in Managers |-> package'[m]]
      /\ \A m \in Managers :
            \/ package'[m] \in {package[m], Nothing}
            \/ m \in blind' /\ package'[m].version \in Nat /\ package'[m].by = "user"
  BY <1>1 DEF Tools!User, Tools!UserRemoves, Tools!UserInstalls,
     Tools!PathChanges, Tools!NewVersion, ToolTypes, Tools!Context7Assumption
<1>5. ToolTypes'
  BY <1>1, <1>3, <1>4 DEF ToolTypes, Tools!Launchers, ToolSteps
<1>6. \A m \in Managers : m \in blind' \/ package'[m] = Nothing \/ package'[m] = package[m]
  BY <1>4
<1>7. pc # "idle" => mem.by.family \in Managers
  BY <1>1, Launched DEF ToolTypes
<1>8. Inspects'
  <2>1. package'[mem.by.family] = package[mem.by.family] =>
            Tools!Identity(mem.by.family)' = Tools!Identity(mem.by.family)
    BY <1>1 DEF Tools!Identity
  <2>2. Tools!Target' = Tools!Target /\ (Tools!Owned(Tools!Target)' <=> Tools!Owned(Tools!Target))
    BY <1>1 DEF Tools!Target, Tools!Owned
  <2>3. Tools!Ownership(mem.previous, mem.by, mem.before)' =
            Tools!Ownership(mem.previous, mem.by, mem.before)
    BY <1>1 DEF Tools!Ownership, Tools!Owned
  <2> QED
    BY <1>1, <1>2, <1>6, <1>7, <2>1, <2>2, <2>3 DEF Inspects
<1>9. ASSUME NEW m \in Managers, Holds(m)'
      PROVE  Holds(m) /\ \A t : Tells(t, m)' <=> Tells(t, m)
  <2>1. package'[m] = package[m] /\ Holds(m)
    BY <1>1, <1>4, <1>9 DEF Holds
  <2> QED
    BY <2>1 DEF Tells, Tools!Owned, Tools!Identity
<1>10. /\ Stands(active)' /\ Stands(journal)' /\ Stands(mem.previous)'
       /\ Stands(mem.tool) => Stands(mem.tool)'
  BY <1>1 DEF Telling, Stands, Tools!Owned
<1>11. /\ Tools!Target' = Tools!Target /\ (Tools!Owned(Tools!Target)' <=> Tools!Owned(Tools!Target))
       /\ Last' = Last
       /\ Tools!Ownership(mem.previous, mem.by, mem.before)' =
            Tools!Ownership(mem.previous, mem.by, mem.before)
       /\ Tools!Owned(mem.previous)' <=> Tools!Owned(mem.previous)
       /\ Tools!Owned(mem.tool)' <=> Tools!Owned(mem.tool)
  BY <1>1 DEF Tools!Target, Tools!Owned, Last, Tools!Ownership
<1>12. ASSUME NEW m \in Managers, Holds(m)'
       PROVE  /\ Tells(Last, m)' <=> Tells(Last, m)
              /\ Tells(Tools!Target, m)' <=> Tells(Tools!Target, m)
              /\ Tells(mem.previous, m)' <=> Tells(mem.previous, m)
              /\ Tells(journal, m)' <=> Tells(journal, m)
              /\ Found(m)' <=> Found(m)
              /\ Fresh(m)' <=> Fresh(m)
  <2>1. package'[m] = package[m]
    BY <1>1, <1>4, <1>12 DEF Holds
  <2> QED
    BY <1>1, <1>11, <2>1 DEF Tells, Found, Fresh, Tools!Owned, Tools!Identity
<1>13. pc = "verify" => ~Holds(mem.by.family)'
  BY <1>1, <1>7, <1>9 DEF Telling
<1>14. Telling'
  BY <1>1, <1>9, <1>10, <1>11, <1>12, <1>13 DEF Telling, Looking
<1> QED
  BY <1>5, <1>8, <1>14 DEF ToolsInv

LEMMA ToolsNext ==
    ASSUME Tools!Context7Assumption, ToolsInv, [Tools!Next]_(Tools!vars)
    PROVE  ToolsInv'
<1>1. CASE UNCHANGED Tools!vars
  <2>1. UNCHANGED <<package, path, latest, active, journal, pc, mem, budget, blind, forgotten>>
    BY <1>1 DEF Tools!vars, Tools!world
  <2> QED
    BY <2>1 DEF ToolsInv, ToolTypes, Inspects, Telling, Stands, Holds, Tells, Found, Fresh, Last,
                Tools!Launchers, Tools!Identity, Tools!Ownership, Tools!Owned, Tools!Target
<1>2. CASE Tools!Command
  BY <1>2, TryPathStep, InspectBeforeStep, AskRegistryStep, AddStep, InspectAfterStep, RecordStep,
     PublishStep, RestFailsStep, CheckOwnedStep, RemovePackageStep, VerifyRemovedStep, InstallStep,
     RemoveStep, DieStep
     DEF Tools!Command, Tools!Ensure, Tools!Rest, Tools!Removal, Tools!Upgrade
<1> QED
  BY <1>1, <1>2, UserStep DEF Tools!Next

LEMMA ToolsInit == ASSUME Tools!Context7Assumption, Tools!Init PROVE ToolsInv
<1>1. PICK n : n = Tools!Idle
  OBVIOUS
<1>2. mem = n /\ MemFields \subseteq DOMAIN n /\ n.previous = Nothing /\ n.tool = Nothing
  BY <1>1 DEF Tools!Init, Tools!Idle, MemFields
<1>3. /\ package = [m \in Managers |-> package[m]]
      /\ \A m \in Managers : package[m] = Nothing \/ package[m].version \in Nat
      /\ \A m \in Managers : package[m] # Nothing => package[m].by = "user"
  BY DEF Tools!Init
<1>4. ToolTypes
  BY <1>2, <1>3, Present DEF Tools!Init, ToolTypes, ToolSteps, Tools!Context7Assumption
<1>5. Inspects
  BY DEF Tools!Init, Inspects
<1>6. Telling
  BY <1>2, <1>3 DEF Tools!Init, Telling, Looking, Stands, Holds
<1> QED
  BY <1>4, <1>5, <1>6 DEF ToolsInv

(* Between commands every ctx7 HolyCodex has installed is told by a record *)
(* as the installation it is, whatever has failed or died and whatever the *)
(* user has done meanwhile, or has been lost by one of the steps that set  *)
(* "forgotten".                                                            *)
THEOREM ToolsAreTold ==
    ASSUME Tools!Context7Assumption
    PROVE  Tools!Spec => []Tools!ToolsTold
<1>1. ToolsInv => Tools!ToolsTold
  <2> SUFFICES ASSUME ToolsInv, pc = "idle", NEW m \in Managers \ forgotten, package[m] # Nothing, package[m].by = "holycodex"
               PROVE  Tools!Told(m)
    BY DEF Tools!ToolsTold
  <2>1. Holds(m) /\ Telling
    BY DEF Holds, ToolsInv
  <2>2. Tells(Last, m)
    BY <2>1 DEF Telling
  <2> QED
    BY <2>2 DEF Tells, Last, Tools!Told
<1> QED
  BY <1>1, ToolsInit, ToolsNext, PTL DEF Tools!Spec

(* What a command is about to replace or remove, it has looked at: HolyCodex *)
(* never touches a ctx7 the user has installed that no record calls its own. *)
THEOREM UserToolsSpared ==
    ASSUME Tools!Context7Assumption
    PROVE  Tools!Spec => Tools!UserToolsStay
<1>1. ASSUME ToolsInv, [Tools!Next]_(Tools!vars) PROVE [Tools!Spares]_(Tools!vars)
  <2> SUFFICES ASSUME Tools!Command, NEW m \in Managers \ blind, package[m] # Nothing,
                      ~Tools!Recorded(m), package'[m] # package[m]
               PROVE  FALSE
    BY DEF Tools!Spares, Tools!SparesUser
  <2>1. ToolTypes /\ Inspects
    BY <1>1 DEF ToolsInv
  <2>2. CASE Tools!Add
    <3>1. pc = "add" /\ mem.by.family = m
      BY <2>1, <2>2 DEF Tools!Add, Tools!Installed, ToolTypes
    <3>2. mem.before # Nothing /\ mem.before.identity = Tools!Identity(m)
      BY <2>1, <3>1 DEF Inspects
    <3>3. Tools!Owned(mem.previous) /\ mem.previous.identity = Tools!Identity(m)
      BY <2>1, <3>1, <3>2 DEF Inspects, Tools!Ownership
    <3> QED
      BY <3>3 DEF Tools!Recorded
  <2>3. CASE Tools!RemovePackage
    <3>1. pc = "remove" /\ mem.by.family = m
      BY <2>1, <2>3 DEF Tools!RemovePackage, Tools!Uninstalled, ToolTypes
    <3>2. Tools!Owned(Tools!Target) /\ Tools!Target.identity = Tools!Identity(m)
      BY <2>1, <3>1 DEF Inspects
    <3> QED
      BY <3>2 DEF Tools!Recorded, Tools!Target
  <2>4. Tools!Add \/ Tools!RemovePackage
    BY DEF Tools!Command, Tools!Ensure, Tools!Rest, Tools!Removal, Tools!Upgrade, Tools!Install,
           Tools!Remove, Tools!Die, Tools!TryPath, Tools!InspectBefore, Tools!AskRegistry,
           Tools!InspectAfter, Tools!Record, Tools!Publish, Tools!RestFails, Tools!CheckOwned,
           Tools!VerifyRemoved, Tools!world
  <2> QED
    BY <2>2, <2>3, <2>4
<1> QED
  BY <1>1, ToolsInit, ToolsNext, PTL DEF Tools!Spec, Tools!UserToolsStay

(***************************************************************************)
(* Selections.  Requests are filled in from left to right, which keeps     *)
(* their types and is what the properties ask about.                       *)
(***************************************************************************)
IsRequest(r) ==
    /\ r.profile \in Profiles \cup {Absent}
    /\ r.plugins \in {Absent} \cup SUBSET Choice!Plugins
    /\ \A n \in DOMAIN r.ask : r.ask[n] \in BOOLEAN

KnownRecord(known) == known \in Choice!Records \cup Choice!Journals \cup {NoRec}
KnownOptions(file) == file \in Choice!Selected \cup {Absent}

(* What the rest of a request is taken from. *)
FileRequest(file) == IF file = Absent THEN Choice!Silent ELSE Choice!AsRequest(file)

LEMMA SilentIsRequest == IsRequest(Choice!Silent) /\ DOMAIN Choice!Silent.ask = {} /\ Choice!Silent.profile = Absent
<1>1. Choice!Silent.ask = <<>> /\ Choice!Silent.profile = Absent /\ Choice!Silent.plugins = Absent
  BY DEF Choice!Silent
<1>2. DOMAIN <<>> = {}
  BY Z3
<1> QED
  BY <1>1, <1>2 DEF IsRequest

LEMMA SelectionIsRequest ==
    ASSUME NEW sel \in Choice!Selected
    PROVE  /\ IsRequest(Choice!AsRequest(sel)) /\ DOMAIN Choice!AsRequest(sel).ask = Choice!Names
           /\ Choice!AsRequest(sel).profile = sel.profile /\ Choice!AsRequest(sel).plugins = sel.plugins
           /\ \A n \in Choice!Names : Choice!AsRequest(sel).ask[n] = (n \in sel.on)
BY DEF IsRequest, Choice!AsRequest, Choice!Selected

LEMMA FileIsRequest ==
    ASSUME NEW file, KnownOptions(file)
    PROVE  IsRequest(FileRequest(file))
BY SilentIsRequest, SelectionIsRequest DEF KnownOptions, FileRequest

LEMMA FlagsAreRequest ==
    ASSUME Choice!CapabilityAssumption, NEW flags \in Flags
    PROVE  IsRequest(Choice!RequestOf(flags))
<1>1. flags \in Choice!CommandLines
  BY DEF Choice!CapabilityAssumption
<1>2. flags.profile \in Profiles \cup {Absent} /\ flags.plugins \in {Absent} \cup SUBSET Extras
  <2> DEFINE asks == UNION {[names -> Choice!Spellings] : names \in SUBSET Carried}
  <2>1. flags \in [profile : Profiles \cup {Absent}, plugins : {Absent} \cup SUBSET Extras, ask : asks]
    BY <1>1 DEF Choice!CommandLines
  <2> HIDE DEF asks
  <2> QED
    BY <2>1
<1> DEFINE r == Choice!RequestOf(flags)
<1>3. r.profile = flags.profile /\ r.plugins = flags.plugins
  BY DEF Choice!RequestOf
<1>4. \A n \in DOMAIN r.ask : r.ask[n] \in BOOLEAN
  BY DEF Choice!RequestOf
<1> QED
  BY <1>2, <1>3, <1>4 DEF IsRequest, Choice!Plugins

LEMMA EffectiveIsRequest ==
    ASSUME NEW r, IsRequest(r), NEW s, IsRequest(s)
    PROVE  IsRequest(Choice!Effective(r, s))
<1>1. \A n \in DOMAIN Choice!Over(r.ask, s.ask) : Choice!Over(r.ask, s.ask)[n] \in BOOLEAN
  BY DEF Choice!Over, IsRequest
<1> DEFINE e == Choice!Effective(r, s)
<1>2. /\ e.ask = Choice!Over(r.ask, s.ask)
      /\ e.profile = Choice!Either(r.profile, s.profile)
      /\ e.plugins = Choice!Either(r.plugins, s.plugins)
  BY DEF Choice!Effective
<1> HIDE DEF e
<1>3. e.profile \in {r.profile, s.profile} /\ e.plugins \in {r.plugins, s.plugins}
  BY <1>2 DEF Choice!Either
<1> QED
  BY <1>1, <1>2, <1>3 DEF IsRequest, e

LEMMA AdditionalBought ==
    ASSUME NEW known, KnownRecord(known), known # NoRec
    PROVE  /\ Choice!Additional(known) \subseteq Choice!Plugins
           /\ Choice!AdditionalForUpgrade(known) \subseteq Choice!Plugins
           /\ known.sel \in Choice!Selected /\ known.id \in Nat /\ known.official \in SUBSET Choice!Plugins
<1>1. known.sel \in Choice!Selected /\ known.id \in Nat /\ known.official \in SUBSET Choice!Plugins
  BY DEF KnownRecord, Choice!Records, Choice!Journals
<1> QED
  BY <1>1 DEF Choice!Additional, Choice!AdditionalForUpgrade

LEMMA AskedAnswered ==
    ASSUME Choice!CapabilityAssumption, NEW r, IsRequest(r), NEW file, IsRequest(file), NEW known,
           NEW n \in Choice!Names
    PROVE  /\ Choice!Asked(r, file, known)[n] \in BOOLEAN
           /\ n \in DOMAIN r.ask => Choice!Asked(r, file, known)[n] = r.ask[n]
           /\ n \in DOMAIN file.ask \ DOMAIN r.ask => Choice!Asked(r, file, known)[n] = file.ask[n]
           /\ n \notin DOMAIN r.ask \cup DOMAIN file.ask =>
                Choice!Asked(r, file, known)[n] = (n \in IF known = NoRec THEN Standard ELSE known.sel.on)
<1> DEFINE kept == [m \in Choice!Names |-> m \in IF known = NoRec THEN Standard ELSE known.sel.on]
           rest == Choice!Over(file.ask, kept)
<1>1. kept[n] \in BOOLEAN /\ kept[n] = (n \in IF known = NoRec THEN Standard ELSE known.sel.on) /\ n \in DOMAIN kept
  OBVIOUS
<1> HIDE DEF kept
<1>2. /\ n \in DOMAIN rest
      /\ n \in DOMAIN file.ask => rest[n] = file.ask[n]
      /\ n \notin DOMAIN file.ask => rest[n] = kept[n]
  BY <1>1 DEF Choice!Over
<1> HIDE DEF rest
<1>3. Choice!Asked(r, file, known) = Choice!Over(r.ask, rest)
  BY DEF Choice!Asked, rest, kept
<1>4. /\ n \in DOMAIN r.ask => Choice!Asked(r, file, known)[n] = r.ask[n]
      /\ n \notin DOMAIN r.ask => Choice!Asked(r, file, known)[n] = rest[n]
  BY <1>2, <1>3 DEF Choice!Over
<1> QED
  BY <1>1, <1>2, <1>4 DEF IsRequest

LEMMA ChosenIsSelected ==
    ASSUME Choice!CapabilityAssumption, NEW r, IsRequest(r), NEW file, IsRequest(file),
           NEW known, KnownRecord(known)
    PROVE  /\ Choice!Chosen(r, file, known) \in Choice!Selected
           /\ r.profile \in {Absent, Choice!Chosen(r, file, known).profile}
           /\ r.plugins \in {Absent, Choice!Chosen(r, file, known).plugins}
           /\ r.profile = Absent /\ file.profile # Absent =>
                Choice!Chosen(r, file, known).profile = file.profile
           /\ \A n \in Choice!Names :
                (n \in Choice!Chosen(r, file, known).on) <=> Choice!Asked(r, file, known)[n]
<1> DEFINE c == Choice!Chosen(r, file, known)
<1>1. c.profile \in Profiles /\ c.plugins \in SUBSET Choice!Plugins
  <2>1. known # NoRec => known.sel.profile \in Profiles /\ Choice!Additional(known) \in SUBSET Choice!Plugins
    BY AdditionalBought DEF Choice!Selected
  <2>2. Usual \in Profiles
    BY DEF Choice!CapabilityAssumption
  <2> QED
    BY <2>1, <2>2 DEF Choice!Chosen, Choice!Either, IsRequest
<1>2. c.on = {n \in Choice!Names : Choice!Asked(r, file, known)[n]}
  BY DEF Choice!Chosen
<1>3. c \in Choice!Selected
  BY <1>1, <1>2 DEF Choice!Chosen, Choice!Selected
<1>4. r.profile \in {Absent, c.profile} /\ (r.profile = Absent /\ file.profile # Absent => c.profile = file.profile)
  BY DEF Choice!Chosen, Choice!Either
<1>5. r.plugins \in {Absent, c.plugins}
  BY DEF Choice!Chosen, Choice!Either
<1> QED
  BY <1>2, <1>3, <1>4, <1>5

LEMMA NarrowedIsRequest ==
    ASSUME Choice!CapabilityAssumption, NEW r, IsRequest(r), NEW file, IsRequest(file),
           NEW known, KnownRecord(known), known # NoRec
    PROVE  /\ IsRequest(Choice!Narrowed(r, file, known))
           /\ r.profile \in {Absent, Choice!Narrowed(r, file, known).profile}
           /\ r.plugins \in {Absent, Choice!Narrowed(r, file, known).plugins}
           /\ DOMAIN Choice!Narrowed(r, file, known).ask = Carried
<1> DEFINE c == Choice!Narrowed(r, file, known)
<1>1. c.profile \in Profiles /\ c.plugins \in SUBSET Choice!Plugins
  <2>1. known.sel.profile \in Profiles /\ Choice!Additional(known) \in SUBSET Choice!Plugins
    BY AdditionalBought DEF Choice!Selected
  <2> QED
    BY <2>1 DEF Choice!Narrowed, Choice!Either, IsRequest
<1>2. c.ask = [n \in Carried |-> Choice!Asked(r, file, known)[n]]
  BY DEF Choice!Narrowed
<1>3. \A n \in Carried : Choice!Asked(r, file, known)[n] \in BOOLEAN
  BY AskedAnswered DEF Choice!Names
<1>4. r.profile \in {Absent, c.profile}
  BY DEF Choice!Narrowed, Choice!Either
<1>5. r.plugins \in {Absent, c.plugins}
  BY DEF Choice!Narrowed, Choice!Either
<1> QED
  BY <1>1, <1>2, <1>3, <1>4, <1>5 DEF IsRequest

(***************************************************************************)
(* The invariant.  Until its journal is written a transaction has changed  *)
(* nothing; from then on the journal tells of it; what its rollback has    *)
(* put back is what it found.  A removal is told by its checkpoint.        *)
(***************************************************************************)
WishFor(from, n) ==
    IF n \in DOMAIN from.request.ask THEN from.request.ask[n]
    ELSE IF from.options # Absent THEN n \in from.options.on
    ELSE IF from.record # NoRec THEN n \in from.record.sel.on ELSE n \in Standard

ChoiceTypes ==
    /\ KnownOptions(options) /\ active \in Choice!Records \cup {NoRec}
    /\ preparing \in Choice!Journals \cup {NoRec} /\ conflicted \in Choice!Journals \cup {NoRec}
    /\ left \in [{"commands", "troubles", "edits"} -> Nat] /\ edited \in BOOLEAN

Settled ==
    active # NoRec /\ preparing = NoRec /\ conflicted = NoRec /\ ~edited => options = active.sel

FromOK(from) == IsRequest(from.request) /\ KnownOptions(from.options) /\ KnownRecord(from.record)

Filled(from, chosen) ==
    /\ from.request.profile \in {Absent, chosen.profile}
    /\ from.request.plugins \in {Absent, chosen.plugins}
    /\ from.request.profile = Absent /\ from.options # Absent
         => chosen.profile = from.options.profile

PromisedBy(m) == IF m.from.record = m.prev THEN Choice!Names ELSE Carried

Transacting ==
    {"journal", "record", "options", "clear", "rb_record", "rb_options", "rb_rest", "rb_journal"}
TransactionFields == {"from", "sel", "prev", "file", "edited", "jr", "started", "failed"}

(* What does not change during a transaction. *)
TransactionOK(m) ==
    /\ TransactionFields \subseteq DOMAIN m
    /\ m.sel \in Choice!Selected /\ m.jr \in Choice!Journals
    /\ m.prev \in Choice!Records \cup {NoRec} /\ KnownOptions(m.file) /\ m.edited \in BOOLEAN
    /\ m.prev # NoRec /\ ~m.edited => m.file = m.prev.sel
    /\ m.started \in {{}, {"record"}, {"record", "options"}}
    /\ FromOK(m.from) /\ Filled(m.from, m.sel)
    /\ \A n \in PromisedBy(m) : (n \in m.sel.on) <=> WishFor(m.from, n)

Untold(place, m) ==
    \/ place \in {"journal", "record"}
    \/ place = "rb_record" /\ m.started = {}
    \/ place \in {"rb_options", "rb_rest", "rb_journal"} /\ ~m.failed
Unsaved(place, m) ==
    \/ place \in {"journal", "record", "options"}
    \/ place \in {"rb_record", "rb_options"} /\ "options" \notin m.started
    \/ place \in {"rb_rest", "rb_journal"} /\ ~m.failed

TransactionInv ==
    pc \in Transacting =>
        /\ TransactionOK(mem) /\ conflicted = NoRec
        /\ preparing = (IF pc = "journal" THEN NoRec ELSE mem.jr)
        /\ Untold(pc, mem) => active = mem.prev
        /\ pc \in {"options", "clear"} => active = Choice!ActiveRecord
        /\ Unsaved(pc, mem) /\ ~edited => ~mem.edited /\ options = mem.file
        /\ pc = "clear" /\ ~edited => options = mem.sel

Removing == {"rm_checkpoint", "rm_record", "rm_options", "rm_journals", "restart"}
ReconcileOK(m) ==
    /\ IsRequest(m.then) /\ FromOK(m.from) /\ m.from.record # NoRec /\ Filled(m.from, m.then)
    /\ DOMAIN m.then.ask = Carried
    /\ \A n \in Carried : m.then.ask[n] = WishFor(m.from, n)

RemovalInv ==
    pc \in Removing =>
        /\ mem.rec \in Choice!Journals
        /\ mem.cmd = "reconcile" => ReconcileOK(mem)
        /\ pc \in {"rm_record", "rm_options", "rm_journals"} => conflicted # NoRec
        /\ pc \in {"rm_options", "rm_journals", "restart"} => active = NoRec
        /\ pc = "restart" => mem.cmd = "reconcile" /\ preparing = NoRec /\ conflicted = NoRec

WizardInv == pc = "wizard" => "state" \in DOMAIN mem /\ mem.state \in Choice!Selected

ChoiceInv == ChoiceTypes /\ Settled /\ TransactionInv /\ RemovalInv /\ WizardInv

LEMMA WishAsked ==
    ASSUME Choice!CapabilityAssumption, NEW from, FromOK(from), NEW n \in Choice!Names
    PROVE  WishFor(from, n) = Choice!Asked(from.request, FileRequest(from.options), from.record)[n]
<1>1. IsRequest(from.request) /\ IsRequest(FileRequest(from.options))
  BY FileIsRequest DEF FromOK
<1>2. CASE from.options = Absent
  <2>1. FileRequest(from.options) = Choice!Silent
    BY <1>2 DEF FileRequest
  <2> QED
    BY <1>1, <1>2, <2>1, AskedAnswered, SilentIsRequest DEF WishFor
<1>3. CASE from.options # Absent
  <2>1. from.options \in Choice!Selected /\ FileRequest(from.options) = Choice!AsRequest(from.options)
    BY <1>3 DEF FileRequest, FromOK, KnownOptions
  <2> QED
    BY <1>1, <1>3, <2>1, AskedAnswered, SelectionIsRequest DEF WishFor
<1> QED
  BY <1>2, <1>3

(* An install starts a transaction only where no journal is left. *)
LEMMA NoneInterrupted ==
    ASSUME Choice!J!InstallMayStart(active, preparing, conflicted),
           Choice!J!Interrupted(active, preparing, conflicted) = NoRec
    PROVE  preparing = NoRec /\ conflicted = NoRec
<1>1. ASSUME NEW j \in {preparing, conflicted}, j # NoRec PROVE Choice!J!Usable(active, j)
  <2>1. Choice!J!Relation(active, preparing, conflicted, j) \notin {"stale", "incompatible"}
    BY <1>1 DEF Choice!J!InstallMayStart, Choice!J!Relations, Choice!J!Journals
  <2> QED
    BY <1>1, <2>1 DEF Choice!J!Relation, Choice!J!Usable
<1>2. ASSUME conflicted # NoRec PROVE FALSE
  <2>1. Choice!J!Usable(active, conflicted)
    BY <1>1, <1>2
  <2>2. Choice!J!Interrupted(active, preparing, conflicted) = conflicted
    BY <2>1 DEF Choice!J!Interrupted
  <2> QED
    BY <1>2, <2>2
<1>3. ASSUME preparing # NoRec PROVE FALSE
  <2>1. Choice!J!Usable(active, preparing)
    BY <1>1, <1>3
  <2>2. ~Choice!J!Usable(active, conflicted)
    BY <1>2 DEF Choice!J!Usable
  <2>3. Choice!J!Interrupted(active, preparing, conflicted) = preparing
    BY <2>1, <2>2 DEF Choice!J!Interrupted
  <2> QED
    BY <1>3, <2>3
<1> QED
  BY <1>2, <1>3

LEMMA InterruptedIs ==
    /\ Choice!J!Interrupted(active, preparing, conflicted) \in {preparing, conflicted, NoRec}
    /\ Choice!J!RecoveryState(active, preparing, conflicted) \in {active, preparing, conflicted}
BY DEF Choice!J!Interrupted, Choice!J!RecoveryState

LEMMA Stops ==
    ASSUME ChoiceTypes', Settled', pc' = "idle"
    PROVE  ChoiceInv'
BY DEF ChoiceInv, TransactionInv, RemovalInv, WizardInv, Transacting, Removing

(* A transaction begins. *)
LEMMA TransactionBegins ==
    ASSUME Choice!CapabilityAssumption, ChoiceInv, preparing = NoRec, conflicted = NoRec,
           NEW request, IsRequest(request), NEW from, FromOK(from),
           Filled(from, Choice!Chosen(request, FileRequest(options), active)),
           \A n \in (IF from.record = active THEN Choice!Names ELSE Carried) :
                Choice!Asked(request, FileRequest(options), active)[n] = WishFor(from, n),
           pc' = "journal", mem' = Choice!Transaction(request, from),
           UNCHANGED <<options, active, preparing, conflicted, edited>>,
           left' \in [{"commands", "troubles", "edits"} -> Nat]
    PROVE  ChoiceInv'
<1> DEFINE sel == Choice!Chosen(request, FileRequest(options), active)
<1>1. FileRequest(options) = Choice!InFile
  BY DEF FileRequest, Choice!InFile
<1>2. KnownRecord(active) /\ IsRequest(FileRequest(options))
  BY FileIsRequest DEF ChoiceInv, ChoiceTypes, KnownRecord
<1>3. sel \in Choice!Selected /\ \A n \in Choice!Names :
            (n \in sel.on) <=> Choice!Asked(request, FileRequest(options), active)[n]
  BY <1>2, ChosenIsSelected
<1> HIDE DEF sel
<1> DEFINE jr == [id |-> IF active = NoRec THEN left.commands ELSE active.id,
                  digest |-> Choice!J!DigestOf(active), sel |-> sel, official |-> Choice!Official(sel)]
<1>4. mem' = [cmd |-> "install", from |-> from, sel |-> sel, prev |-> active,
              file |-> options, edited |-> edited, jr |-> jr, started |-> {}, failed |-> FALSE]
  BY <1>1 DEF Choice!Transaction, sel
<1>5. jr \in Choice!Journals
  <2>1. left.commands \in Nat /\ (active # NoRec => active.id \in Nat)
    BY DEF ChoiceInv, ChoiceTypes, Choice!Records
  <2>2. Choice!J!DigestOf(active) \in Choice!Records \cup {NoRec}
    BY DEF Choice!J!DigestOf, Choice!J!NoDigest, ChoiceInv, ChoiceTypes
  <2>3. Choice!Official(sel) \in SUBSET Choice!Plugins
    BY <1>3 DEF Choice!Official, Choice!ProviderPlugins, Choice!Plugins, Choice!Selected
  <2> QED
    BY <1>3, <2>1, <2>2, <2>3 DEF Choice!Journals
<1> HIDE DEF jr
<1>6. /\ mem'.from = from /\ mem'.sel = sel /\ mem'.prev = active /\ mem'.file = options
      /\ mem'.edited = edited /\ mem'.jr = jr /\ mem'.started = {}
      /\ TransactionFields \subseteq DOMAIN mem'
  BY <1>4 DEF TransactionFields
<1>7. TransactionOK(mem')
  <2>1. active # NoRec /\ ~edited => options = active.sel
    BY DEF ChoiceInv, Settled
  <2>2. Carried \subseteq Choice!Names
    BY DEF Choice!Names
  <2>3. \A n \in PromisedBy(mem') : (n \in sel.on) <=> WishFor(from, n)
    BY <1>3, <1>6, <2>2 DEF PromisedBy
  <2> QED
    BY <1>3, <1>5, <1>6, <2>1, <2>3 DEF TransactionOK, ChoiceInv, ChoiceTypes, sel
<1>8. ChoiceTypes' /\ Settled'
  BY DEF ChoiceInv, ChoiceTypes, Settled, KnownOptions
<1> QED
  BY <1>6, <1>7, <1>8 DEF ChoiceInv, TransactionInv, RemovalInv, WizardInv, Transacting, Removing, Unsaved, Untold

(* installHolyCodexEffect: refused, a transaction, or a removal first. *)
LEMMA InstallStarts ==
    ASSUME Choice!CapabilityAssumption, ChoiceInv, NEW request, IsRequest(request),
           Choice!Start(request), UNCHANGED edited,
           left' \in [{"commands", "troubles", "edits"} -> Nat]
    PROVE  ChoiceInv'
<1> DEFINE known == Choice!J!Interrupted(active, preparing, conflicted)
<1>1. UNCHANGED <<options, active, preparing, conflicted>>
  BY DEF Choice!Start, Choice!disk
<1>2. ChoiceTypes' /\ Settled'
  BY <1>1 DEF ChoiceInv, ChoiceTypes, Settled, KnownOptions
<1>3. Choice!InFile = FileRequest(options) /\ IsRequest(FileRequest(options)) /\ KnownOptions(options)
  BY FileIsRequest DEF Choice!InFile, FileRequest, ChoiceInv, ChoiceTypes
<1>4. CASE Choice!Stop
  BY <1>2, <1>4, Stops DEF Choice!Stop
<1>5. CASE /\ Choice!J!InstallMayStart(active, preparing, conflicted) /\ known = NoRec
           /\ pc' = "journal" /\ mem' = Choice!Transaction(request, Choice!From(request, active))
  <2> DEFINE from == Choice!From(request, active)
  <2>1. preparing = NoRec /\ conflicted = NoRec
    BY <1>5, NoneInterrupted
  <2>2. from.request = request /\ from.options = options /\ from.record = active
    BY DEF Choice!From
  <2> HIDE DEF from
  <2>3. FromOK(from) /\ KnownRecord(active)
    BY <1>3, <2>2 DEF FromOK, KnownRecord, ChoiceInv, ChoiceTypes
  <2>4. Filled(from, Choice!Chosen(request, FileRequest(options), active))
    <3>1. options # Absent => FileRequest(options).profile = options.profile /\ options.profile # Absent
      BY <1>3, SelectionIsRequest DEF FileRequest, KnownOptions, Choice!Selected, Choice!CapabilityAssumption
    <3> QED
      BY <1>3, <2>2, <2>3, <3>1, ChosenIsSelected DEF Filled
  <2>5. \A n \in Choice!Names : Choice!Asked(request, FileRequest(options), active)[n] = WishFor(from, n)
    BY <2>2, <2>3, WishAsked
  <2>6. Carried \subseteq Choice!Names
    BY DEF Choice!Names
  <2> QED
    BY <1>1, <1>5, <2>1, <2>2, <2>3, <2>4, <2>5, <2>6, TransactionBegins DEF from
<1>6. CASE /\ known # NoRec /\ pc' = "rm_checkpoint"
           /\ mem' = Choice!Removal("reconcile", known, Choice!Narrowed(request, Choice!InFile, known),
                                    Choice!From(request, known))
  <2> DEFINE from == Choice!From(request, known)
             then == Choice!Narrowed(request, FileRequest(options), known)
             told == [id |-> known.id, digest |-> Choice!J!DigestOf(active), sel |-> known.sel,
                      official |-> known.official]
  <2>1. known \in Choice!Journals
    BY <1>6, InterruptedIs DEF ChoiceInv, ChoiceTypes
  <2>2. mem' = [cmd |-> "reconcile", from |-> from, then |-> then, rec |-> told]
    BY <1>3, <1>6 DEF Choice!Removal
  <2>3. told \in Choice!Journals
    <3>1. Choice!J!DigestOf(active) \in Choice!Records \cup {NoRec}
      BY DEF Choice!J!DigestOf, Choice!J!NoDigest, ChoiceInv, ChoiceTypes
    <3> QED
      BY <2>1, <3>1 DEF Choice!Journals
  <2>4. from.request = request /\ from.options = options /\ from.record = known
    BY DEF Choice!From
  <2> HIDE DEF from, then, told, known
  <2>9. known # NoRec
    BY <1>6
  <2>5. mem'.rec = told /\ mem'.from = from /\ mem'.then = then
    BY <2>2
  <2>6. FromOK(from) /\ KnownRecord(known)
    BY <1>3, <2>1, <2>4 DEF FromOK, KnownRecord
  <2> DEFINE file == FileRequest(options)
  <2>11. /\ IsRequest(file) /\ file = FileRequest(options) /\ KnownRecord(known) /\ known # NoRec
         /\ then = Choice!Narrowed(request, file, known)
    BY <1>3, <2>6, <2>9 DEF then
  <2> HIDE DEF file
  <2>7. Filled(from, then) /\ IsRequest(then) /\ DOMAIN then.ask = Carried
    <3>1. options # Absent => file.profile = options.profile /\ options.profile # Absent
      BY <1>3, <2>11, SelectionIsRequest DEF FileRequest, KnownOptions, Choice!Selected, Choice!CapabilityAssumption
    <3>2. IsRequest(then)
      BY <2>11, NarrowedIsRequest
    <3>3. request.profile \in {Absent, then.profile}
      BY <2>11, NarrowedIsRequest
    <3>4. request.plugins \in {Absent, then.plugins}
      BY <2>11, NarrowedIsRequest
    <3>5. request.profile = Absent /\ file.profile # Absent => then.profile = file.profile
      BY <2>11 DEF Choice!Narrowed, Choice!Either
    <3>6. DOMAIN then.ask = Carried
      BY <2>11, NarrowedIsRequest
    <3> QED
      BY <2>4, <3>1, <3>2, <3>3, <3>4, <3>5, <3>6 DEF Filled
  <2>8. \A n \in Carried : then.ask[n] = WishFor(from, n)
    <3> SUFFICES ASSUME NEW n \in Carried PROVE then.ask[n] = WishFor(from, n)
      OBVIOUS
    <3>1. then.ask[n] = Choice!Asked(request, file, known)[n]
      BY <2>11 DEF Choice!Narrowed
    <3>2. WishFor(from, n) = Choice!Asked(from.request, FileRequest(from.options), from.record)[n]
      BY <2>6, WishAsked DEF Choice!Names
    <3> QED
      BY <2>4, <2>11, <3>1, <3>2
  <2>10. ReconcileOK(mem')
    BY <1>6, <2>4, <2>5, <2>6, <2>7, <2>8 DEF ReconcileOK
  <2> QED
    BY <1>2, <1>6, <2>3, <2>5, <2>10 DEF ChoiceInv, TransactionInv, RemovalInv, WizardInv, Transacting, Removing
<1> QED
  BY <1>4, <1>5, <1>6 DEF Choice!Start

LEMMA SpendsOne ==
    ASSUME ChoiceInv, NEW what \in {"commands", "troubles", "edits"}, Choice!Spend(what)
    PROVE  left' \in [{"commands", "troubles", "edits"} -> Nat]
BY DEF Choice!Spend, ChoiceInv, ChoiceTypes

(* The request an upgrade starts from. *)
LEMMA UpgradeIsRequest ==
    ASSUME Choice!CapabilityAssumption, NEW request \in Choice!UpgradeRequests
    PROVE  IsRequest(request)
<1>1. PICK flags \in Flags, more \in {<<>>} \cup [OptIns -> BOOLEAN] :
            request = [Choice!RequestOf(flags) EXCEPT !.ask = Choice!Over(@, more)]
  BY DEF Choice!UpgradeRequests
<1>2. IsRequest(Choice!RequestOf(flags))
  BY FlagsAreRequest
<1>3. \A n \in DOMAIN more : more[n] \in BOOLEAN
  <2>1. DOMAIN <<>> = {}
    BY Z3
  <2> QED
    BY <2>1
<1>4. /\ request.profile = Choice!RequestOf(flags).profile
      /\ request.plugins = Choice!RequestOf(flags).plugins
      /\ request.ask = Choice!Over(Choice!RequestOf(flags).ask, more)
  BY <1>1 DEF Choice!RequestOf
<1>5. \A n \in DOMAIN request.ask : request.ask[n] \in BOOLEAN
  BY <1>2, <1>3, <1>4 DEF Choice!Over, IsRequest
<1> QED
  BY <1>2, <1>4, <1>5 DEF IsRequest

LEMMA SourceIsRequest ==
    ASSUME ChoiceInv, NEW known, KnownRecord(known), known # NoRec
    PROVE  IsRequest(Choice!SourceOptions(known))
<1>1. CASE options # Absent
  BY <1>1, SelectionIsRequest DEF Choice!SourceOptions, ChoiceInv, ChoiceTypes, KnownOptions
<1>2. CASE options = Absent
  <2> DEFINE r == Choice!AsRequest(known.sel)
  <2>1. IsRequest(r)
    BY AdditionalBought, SelectionIsRequest
  <2>2. Choice!SourceOptions(known) = [r EXCEPT !.plugins = Choice!AdditionalForUpgrade(known)]
    BY <1>2 DEF Choice!SourceOptions
  <2>3. /\ Choice!SourceOptions(known).profile = r.profile /\ Choice!SourceOptions(known).ask = r.ask
        /\ Choice!SourceOptions(known).plugins = Choice!AdditionalForUpgrade(known)
    BY <2>2 DEF Choice!AsRequest
  <2> QED
    BY <2>1, <2>3, AdditionalBought DEF IsRequest
<1> QED
  BY <1>1, <1>2

LEMMA WizardStep ==
    ASSUME Choice!CapabilityAssumption, ChoiceInv, Choice!WizardKey PROVE ChoiceInv'
<1> USE DEF Choice!WizardKey, Choice!Keep
<1>1. UNCHANGED <<options, active, preparing, conflicted, pc, left, edited>> /\ pc = "wizard"
  BY DEF Choice!disk
<1>2. ChoiceTypes' /\ Settled'
  BY <1>1 DEF ChoiceInv, ChoiceTypes, Settled, KnownOptions
<1> DEFINE old == mem.state
<1>3. old \in Choice!Selected /\ "state" \in DOMAIN mem
  BY <1>1 DEF ChoiceInv, WizardInv
<1>4. "state" \in DOMAIN mem' /\ mem'.state \in Choice!Selected
  <2>1. ASSUME NEW n \in Choice!Names, mem' = [mem EXCEPT !.state.on = (@ \cup {n}) \ (@ \cap {n})]
        PROVE  "state" \in DOMAIN mem' /\ mem'.state \in Choice!Selected
    <3>1. mem'.state = [old EXCEPT !.on = (@ \cup {n}) \ (@ \cap {n})] /\ DOMAIN mem' = DOMAIN mem
      BY <1>3, <2>1, Zenon
    <3> QED
      BY <1>3, <3>1 DEF Choice!Selected
  <2>2. ASSUME NEW p \in Profiles, mem' = [mem EXCEPT !.state.profile = p]
        PROVE  "state" \in DOMAIN mem' /\ mem'.state \in Choice!Selected
    <3>1. mem'.state = [old EXCEPT !.profile = p] /\ DOMAIN mem' = DOMAIN mem
      BY <1>3, <2>2, Zenon
    <3> QED
      BY <1>3, <3>1 DEF Choice!Selected
  <2>3. ASSUME NEW plugins \in SUBSET Extras, mem' = [mem EXCEPT !.state.plugins = plugins]
        PROVE  "state" \in DOMAIN mem' /\ mem'.state \in Choice!Selected
    <3>1. mem'.state = [old EXCEPT !.plugins = plugins] /\ DOMAIN mem' = DOMAIN mem
      BY <1>3, <2>3, Zenon
    <3>2. plugins \in SUBSET Choice!Plugins
      BY DEF Choice!Plugins
    <3> QED
      BY <1>3, <3>1, <3>2 DEF Choice!Selected
  <2> QED
    BY <2>1, <2>2, <2>3
<1> QED
  BY <1>1, <1>2, <1>4 DEF ChoiceInv, TransactionInv, RemovalInv, WizardInv, Transacting, Removing

LEMMA WizardEnds ==
    ASSUME Choice!CapabilityAssumption, ChoiceInv, Choice!WizardDone PROVE ChoiceInv'
<1>1. UNCHANGED <<left, edited>> /\ pc = "wizard"
  BY DEF Choice!WizardDone, Choice!Keep
<1>2. IsRequest(Choice!AsRequest(mem.state))
  BY <1>1, SelectionIsRequest DEF ChoiceInv, WizardInv
<1>3. CASE Choice!Start(Choice!AsRequest(mem.state))
  <2>1. left' \in [{"commands", "troubles", "edits"} -> Nat]
    BY <1>1 DEF ChoiceInv, ChoiceTypes
  <2> QED
    BY <1>1, <1>2, <1>3, <2>1, InstallStarts
<1>4. CASE Choice!Stop /\ UNCHANGED Choice!disk
  <2>1. ChoiceTypes' /\ Settled'
    BY <1>1, <1>4 DEF ChoiceInv, ChoiceTypes, Settled, KnownOptions, Choice!disk
  <2> QED
    BY <1>4, <2>1, Stops DEF Choice!Stop
<1> QED
  BY <1>3, <1>4 DEF Choice!WizardDone

LEMMA WizardOpens ==
    ASSUME Choice!CapabilityAssumption, ChoiceInv, NEW flags \in Flags, Choice!OpenWizard(flags)
    PROVE  ChoiceInv'
<1> DEFINE shown == Choice!Effective(Choice!RequestOf(flags), Choice!Before)
<1>1. /\ UNCHANGED <<options, active, preparing, conflicted, edited>> /\ pc' = "wizard"
      /\ Choice!Spend("commands") /\ mem' = [cmd |-> "wizard", state |-> Choice!StateFrom(shown)]
  BY DEF Choice!OpenWizard, Choice!disk
<1>2. left' \in [{"commands", "troubles", "edits"} -> Nat]
  BY <1>1, SpendsOne
<1>3. ChoiceTypes' /\ Settled'
  BY <1>1, <1>2 DEF ChoiceInv, ChoiceTypes, Settled, KnownOptions
<1>4. IsRequest(Choice!Before)
  <2>1. CASE options # Absent \/ active = NoRec
    <3>1. Choice!Before = FileRequest(options)
      BY <2>1 DEF Choice!Before, Choice!InFile, FileRequest
    <3> QED
      BY <3>1, FileIsRequest DEF ChoiceInv, ChoiceTypes
  <2>2. CASE options = Absent /\ active # NoRec
    <3> DEFINE r == Choice!AsRequest(active.sel)
    <3>1. KnownRecord(active)
      BY DEF ChoiceInv, ChoiceTypes, KnownRecord
    <3>2. IsRequest(r)
      BY <2>2, <3>1, AdditionalBought, SelectionIsRequest
    <3>3. Choice!Before = [r EXCEPT !.plugins = Choice!Additional(active)]
      BY <2>2 DEF Choice!Before
    <3>4. /\ Choice!Before.profile = r.profile /\ Choice!Before.ask = r.ask
          /\ Choice!Before.plugins = Choice!Additional(active)
      BY <3>3 DEF Choice!AsRequest
    <3>5. Choice!Additional(active) \in SUBSET Choice!Plugins
      BY <2>2, <3>1, AdditionalBought
    <3> QED
      BY <3>2, <3>4, <3>5 DEF IsRequest
  <2> QED
    BY <2>1, <2>2
<1>5. IsRequest(shown)
  BY <1>4, FlagsAreRequest, EffectiveIsRequest
<1> HIDE DEF shown
<1> DEFINE state == Choice!StateFrom(shown)
<1>6. state \in Choice!Selected
  <2>1. Choice!Either(shown.profile, Usual) \in Profiles
    BY <1>5 DEF IsRequest, Choice!Either, Choice!CapabilityAssumption
  <2>2. Choice!Either(shown.plugins, {}) \in SUBSET Choice!Plugins
    BY <1>5 DEF IsRequest, Choice!Either
  <2> QED
    BY <2>1, <2>2 DEF Choice!StateFrom, Choice!Selected
<1> HIDE DEF state
<1>7. mem'.state = state /\ "state" \in DOMAIN mem'
  BY <1>1 DEF state
<1> QED
  BY <1>1, <1>3, <1>6, <1>7 DEF ChoiceInv, TransactionInv, RemovalInv, WizardInv, Transacting, Removing

(* upgradeHolyCodexEffect. *)
LEMMA UpgradeStep ==
    ASSUME Choice!CapabilityAssumption, ChoiceInv,
           NEW request \in Choice!UpgradeRequests, NEW other \in BOOLEAN, Choice!Upgrade(request, other)
    PROVE  ChoiceInv'
<1> DEFINE known == Choice!J!RecoveryState(active, preparing, conflicted)
           start == Choice!Effective(request, Choice!SourceOptions(known))
<1>1. /\ Choice!Spend("commands") /\ UNCHANGED edited /\ known # NoRec
      /\ Choice!Start(start) \/ UNCHANGED <<options, active, preparing, conflicted, pc, mem>>
  BY DEF Choice!Upgrade, Choice!disk
<1>2. left' \in [{"commands", "troubles", "edits"} -> Nat]
  BY <1>1, SpendsOne
<1>3. KnownRecord(known)
  BY InterruptedIs DEF KnownRecord, ChoiceInv, ChoiceTypes
<1>4. IsRequest(start)
  <2> HIDE DEF known
  <2>1. IsRequest(Choice!SourceOptions(known))
    BY <1>1, <1>3, SourceIsRequest
  <2> QED
    BY <2>1, UpgradeIsRequest, EffectiveIsRequest
<1>5. CASE Choice!Start(start)
  <2> HIDE DEF start
  <2> QED
    BY <1>1, <1>2, <1>4, <1>5, InstallStarts
<1>6. CASE UNCHANGED <<options, active, preparing, conflicted, pc, mem>>
  BY <1>1, <1>2, <1>6 DEF ChoiceInv, ChoiceTypes, Settled, KnownOptions, TransactionInv, RemovalInv,
        WizardInv, Choice!ActiveRecord
<1> QED
  BY <1>1, <1>5, <1>6

LEMMA RemovalBegins ==
    ASSUME Choice!CapabilityAssumption, ChoiceInv, Choice!Remove PROVE ChoiceInv'
<1> DEFINE known == Choice!J!RecoveryState(active, preparing, conflicted)
           told == [id |-> known.id, digest |-> Choice!J!DigestOf(active), sel |-> known.sel,
                    official |-> known.official]
           from == Choice!From(Choice!Silent, known)
<1>1. /\ Choice!Spend("commands") /\ UNCHANGED <<options, active, preparing, conflicted, edited>>
      /\ known # NoRec /\ pc' = "rm_checkpoint"
      /\ mem' = [cmd |-> "remove", from |-> from, then |-> Choice!Silent, rec |-> told]
  BY DEF Choice!Remove, Choice!disk, Choice!Removal
<1>2. left' \in [{"commands", "troubles", "edits"} -> Nat]
  BY <1>1, SpendsOne
<1>3. KnownRecord(known)
  BY InterruptedIs DEF KnownRecord, ChoiceInv, ChoiceTypes
<1> HIDE DEF known
<1>4. told \in Choice!Journals
  <2>1. Choice!J!DigestOf(active) \in Choice!Records \cup {NoRec}
    BY DEF Choice!J!DigestOf, Choice!J!NoDigest, ChoiceInv, ChoiceTypes
  <2> QED
    BY <1>1, <1>3, <2>1, AdditionalBought DEF Choice!Journals
<1> HIDE DEF told, from
<1>5. mem'.rec = told /\ mem'.cmd = "remove"
  BY <1>1
<1>6. ChoiceTypes' /\ Settled'
  BY <1>1, <1>2 DEF ChoiceInv, ChoiceTypes, Settled, KnownOptions
<1> QED
  BY <1>1, <1>4, <1>5, <1>6 DEF ChoiceInv, TransactionInv, RemovalInv, WizardInv, Transacting, Removing

(* A fault is one of the troubles; what is not a fault spends nothing. *)
LEMMA FaultSpends ==
    ASSUME ChoiceInv, Choice!Fault \/ UNCHANGED left
    PROVE  left' \in [{"commands", "troubles", "edits"} -> Nat]
BY SpendsOne DEF Choice!Fault, ChoiceInv, ChoiceTypes

(* What a transaction remembers, when it turns to roll back or a step of   *)
(* the rollback fails.                                                     *)
Remembers(m, m2) ==
    /\ m2.sel = m.sel /\ m2.jr = m.jr /\ m2.prev = m.prev /\ m2.file = m.file
    /\ m2.edited = m.edited /\ m2.from = m.from

LEMMA RollsBackMemory ==
    ASSUME NEW m, TransactionOK(m), NEW s \in {{}, {"record"}, {"record", "options"}}, NEW m2,
           m2 = [m EXCEPT !.started = s]
    PROVE  TransactionOK(m2) /\ Remembers(m, m2) /\ m2.started = s
<1>1. DOMAIN m2 = DOMAIN m /\ Remembers(m, m2)
  BY DEF Remembers
<1>2. m2.started = s
  BY DEF TransactionOK, TransactionFields
<1>3. PromisedBy(m2) = PromisedBy(m)
  BY <1>1 DEF PromisedBy, Remembers
<1> QED
  BY <1>1, <1>2, <1>3 DEF TransactionOK, Remembers

LEMMA FailedMemory ==
    ASSUME NEW m, TransactionOK(m), NEW m2, m2 = [m EXCEPT !.failed = TRUE]
    PROVE  TransactionOK(m2) /\ Remembers(m, m2) /\ m2.started = m.started /\ m2.failed = TRUE
<1>1. DOMAIN m2 = DOMAIN m /\ Remembers(m, m2) /\ m2.started = m.started
  BY DEF Remembers
<1>2. m2.failed = TRUE
  BY DEF TransactionOK, TransactionFields
<1>3. PromisedBy(m2) = PromisedBy(m)
  BY <1>1 DEF PromisedBy, Remembers
<1> QED
  BY <1>1, <1>2, <1>3 DEF TransactionOK, Remembers

LEMMA RecordKnown ==
    ASSUME TransactionOK(mem)
    PROVE  /\ Choice!ActiveRecord \in Choice!Records /\ Choice!ActiveRecord.sel = mem.sel
           /\ mem.jr \in Choice!Journals
BY DEF TransactionOK, Choice!ActiveRecord, Choice!Records, Choice!Journals

(* A transaction's invariant where it goes on, and where it stops. *)
LEMMA GoesOn ==
    ASSUME ChoiceTypes', Settled', pc' \in Transacting, TransactionInv' PROVE ChoiceInv'
BY DEF ChoiceInv, RemovalInv, WizardInv, Transacting, Removing

LEMMA WriteJournalStep ==
    ASSUME Choice!CapabilityAssumption, ChoiceInv, Choice!WriteJournal PROVE ChoiceInv'
<1>1. /\ pc = "journal" /\ UNCHANGED <<options, active, conflicted, edited>>
      /\ preparing' \in {preparing, mem.jr} /\ (Choice!Fault \/ UNCHANGED left)
  BY DEF Choice!WriteJournal, Choice!Attempted, Choice!Keep, Choice!Fault
<1>2. left' \in [{"commands", "troubles", "edits"} -> Nat]
  BY <1>1, FaultSpends
<1>3. TransactionOK(mem) /\ conflicted = NoRec /\ preparing = NoRec
  BY <1>1 DEF ChoiceInv, TransactionInv, Transacting
<1>4. mem.jr \in Choice!Journals /\ mem.jr # NoRec
  BY <1>3, RecordKnown DEF Choice!CapabilityAssumption
<1>5. ChoiceTypes' /\ Settled'
  BY <1>1, <1>2, <1>3, <1>4 DEF ChoiceInv, ChoiceTypes, Settled, KnownOptions
<1>6. CASE Choice!Stop
  BY <1>5, <1>6, Stops DEF Choice!Stop
<1>7. CASE preparing' = mem.jr /\ pc' = "record" /\ mem' = mem
  BY <1>1, <1>3, <1>5, <1>7, GoesOn DEF ChoiceInv, TransactionInv, Transacting, Untold, Unsaved
<1> QED
  BY <1>6, <1>7 DEF Choice!WriteJournal

LEMMA PublishRecordStep ==
    ASSUME Choice!CapabilityAssumption, ChoiceInv, Choice!PublishRecord PROVE ChoiceInv'
<1>1. /\ pc = "record" /\ UNCHANGED <<options, preparing, conflicted, edited>>
      /\ active' \in {active, Choice!ActiveRecord} /\ (Choice!Fault \/ UNCHANGED left)
  BY DEF Choice!PublishRecord, Choice!Attempted, Choice!Keep, Choice!Fault
<1>2. left' \in [{"commands", "troubles", "edits"} -> Nat]
  BY <1>1, FaultSpends
<1>3. /\ TransactionOK(mem) /\ conflicted = NoRec /\ preparing = mem.jr /\ active = mem.prev
      /\ ~edited => ~mem.edited /\ options = mem.file
  BY <1>1 DEF ChoiceInv, TransactionInv, Transacting, Untold, Unsaved
<1>4. mem.jr # NoRec /\ Choice!ActiveRecord \in Choice!Records
  BY <1>3, RecordKnown DEF Choice!CapabilityAssumption
<1>5. ChoiceTypes' /\ Settled'
  BY <1>1, <1>2, <1>3, <1>4 DEF ChoiceInv, ChoiceTypes, Settled, KnownOptions
<1>6. CASE active' = Choice!ActiveRecord /\ pc' = "options" /\ mem' = mem
  <2>1. Choice!ActiveRecord' = Choice!ActiveRecord
    BY <1>6 DEF Choice!ActiveRecord
  <2> QED
    BY <1>1, <1>3, <1>5, <1>6, <2>1, GoesOn DEF TransactionInv, Transacting, Untold, Unsaved
<1>7. CASE UNCHANGED active /\ Choice!RollsBack({})
  <2>1. pc' = "rb_record" /\ mem' = [mem EXCEPT !.started = {}]
    BY <1>7 DEF Choice!RollsBack
  <2>2. TransactionOK(mem') /\ Remembers(mem, mem') /\ mem'.started = {}
    BY <1>3, <2>1, RollsBackMemory
  <2> QED
    BY <1>1, <1>3, <1>5, <1>7, <2>1, <2>2, GoesOn DEF TransactionInv, Transacting, Untold, Unsaved, Remembers
<1>8. CASE Choice!RollsBack({"record"})
  <2>1. pc' = "rb_record" /\ mem' = [mem EXCEPT !.started = {"record"}]
    BY <1>8 DEF Choice!RollsBack
  <2>2. TransactionOK(mem') /\ Remembers(mem, mem') /\ mem'.started = {"record"}
    BY <1>3, <2>1, RollsBackMemory
  <2> QED
    BY <1>1, <1>3, <1>5, <2>1, <2>2, GoesOn DEF TransactionInv, Transacting, Untold, Unsaved, Remembers
<1> QED
  BY <1>6, <1>7, <1>8 DEF Choice!PublishRecord

LEMMA WriteOptionsStep ==
    ASSUME Choice!CapabilityAssumption, ChoiceInv, Choice!WriteOptions PROVE ChoiceInv'
<1>1. /\ pc = "options" /\ UNCHANGED <<active, preparing, conflicted>>
      /\ options' \in {options, mem.sel} /\ (Choice!Fault \/ UNCHANGED left)
      /\ edited' \in {edited, FALSE}
  BY DEF Choice!WriteOptions, Choice!Attempted, Choice!Fault
<1>2. left' \in [{"commands", "troubles", "edits"} -> Nat]
  BY <1>1, FaultSpends
<1>3. /\ TransactionOK(mem) /\ conflicted = NoRec /\ preparing = mem.jr
      /\ active = Choice!ActiveRecord
  BY <1>1 DEF ChoiceInv, TransactionInv, Transacting
<1>4. mem.jr # NoRec
  BY <1>3, RecordKnown DEF Choice!CapabilityAssumption
<1>5. ChoiceTypes' /\ Settled'
  <2>1. KnownOptions(options')
    BY <1>1, <1>3 DEF KnownOptions, TransactionOK, ChoiceInv, ChoiceTypes
  <2> QED
    BY <1>1, <1>2, <1>3, <1>4, <2>1 DEF ChoiceInv, ChoiceTypes, Settled
<1>6. CASE options' = mem.sel /\ edited' = FALSE /\ pc' = "clear" /\ mem' = mem
  <2>1. Choice!ActiveRecord' = Choice!ActiveRecord
    BY <1>6 DEF Choice!ActiveRecord
  <2> QED
    BY <1>1, <1>3, <1>5, <1>6, <2>1, GoesOn DEF TransactionInv, Transacting, Untold, Unsaved
<1>7. CASE Choice!RollsBack({"record", "options"})
  <2>1. pc' = "rb_record" /\ mem' = [mem EXCEPT !.started = {"record", "options"}]
    BY <1>7 DEF Choice!RollsBack
  <2>2. TransactionOK(mem') /\ Remembers(mem, mem') /\ mem'.started = {"record", "options"}
    BY <1>3, <2>1, RollsBackMemory
  <2> QED
    BY <1>1, <1>3, <1>5, <2>1, <2>2, GoesOn DEF TransactionInv, Transacting, Untold, Unsaved, Remembers
<1> QED
  BY <1>6, <1>7 DEF Choice!WriteOptions

LEMMA ClearJournalStep ==
    ASSUME Choice!CapabilityAssumption, ChoiceInv, Choice!ClearJournal PROVE ChoiceInv'
<1>1. /\ pc = "clear" /\ UNCHANGED <<options, active, edited>> /\ (Choice!Fault \/ UNCHANGED left)
  BY DEF Choice!ClearJournal, Choice!Keep, Choice!Fault
<1>2. left' \in [{"commands", "troubles", "edits"} -> Nat]
  BY <1>1, FaultSpends
<1>3. /\ TransactionOK(mem) /\ conflicted = NoRec /\ preparing = mem.jr
      /\ active = Choice!ActiveRecord /\ (~edited => options = mem.sel)
  BY <1>1 DEF ChoiceInv, TransactionInv, Transacting
<1>4. mem.jr # NoRec /\ Choice!ActiveRecord.sel = mem.sel
  BY <1>3, RecordKnown DEF Choice!CapabilityAssumption
<1>5. CASE preparing' = NoRec /\ conflicted' = NoRec /\ Choice!Stop
  <2>1. ChoiceTypes' /\ Settled'
    BY <1>1, <1>2, <1>3, <1>4, <1>5 DEF ChoiceInv, ChoiceTypes, Settled, KnownOptions
  <2> QED
    BY <1>5, <2>1, Stops DEF Choice!Stop
<1>6. CASE UNCHANGED <<preparing, conflicted>> /\ Choice!RollsBack({"record", "options"})
  <2>1. pc' = "rb_record" /\ mem' = [mem EXCEPT !.started = {"record", "options"}]
    BY <1>6 DEF Choice!RollsBack
  <2>2. TransactionOK(mem') /\ Remembers(mem, mem') /\ mem'.started = {"record", "options"}
    BY <1>3, <2>1, RollsBackMemory
  <2>3. ChoiceTypes' /\ Settled'
    BY <1>1, <1>2, <1>6 DEF ChoiceInv, ChoiceTypes, Settled, KnownOptions
  <2> QED
    BY <1>1, <1>3, <1>6, <2>1, <2>2, <2>3, GoesOn
    DEF TransactionInv, Transacting, Untold, Unsaved, Remembers
<1> QED
  BY <1>5, <1>6 DEF Choice!ClearJournal

LEMMA RestoreRecordStep ==
    ASSUME Choice!CapabilityAssumption, ChoiceInv, Choice!RestoreRecord PROVE ChoiceInv'
<1>1. /\ pc = "rb_record" /\ pc' = "rb_options" /\ UNCHANGED <<options, preparing, conflicted, edited>>
      /\ (Choice!Fault \/ UNCHANGED left) /\ active' \in {active, mem.prev}
  BY DEF Choice!RestoreRecord, Choice!Attempted, Choice!Keep, Choice!Fault
<1>2. left' \in [{"commands", "troubles", "edits"} -> Nat]
  BY <1>1, FaultSpends
<1>3. /\ TransactionOK(mem) /\ conflicted = NoRec /\ preparing = mem.jr
      /\ mem.started = {} => active = mem.prev
      /\ "options" \notin mem.started /\ ~edited => ~mem.edited /\ options = mem.file
  BY <1>1 DEF ChoiceInv, TransactionInv, Transacting, Untold, Unsaved
<1>4. mem.jr # NoRec
  BY <1>3, RecordKnown DEF Choice!CapabilityAssumption
<1>5. ChoiceTypes' /\ Settled'
  BY <1>1, <1>2, <1>3, <1>4 DEF ChoiceInv, ChoiceTypes, Settled, KnownOptions, TransactionOK
<1>6. CASE active' = (IF "record" \in mem.started THEN mem.prev ELSE active) /\ mem' = mem
  <2>1. active' = mem.prev
    <3>1. "record" \notin mem.started => mem.started = {}
      BY <1>3 DEF TransactionOK
    <3> QED
      BY <1>3, <1>6, <3>1
  <2> QED
    BY <1>1, <1>3, <1>5, <1>6, <2>1, GoesOn DEF TransactionInv, Transacting, Untold, Unsaved
<1>7. CASE mem' = [mem EXCEPT !.failed = TRUE]
  <2>1. TransactionOK(mem') /\ Remembers(mem, mem') /\ mem'.started = mem.started /\ mem'.failed = TRUE
    BY <1>3, <1>7, FailedMemory
  <2> QED
    BY <1>1, <1>3, <1>5, <2>1, GoesOn DEF TransactionInv, Transacting, Untold, Unsaved, Remembers
<1> QED
  BY <1>6, <1>7 DEF Choice!RestoreRecord, Choice!Failed

LEMMA RestoreOptionsStep ==
    ASSUME Choice!CapabilityAssumption, ChoiceInv, Choice!RestoreOptions PROVE ChoiceInv'
<1>1. /\ pc = "rb_options" /\ pc' = "rb_rest" /\ UNCHANGED <<active, preparing, conflicted>>
      /\ (Choice!Fault \/ UNCHANGED left) /\ options' \in {options, mem.file}
      /\ edited' \in {edited, mem.edited}
  BY DEF Choice!RestoreOptions, Choice!Attempted, Choice!Keep, Choice!Fault
<1>2. left' \in [{"commands", "troubles", "edits"} -> Nat]
  BY <1>1, FaultSpends
<1>3. /\ TransactionOK(mem) /\ conflicted = NoRec /\ preparing = mem.jr
      /\ ~mem.failed => active = mem.prev
      /\ "options" \notin mem.started /\ ~edited => ~mem.edited /\ options = mem.file
  BY <1>1 DEF ChoiceInv, TransactionInv, Transacting, Untold, Unsaved
<1>4. mem.jr # NoRec
  BY <1>3, RecordKnown DEF Choice!CapabilityAssumption
<1>5. ChoiceTypes' /\ Settled'
  BY <1>1, <1>2, <1>3, <1>4 DEF ChoiceInv, ChoiceTypes, Settled, KnownOptions, TransactionOK
<1>6. CASE "options" \notin mem.started /\ UNCHANGED <<options, mem, edited>>
  BY <1>1, <1>3, <1>5, <1>6, GoesOn DEF TransactionInv, Transacting, Untold, Unsaved
<1>7. CASE UNCHANGED mem /\ options' = mem.file /\ edited' = mem.edited
  BY <1>1, <1>3, <1>5, <1>7, GoesOn DEF TransactionInv, Transacting, Untold, Unsaved
<1>8. CASE mem' = [mem EXCEPT !.failed = TRUE]
  <2>1. TransactionOK(mem') /\ Remembers(mem, mem') /\ mem'.failed = TRUE
    BY <1>3, <1>8, FailedMemory
  <2> QED
    BY <1>1, <1>3, <1>5, <2>1, GoesOn DEF TransactionInv, Transacting, Untold, Unsaved, Remembers
<1> QED
  BY <1>6, <1>7, <1>8 DEF Choice!RestoreOptions, Choice!Failed, Choice!Keep

LEMMA RestoreRestStep ==
    ASSUME Choice!CapabilityAssumption, ChoiceInv, Choice!RestoreRest PROVE ChoiceInv'
<1>1. /\ pc = "rb_rest" /\ pc' = "rb_journal"
      /\ UNCHANGED <<options, active, preparing, conflicted, edited>> /\ (Choice!Fault \/ UNCHANGED left)
      /\ mem' = mem \/ mem' = [mem EXCEPT !.failed = TRUE]
  BY DEF Choice!RestoreRest, Choice!Keep, Choice!Fault, Choice!disk, Choice!Failed
<1>2. left' \in [{"commands", "troubles", "edits"} -> Nat]
  BY <1>1, FaultSpends
<1>3. /\ TransactionOK(mem) /\ conflicted = NoRec /\ preparing = mem.jr
      /\ ~mem.failed => active = mem.prev /\ (~edited => ~mem.edited /\ options = mem.file)
  BY <1>1 DEF ChoiceInv, TransactionInv, Transacting, Untold, Unsaved
<1>4. ChoiceTypes' /\ Settled'
  BY <1>1, <1>2 DEF ChoiceInv, ChoiceTypes, Settled, KnownOptions
<1>5. CASE mem' = mem
  BY <1>1, <1>3, <1>4, <1>5, GoesOn DEF TransactionInv, Transacting, Untold, Unsaved
<1>6. CASE mem' = [mem EXCEPT !.failed = TRUE]
  <2>1. TransactionOK(mem') /\ Remembers(mem, mem') /\ mem'.failed = TRUE
    BY <1>3, <1>6, FailedMemory
  <2> QED
    BY <1>1, <1>3, <1>4, <2>1, GoesOn DEF TransactionInv, Transacting, Untold, Unsaved, Remembers
<1> QED
  BY <1>1, <1>5, <1>6

LEMMA EndRollBackStep ==
    ASSUME Choice!CapabilityAssumption, ChoiceInv, Choice!EndRollBack PROVE ChoiceInv'
<1>1. /\ pc = "rb_journal" /\ UNCHANGED <<options, active, edited>> /\ Choice!Stop
      /\ (Choice!Fault \/ UNCHANGED left)
      /\ \/ preparing' = NoRec /\ conflicted' = (IF mem.failed THEN mem.jr ELSE conflicted)
         \/ UNCHANGED preparing /\ conflicted' \in {conflicted, mem.jr}
  BY DEF Choice!EndRollBack, Choice!Keep, Choice!Fault, Choice!Attempted
<1>2. left' \in [{"commands", "troubles", "edits"} -> Nat]
  BY <1>1, FaultSpends
<1>3. /\ TransactionOK(mem) /\ conflicted = NoRec /\ preparing = mem.jr
      /\ ~mem.failed => active = mem.prev /\ (~edited => ~mem.edited /\ options = mem.file)
  BY <1>1 DEF ChoiceInv, TransactionInv, Transacting, Untold, Unsaved
<1>4. mem.jr \in Choice!Journals /\ mem.jr # NoRec
  BY <1>3, RecordKnown DEF Choice!CapabilityAssumption
<1>5. ChoiceTypes'
  BY <1>1, <1>2, <1>3, <1>4 DEF ChoiceInv, ChoiceTypes, KnownOptions
<1>6. Settled'
  BY <1>1, <1>3, <1>4 DEF Settled, TransactionOK
<1> QED
  BY <1>1, <1>5, <1>6, Stops DEF Choice!Stop

(***************************************************************************)
(* The removal and the restart.                                            *)
(***************************************************************************)
LEMMA RemovalGoesOn ==
    ASSUME ChoiceTypes', Settled', pc' \in Removing, RemovalInv' PROVE ChoiceInv'
BY DEF ChoiceInv, TransactionInv, WizardInv, Transacting, Removing

LEMMA RemovesStep ==
    ASSUME Choice!CapabilityAssumption, ChoiceInv,
           Choice!Checkpoint \/ Choice!DropRecord \/ Choice!DropOptions \/ Choice!DropJournals
    PROVE  ChoiceInv'
<1>1. /\ Choice!Fault \/ UNCHANGED left
      /\ pc \in {"rm_checkpoint", "rm_record", "rm_options", "rm_journals"}
      /\ edited' \in BOOLEAN
  BY DEF Choice!Checkpoint, Choice!DropRecord, Choice!DropOptions, Choice!DropJournals, Choice!Fault,
         Choice!Keep, ChoiceInv, ChoiceTypes
<1>2. left' \in [{"commands", "troubles", "edits"} -> Nat]
  BY <1>1, FaultSpends
<1>3. /\ mem.rec \in Choice!Journals /\ mem.rec # NoRec /\ (mem.cmd = "reconcile" => ReconcileOK(mem))
      /\ pc \in {"rm_record", "rm_options", "rm_journals"} => conflicted # NoRec
      /\ pc \in {"rm_options", "rm_journals"} => active = NoRec
  BY <1>1 DEF ChoiceInv, RemovalInv, Removing, Choice!CapabilityAssumption
<1>4. CASE Choice!Checkpoint
  <2>1. ChoiceTypes' /\ Settled'
    BY <1>2, <1>3, <1>4
    DEF Choice!Checkpoint, Choice!Attempted, Choice!Keep, Choice!Fault, ChoiceInv, ChoiceTypes, Settled, KnownOptions
  <2>2. CASE Choice!Stop
    BY <2>1, <2>2, Stops DEF Choice!Stop
  <2>3. CASE conflicted' = mem.rec /\ pc' = "rm_record" /\ mem' = mem
    BY <1>3, <2>1, <2>3, RemovalGoesOn DEF RemovalInv, Removing
  <2> QED
    BY <1>4, <2>2, <2>3 DEF Choice!Checkpoint
<1>5. CASE Choice!DropRecord
  <2>1. ChoiceTypes' /\ Settled'
    BY <1>2, <1>3, <1>5
    DEF Choice!DropRecord, Choice!Keep, Choice!Fault, ChoiceInv, ChoiceTypes, Settled, KnownOptions
  <2>2. CASE Choice!Stop
    BY <2>1, <2>2, Stops DEF Choice!Stop
  <2>3. CASE active' = NoRec /\ pc' = "rm_options" /\ mem' = mem
    BY <1>3, <1>5, <2>1, <2>3, RemovalGoesOn DEF RemovalInv, Removing, Choice!DropRecord
  <2> QED
    BY <1>5, <2>2, <2>3 DEF Choice!DropRecord
<1>6. CASE Choice!DropOptions
  <2>1. ChoiceTypes' /\ Settled'
    BY <1>2, <1>3, <1>6
    DEF Choice!DropOptions, Choice!Fault, ChoiceInv, ChoiceTypes, Settled, KnownOptions
  <2>2. CASE Choice!Stop
    BY <2>1, <2>2, Stops DEF Choice!Stop
  <2>3. CASE pc' = "rm_journals" /\ mem' = mem
    BY <1>3, <1>6, <2>1, <2>3, RemovalGoesOn DEF RemovalInv, Removing, Choice!DropOptions
  <2> QED
    BY <1>6, <2>2, <2>3 DEF Choice!DropOptions
<1>7. CASE Choice!DropJournals
  <2>1. ChoiceTypes' /\ Settled'
    BY <1>2, <1>3, <1>7
    DEF Choice!DropJournals, Choice!Keep, Choice!Fault, ChoiceInv, ChoiceTypes, Settled, KnownOptions
  <2>2. CASE Choice!Stop
    BY <2>1, <2>2, Stops DEF Choice!Stop
  <2>3. CASE mem.cmd = "reconcile" /\ preparing' = NoRec /\ conflicted' = NoRec /\ pc' = "restart" /\ mem' = mem
    BY <1>3, <1>7, <2>1, <2>3, RemovalGoesOn DEF RemovalInv, Removing, Choice!DropJournals
  <2> QED
    BY <1>7, <2>2, <2>3 DEF Choice!DropJournals
<1> QED
  BY <1>4, <1>5, <1>6, <1>7

(* What was narrowed is what the restart chooses, so the promise holds.    *)
LEMMA RestartStep ==
    ASSUME Choice!CapabilityAssumption, ChoiceInv, Choice!Restart PROVE ChoiceInv'
<1> DEFINE from == mem.from
           then == mem.then
           file == FileRequest(options)
           chosen == Choice!Chosen(then, file, active)
<1>1. pc = "restart" /\ UNCHANGED <<options, active, preparing, conflicted, edited>>
      /\ (Choice!Fault \/ UNCHANGED left)
  BY DEF Choice!Restart, Choice!disk, Choice!Keep, Choice!Fault
<1>2. left' \in [{"commands", "troubles", "edits"} -> Nat]
  BY <1>1, FaultSpends
<1>3. CASE Choice!Stop
  <2>1. ChoiceTypes' /\ Settled'
    BY <1>1, <1>2 DEF ChoiceInv, ChoiceTypes, Settled, KnownOptions
  <2> QED
    BY <1>3, <2>1, Stops DEF Choice!Stop
<1>4. CASE pc' = "journal" /\ mem' = Choice!Transaction(then, from)
  <2>1. ReconcileOK(mem) /\ active = NoRec /\ preparing = NoRec /\ conflicted = NoRec
    BY <1>1 DEF ChoiceInv, RemovalInv, Removing
  <2>2. /\ IsRequest(then) /\ FromOK(from) /\ from.record # NoRec /\ Filled(from, then)
        /\ DOMAIN then.ask = Carried /\ \A n \in Carried : then.ask[n] = WishFor(from, n)
    BY <2>1 DEF ReconcileOK
  <2>3. IsRequest(file) /\ KnownRecord(active)
    BY FileIsRequest DEF ChoiceInv, ChoiceTypes, KnownRecord
  <2> HIDE DEF from, then, file
  <2>4. then.profile \in {Absent, chosen.profile} /\ then.plugins \in {Absent, chosen.plugins}
    BY <2>2, <2>3, ChosenIsSelected
  <2> HIDE DEF chosen
  <2>5. Filled(from, chosen)
    <3>1. from.options # Absent => from.options.profile # Absent
      BY <2>2 DEF FromOK, KnownOptions, Choice!Selected, Choice!CapabilityAssumption
    <3> QED
      BY <2>2, <2>4, <3>1 DEF Filled
  <2>6. ASSUME NEW n \in Carried PROVE Choice!Asked(then, file, active)[n] = WishFor(from, n)
    <3>1. n \in Choice!Names
      BY DEF Choice!Names
    <3>2. Choice!Asked(then, file, active)[n] = then.ask[n]
      BY <2>2, <2>3, <3>1, AskedAnswered
    <3> QED
      BY <2>2, <3>2
  <2> QED
    BY <1>1, <1>2, <1>4, <2>1, <2>2, <2>5, <2>6, TransactionBegins DEF chosen, file
<1> QED
  BY <1>3, <1>4 DEF Choice!Restart

(* The user edits install.toml; a command dies. *)
LEMMA OptionsEdited ==
    ASSUME Choice!CapabilityAssumption, ChoiceInv, NEW file \in Choice!Choices \cup {Absent},
           Choice!EditOptions(file)
    PROVE  ChoiceInv'
<1>1. /\ UNCHANGED <<active, preparing, conflicted, pc, mem>> /\ options' = file /\ edited' = TRUE
      /\ left' \in [{"commands", "troubles", "edits"} -> Nat]
  BY SpendsOne DEF Choice!EditOptions
<1>2. KnownOptions(options')
  <2>1. Choice!Choices \subseteq Choice!Selected
    BY DEF Choice!Choices, Choice!Selected, Choice!Plugins
  <2> QED
    BY <1>1, <2>1 DEF KnownOptions
<1>3. ChoiceTypes' /\ Settled'
  BY <1>1, <1>2 DEF ChoiceInv, ChoiceTypes, Settled
<1>4. TransactionInv'
  <2>1. Choice!ActiveRecord' = Choice!ActiveRecord
    BY <1>1 DEF Choice!ActiveRecord
  <2> QED
    BY <1>1, <2>1 DEF ChoiceInv, TransactionInv
<1>5. RemovalInv' /\ WizardInv'
  BY <1>1 DEF ChoiceInv, RemovalInv, WizardInv
<1> QED
  BY <1>3, <1>4, <1>5 DEF ChoiceInv

LEMMA CommandDies ==
    ASSUME ChoiceInv, Choice!Die PROVE ChoiceInv'
<1>1. /\ UNCHANGED <<options, active, preparing, conflicted, edited>> /\ Choice!Stop
      /\ left' \in [{"commands", "troubles", "edits"} -> Nat]
  BY FaultSpends DEF Choice!Die, Choice!disk, Choice!Fault
<1>2. ChoiceTypes' /\ Settled'
  BY <1>1 DEF ChoiceInv, ChoiceTypes, Settled, KnownOptions
<1> QED
  BY <1>1, <1>2, Stops DEF Choice!Stop

LEMMA ChoiceInit ==
    ASSUME Choice!CapabilityAssumption, Choice!Init PROVE ChoiceInv
BY DEF Choice!Init, ChoiceInv, ChoiceTypes, Settled, KnownOptions, TransactionInv, RemovalInv,
       WizardInv, Transacting, Removing, Choice!CapabilityAssumption

LEMMA ChoiceNext ==
    ASSUME Choice!CapabilityAssumption, ChoiceInv, [Choice!Next]_(Choice!vars) PROVE ChoiceInv'
<1>1. ASSUME NEW flags \in Flags, Choice!InstallByFlags(flags) PROVE ChoiceInv'
  <2>1. Choice!Start(Choice!RequestOf(flags)) /\ UNCHANGED edited /\ Choice!Spend("commands")
    BY <1>1 DEF Choice!InstallByFlags
  <2>2. IsRequest(Choice!RequestOf(flags))
    BY FlagsAreRequest
  <2>3. left' \in [{"commands", "troubles", "edits"} -> Nat]
    BY <2>1, SpendsOne
  <2> QED
    BY <2>1, <2>2, <2>3, InstallStarts
<1>2. CASE Choice!Transacts
  BY <1>2, WriteJournalStep, PublishRecordStep, WriteOptionsStep, ClearJournalStep DEF Choice!Transacts
<1>3. CASE Choice!RollBack
  BY <1>3, RestoreRecordStep, RestoreOptionsStep, RestoreRestStep, EndRollBackStep DEF Choice!RollBack
<1>4. CASE Choice!Removes
  BY <1>4, RemovesStep, RestartStep DEF Choice!Removes
<1>5. CASE UNCHANGED Choice!vars
  <2>1. UNCHANGED <<options, active, preparing, conflicted, pc, mem, left, edited>>
    BY <1>5 DEF Choice!vars
  <2>2. Choice!ActiveRecord' = Choice!ActiveRecord
    BY <2>1 DEF Choice!ActiveRecord
  <2>3. ChoiceTypes' /\ Settled' /\ RemovalInv' /\ WizardInv'
    BY <2>1 DEF ChoiceInv, ChoiceTypes, Settled, KnownOptions, RemovalInv, WizardInv
  <2>4. TransactionInv'
    BY <2>1, <2>2 DEF ChoiceInv, TransactionInv
  <2> QED
    BY <2>3, <2>4 DEF ChoiceInv
<1> QED
  BY <1>1, <1>2, <1>3, <1>4, <1>5, WizardOpens, UpgradeStep, WizardStep, WizardEnds, RemovalBegins,
     OptionsEdited, CommandDies DEF Choice!Next

(* What a user selects is what the install that ends well has done: the    *)
(* wish of its first command, also after it had to remove an interrupted   *)
(* install and start again (installer.ts, maintenance.ts).                 *)
THEOREM SelectionsFollowed ==
    ASSUME Choice!CapabilityAssumption
    PROVE  Choice!Spec => []Choice!ChoicesFollowed
<1>1. ChoiceInv => Choice!ChoicesFollowed
  <2> SUFFICES ASSUME ChoiceInv, pc = "clear" PROVE Choice!ChoicesFollowed
    BY DEF Choice!ChoicesFollowed
  <2>1. TransactionOK(mem) /\ active = Choice!ActiveRecord
    BY DEF ChoiceInv, TransactionInv, Transacting
  <2>2. active.sel = mem.sel
    BY <2>1, RecordKnown
  <2>3. Filled(mem.from, mem.sel) /\ FromOK(mem.from) /\
        \A n \in PromisedBy(mem) : (n \in mem.sel.on) <=> WishFor(mem.from, n)
    BY <2>1 DEF TransactionOK
  <2>4. ASSUME NEW n \in Choice!Names PROVE Choice!Wish(n) = WishFor(mem.from, n) /\ WishFor(mem.from, n) \in BOOLEAN
    <3>1. WishFor(mem.from, n) \in BOOLEAN
      <4>1. n \in DOMAIN mem.from.request.ask => mem.from.request.ask[n] \in BOOLEAN
        BY <2>3 DEF FromOK, IsRequest
      <4>2. /\ (n \in mem.from.options.on) \in BOOLEAN /\ (n \in mem.from.record.sel.on) \in BOOLEAN
            /\ (n \in Standard) \in BOOLEAN
        OBVIOUS
      <4> QED
        BY <4>1, <4>2, Zenon DEF WishFor
    <3> DEFINE told == IF mem.from.options = Absent THEN Choice!Silent ELSE Choice!AsRequest(mem.from.options)
               said == {r \in {mem.from.request, told} : n \in DOMAIN r.ask}
    <3>2. n \notin DOMAIN mem.from.request.ask => (said # {} <=> mem.from.options # Absent)
      <4>1. mem.from.options = Absent => DOMAIN told.ask = {}
        BY SilentIsRequest
      <4>2. mem.from.options # Absent => DOMAIN told.ask = Choice!Names
        BY <2>3, SelectionIsRequest DEF FromOK, KnownOptions
      <4> HIDE DEF told
      <4> QED
        BY <4>1, <4>2
    <3>3. Choice!Wish(n) =
            IF n \in DOMAIN mem.from.request.ask THEN mem.from.request.ask[n]
            ELSE IF said # {} THEN n \in mem.from.options.on
            ELSE IF mem.from.record # NoRec THEN n \in mem.from.record.sel.on ELSE n \in Standard
      BY DEF Choice!Wish
    <3> HIDE DEF said
    <3> QED
      BY <3>1, <3>2, <3>3 DEF WishFor
  <2>5. Choice!Promised = PromisedBy(mem) /\ PromisedBy(mem) \subseteq Choice!Names
    BY DEF Choice!Promised, PromisedBy, Choice!Names
  <2>6. \A n \in Choice!Promised : (n \in active.sel.on) = Choice!Wish(n)
    BY <2>2, <2>3, <2>4, <2>5
  <2> QED
    BY <2>2, <2>3, <2>6 DEF Choice!ChoicesFollowed, Filled
<1> QED
  BY <1>1, ChoiceInit, ChoiceNext, PTL DEF Choice!Spec

(* install.toml agrees with the active record between commands.            *)
THEOREM OptionsAgree ==
    ASSUME Choice!CapabilityAssumption
    PROVE  Choice!Spec => []Choice!OptionsMatchRecord
<1>1. ChoiceInv => Choice!OptionsMatchRecord
  BY DEF ChoiceInv, Settled, Choice!OptionsMatchRecord
<1> QED
  BY <1>1, ChoiceInit, ChoiceNext, PTL DEF Choice!Spec

-----------------------------------------------------------------------------
(***************************************************************************)
(* The review of an install.  Nothing is taken from config.toml before it  *)
(* was answered for, and whatever is taken is either back or told apart    *)
(* from what others have written since.                                    *)
(***************************************************************************)
ReviewFields == {"mode", "request", "base", "temp", "repaired", "before", "decisions", "plan", "at",
              "told", "torn", "outcome"}
Document(d) == d \in [Review!Items -> Review!Values] /\ \A i \in Invalid : d[i] # Review!Good

Remembered(m) ==
    /\ ReviewFields \subseteq DOMAIN m
    /\ Document(m.base)
    /\ m.decisions = [i \in Review!Items |-> m.decisions[i]]
    /\ \A i \in Review!Items : m.decisions[i] \in {Review!None} \cup Review!Choices(i)

ReviewTypes == Document(config) /\ Document(found) /\ Remembered(mem)

ScreenInv ==
    pc = "screen" =>
        /\ {"shown", "choice", "next"} \subseteq DOMAIN screen
        /\ screen.next \in {"temp", "source", "decide"} /\ screen.shown \subseteq Review!Items
        /\ screen.choice = [i \in Review!Items |-> screen.choice[i]]
        /\ \A i \in screen.shown : screen.choice[i] \in Review!Choices(i)

(* What has to be answered for before config.toml is changed. *)
Answered(i) == mem.decisions[i] # Review!None \/ (pc = "screen" /\ i \in screen.shown)
Towards(next) == pc = next \/ (pc = "screen" /\ screen.next = next)
AnswersInv ==
    /\ pc \notin {"start", "wizard", "read", "end"} => \A i \in Review!Taken(mem.base) : Answered(i)
    /\ Towards("source") => \A i \in Markets : mem.base[i] \in Review!Theirs => Answered(i)
    /\ Towards("decide") \/ pc \in {"review", "begin", "strip", "publish"}
         => \A i \in Review!Reviewable : Answered(i)

PlanInv ==
    /\ pc \in {"review", "begin", "strip", "publish", "published", "undo_values"}
         => mem.plan = Review!PlanOf(mem.decisions)
    /\ pc = "strip" => \A i \in Review!Taken(mem.base) : mem.at[i] \in {Absent, mem.base[i]}

(* config.toml and what others have made of it, entry by entry: as they    *)
(* left it, or put back; hidden for Codex; away; published.                *)
Kept(i) == config[i] = found[i] \/ (i \in Invalid /\ found[i] = Absent /\ config[i] = mem.base[i])
Hides(t, i) ==
    /\ t[i] = mem.base[i] \/ (i \in Review!Taken(mem.base) /\ t[i] = Absent) \/ (i \in Markets /\ t[i] = Review!Good)
    /\ config[i] = t[i] => found[i] = mem.base[i] \/ (i \in Invalid /\ found[i] = Absent)
    /\ config[i] # t[i] => config[i] = found[i]
Away(i) == config[i] = found[i] \/ (config[i] = Absent /\ found[i] = mem.base[i])
Put(i) ==
    /\ config[i] = mem.plan[i] => found[i] = mem.base[i] \/ mem.decisions[i] = "keep"
    /\ config[i] # mem.plan[i] => config[i] = found[i]
Restored(i) == config[i] = found[i] \/ Review!PutBack(i)

Quiet == {"wizard", "screen", "temp", "incomplete", "source", "conflicts", "decide", "review", "begin", "strip"}
TextInv ==
    /\ pc \notin {"list", "back", "repair", "end"} => mem.temp = {}
    /\ pc = "start" => config = found
    /\ pc = "read" => \A i \in Review!Items : config[i] = found[i] \/ (i \in Invalid /\ found[i] = Absent)
    /\ pc \in Quiet => \A i \in Review!Items : Kept(i)
    /\ pc \in {"list", "back", "repair"} =>
         \/ mem.temp = {} /\ \A i \in Review!Items : Kept(i)
         \/ \E t \in [Review!Items -> Review!Values] : mem.temp = {t} /\ \A i \in Review!Items : Hides(t, i)
    /\ pc = "publish" => \A i \in Review!Items : IF i \in Review!Taken(mem.base) THEN Away(i) ELSE Kept(i)
    /\ pc \in {"published", "undo_values"} => \A i \in Review!Items :
         IF i \in Review!Taken(mem.base) THEN Away(i) ELSE IF Review!Untouched(i) THEN Kept(i) ELSE Put(i)
    /\ pc = "undo" /\ ~mem.told => \A i \in Review!Items :
         IF i \in Review!Taken(mem.base) THEN Away(i) ELSE Restored(i)
    /\ pc = "end" /\ mem.outcome # "installed" /\ ~mem.told
         => \A i \in Review!Items : Restored(i) \/ Review!LeftTorn(i)

ReviewInv == ReviewTypes /\ ScreenInv /\ AnswersInv /\ PlanInv /\ TextInv

LEMMA ChoicesAre ==
    ASSUME Review!ReviewAssumption
    PROVE  /\ \A i \in Invalid : Review!Choices(i) = {"remove"} /\ Review!Default(i) = "remove"
           /\ \A i \in Markets \cup Offered : Review!Choices(i) = {"replace"} /\ Review!Default(i) = "replace"
           /\ \A i \in Keys : Review!Choices(i) = {"keep", "replace"} /\ Review!Default(i) = "replace"
           /\ \A i \in Review!Items : Review!Default(i) \in Review!Choices(i) /\ Review!None \notin Review!Choices(i)
<1>1. \A i \in Invalid : Review!Choices(i) = {"remove"} /\ Review!Default(i) = "remove"
  BY DEF Review!ReviewAssumption, Review!Choices, Review!Default
<1>2. \A i \in Markets \cup Offered : Review!Choices(i) = {"replace"} /\ Review!Default(i) = "replace"
  BY DEF Review!ReviewAssumption, Review!Choices, Review!Default
<1>3. \A i \in Keys : Review!Choices(i) = {"keep", "replace"} /\ Review!Default(i) = "replace"
  BY DEF Review!ReviewAssumption, Review!Choices, Review!Default
<1> QED
  BY <1>1, <1>2, <1>3 DEF Review!Items, Review!None

LEMMA TakenAre ==
    ASSUME NEW base
    PROVE  Review!Taken(base) \subseteq Invalid /\ \A i \in Review!Taken(base) : base[i] \in {"theirs", "other"}
BY DEF Review!Taken, Review!Theirs

(* What a step may change of the memory without changing what was read,    *)
(* asked for and answered.                                                 *)
Same(m, m2) ==
    /\ DOMAIN m2 = DOMAIN m /\ m2.base = m.base /\ m2.request = m.request /\ m2.decisions = m.decisions

LEMMA SameRemembered ==
    ASSUME NEW m, Remembered(m), NEW m2, Same(m, m2) PROVE Remembered(m2)
BY DEF Remembered, Same

LEMMA SameQuestions ==
    ASSUME Same(mem, mem')
    PROVE  /\ Review!Taken(mem.base)' = Review!Taken(mem.base) /\ Review!Reviewable' = Review!Reviewable
           /\ Review!PlanOf(mem.decisions)' = Review!PlanOf(mem.decisions)
           /\ \A i \in Review!Items : Review!Untouched(i)' <=> Review!Untouched(i)
BY DEF Same, Review!Reviewable, Review!Conflict, Review!PlanOf, Review!Untouched

LEMMA Unanswered ==
    ASSUME ReviewInv, pc # "screen", NEW i \in Review!Items, Answered(i)
    PROVE  mem.decisions[i] \in Review!Choices(i)
BY DEF ReviewInv, ReviewTypes, Remembered, Answered

(* The install ends with the text as it is, or tells what it is not. *)
LEMMA EndsWithText ==
    ASSUME ReviewTypes', pc' = "end",
           mem'.outcome # "installed" /\ ~mem'.told
                => (\A i \in Review!Items : Restored(i) \/ Review!LeftTorn(i))'
    PROVE  ReviewInv'
BY DEF ReviewInv, ScreenInv, AnswersInv, PlanInv, TextInv, Quiet, Towards

LEMMA EndsWith ==
    ASSUME NEW m, Remembered(m), NEW outcome, Review!EndWith(outcome, m), Document(config'), Document(found'),
           \A i \in Review!Items :
                \/ config'[i] = found'[i]
                \/ config'[i] = m.base[i] /\ (m.decisions[i] = "keep" \/ (i \in Invalid /\ found'[i] = Absent))
    PROVE  ReviewInv'
<1>1. pc' = "end" /\ mem' = [m EXCEPT !.outcome = outcome]
  BY DEF Review!EndWith
<1>2. Same(m, mem')
  BY <1>1 DEF Same
<1>3. ReviewTypes'
  BY <1>2, SameRemembered DEF ReviewTypes
<1>4. (\A i \in Review!Items : Restored(i))'
  BY <1>2 DEF Restored, Review!PutBack, Same
<1> QED
  BY <1>1, <1>3, <1>4, EndsWithText

LEMMA EndsKept ==
    ASSUME ReviewInv, NEW outcome, Review!EndWith(outcome, mem), UNCHANGED <<config, found>>,
           \A i \in Review!Items : Kept(i) \/ Restored(i)
    PROVE  ReviewInv'
<1>1. \A i \in Review!Items :
                \/ config[i] = found[i]
                \/ config[i] = mem.base[i] /\ (mem.decisions[i] = "keep" \/ (i \in Invalid /\ found[i] = Absent))
  BY DEF Kept, Restored, Review!PutBack
<1>2. Remembered(mem) /\ Document(config) /\ Document(found)
  BY DEF ReviewInv, ReviewTypes
<1> QED
  BY <1>1, <1>2, EndsWith

LEMMA EndsTelling ==
    ASSUME ReviewInv, Document(config'), UNCHANGED found, NEW m, pc' = "end",
           m = [mem EXCEPT !.told = TRUE], mem' = [m EXCEPT !.outcome = "failed"]
    PROVE  ReviewInv'
<1>1. Same(mem, m) /\ m.told = TRUE
  BY DEF Same, ReviewInv, ReviewTypes, Remembered, ReviewFields
<1>2. Same(mem, mem') /\ mem'.told = TRUE
  BY <1>1 DEF Same
<1>3. ReviewTypes'
  BY <1>2, SameRemembered DEF ReviewInv, ReviewTypes
<1> QED
  BY <1>2, <1>3, EndsWithText

(* Where a write failed and stands, what it took away is away. *)
LEMMA EndsTorn ==
    ASSUME ReviewInv, Document(config'), UNCHANGED found, Review!Refused([mem EXCEPT !.torn = TRUE]),
           \A i \in Review!Items :
                \/ config'[i] = config[i] /\ Kept(i)
                \/ i \in Review!Taken(mem.base) /\ config'[i] = Absent
                \/ i \in Markets /\ config'[i] = Review!Good
    PROVE  ReviewInv'
<1>1. PICK m : m = [mem EXCEPT !.torn = TRUE]
  OBVIOUS
<1>2. pc' = "end" /\ mem' = [m EXCEPT !.outcome = "failed"]
  BY <1>1 DEF Review!Refused, Review!EndWith
<1>3. Same(mem, m) /\ m.torn = TRUE
  BY <1>1 DEF Same, ReviewInv, ReviewTypes, Remembered, ReviewFields
<1>4. Same(mem, mem') /\ mem'.torn = TRUE
  BY <1>2, <1>3 DEF Same
<1>5. ReviewTypes'
  BY <1>4, SameRemembered DEF ReviewInv, ReviewTypes
<1>6. ASSUME NEW i \in Review!Items PROVE (Restored(i) \/ Review!LeftTorn(i))'
  <2>1. CASE config'[i] = config[i] /\ Kept(i)
    BY <1>4, <2>1 DEF Kept, Restored, Review!PutBack, Same
  <2>2. CASE i \in Review!Taken(mem.base) /\ config'[i] = Absent
    BY <1>4, <2>2 DEF Review!LeftTorn, Same
  <2>3. CASE i \in Markets /\ config'[i] = Review!Good
    BY <1>4, <2>3 DEF Review!LeftTorn, Same
  <2> QED
    BY <2>1, <2>2, <2>3
<1> QED
  BY <1>2, <1>5, <1>6, EndsWithText

(* Between the steps that change config.toml: what was kept is kept. *)
LEMMA KeptStays ==
    ASSUME Same(mem, mem'), UNCHANGED <<config, found>>, NEW i
    PROVE  Kept(i) => Kept(i)'
BY DEF Same, Kept

LEMMA StartSteps ==
    ASSUME Review!ReviewAssumption, ReviewInv, Review!Start \/ Review!Wizard PROVE ReviewInv'
<1>1. UNCHANGED <<config, found>> /\ pc \in {"start", "wizard"} /\ \A i \in Review!Items : Kept(i)
  BY DEF Review!Start, Review!Wizard, Review!Alone, Review!Unwritten, ReviewInv, TextInv, Quiet, Kept
<1>2. ASSUME NEW outcome, Review!EndWith(outcome, mem) PROVE ReviewInv'
  BY <1>1, <1>2, EndsKept
<1>3. ASSUME NEW mode, NEW request \in SUBSET Offered, mem' = Review!Fresh(mode, request), pc' \in {"wizard", "read"},
             pc = "start" \/ pc' = "read"
      PROVE  ReviewInv'
  <2> DEFINE base == [i \in Review!Items |-> Absent]
             decisions == [i \in Review!Items |-> Review!None]
  <2>1. /\ mem' = [mode |-> mode, request |-> request, base |-> base, temp |-> {}, repaired |-> FALSE,
                   before |-> Review!None, decisions |-> decisions, plan |-> base, at |-> base,
                   told |-> FALSE, torn |-> FALSE, outcome |-> Review!None]
    BY <1>3 DEF Review!Fresh
  <2>5. Document(base)
    BY DEF Document, Review!Values, Review!Good, Review!ReviewAssumption, Review!Items
  <2>6. decisions = [i \in Review!Items |-> decisions[i]] /\ \A i \in Review!Items : decisions[i] = Review!None
    OBVIOUS
  <2> HIDE DEF base, decisions
  <2>2. mem'.base = base /\ mem'.decisions = decisions /\ mem'.temp = {} /\ ReviewFields \subseteq DOMAIN mem'
    BY <2>1 DEF ReviewFields
  <2>3. ReviewTypes'
    BY <1>1, <2>2, <2>5, <2>6 DEF ReviewInv, ReviewTypes, Remembered
  <2>4. TextInv'
    BY <1>1, <1>3, <2>2 DEF ReviewInv, TextInv, Kept, Quiet
  <2> QED
    BY <1>3, <2>3, <2>4 DEF ReviewInv, ScreenInv, AnswersInv, PlanInv, Towards
<1> QED
  BY <1>1, <1>2, <1>3 DEF Review!Start, Review!Wizard, Review!Refused

(* A screen comes up. *)
LEMMA AskStep ==
    ASSUME Review!ReviewAssumption, ReviewInv, NEW m, Remembered(m), m.temp = {},
           NEW shown, shown \subseteq Review!Items,
           NEW next \in {"temp", "source", "decide"}, Review!Ask(shown, next, m), UNCHANGED <<config, found>>,
           \A i \in Review!Taken(m.base) : m.decisions[i] # Review!None \/ i \in shown,
           next = "source" => \A i \in Markets : m.base[i] \in Review!Theirs => m.decisions[i] # Review!None \/ i \in shown,
           next = "decide" => m.request = mem.request /\ m.base = mem.base
                /\ \A i \in Review!Reviewable : m.decisions[i] # Review!None \/ i \in shown,
           \A i \in Review!Items : config[i] = found[i] \/ (i \in Invalid /\ found[i] = Absent /\ config[i] = m.base[i])
    PROVE  ReviewInv'
<1> DEFINE choice == [i \in Review!Items |-> IF i \in shown THEN Review!Preset(i) ELSE Review!None]
<1>1. /\ pc' = "screen" /\ mem' = [m EXCEPT !.before = pc]
      /\ screen' = [shown |-> shown, next |-> next, choice |-> choice]
  BY DEF Review!Ask
<1>2. \A i \in shown : choice[i] \in Review!Choices(i)
  BY ChoicesAre DEF Review!Preset
<1>3. choice = [i \in Review!Items |-> choice[i]]
  OBVIOUS
<1> HIDE DEF choice
<1>4. /\ screen'.shown = shown /\ screen'.next = next /\ screen'.choice = choice
      /\ {"shown", "choice", "next"} \subseteq DOMAIN screen'
  BY <1>1
<1>5. Same(m, mem') /\ mem'.temp = {}
  BY <1>1 DEF Same
<1>6. ReviewTypes'
  BY <1>5, SameRemembered DEF ReviewInv, ReviewTypes
<1>7. ScreenInv'
  BY <1>2, <1>3, <1>4 DEF ScreenInv
<1>8. AnswersInv'
  <2>1. ASSUME NEW i, m.decisions[i] # Review!None \/ i \in shown PROVE Answered(i)'
    BY <1>1, <1>4, <1>5, <2>1 DEF Answered, Same
  <2>2. Review!Taken(mem.base)' = Review!Taken(m.base)
    BY <1>5 DEF Same
  <2>3. next = "decide" => Review!Reviewable' = Review!Reviewable
    BY <1>5 DEF Same, Review!Reviewable, Review!Conflict
  <2>4. mem'.base = m.base
    BY <1>5 DEF Same
  <2> QED
    BY <1>1, <1>4, <2>1, <2>2, <2>3, <2>4 DEF AnswersInv, Towards
<1>9. PlanInv'
  BY <1>1 DEF PlanInv
<1>10. TextInv'
  <2>1. \A i \in Review!Items : Kept(i)'
    BY <1>5 DEF Kept, Same
  <2> QED
    BY <1>1, <1>5, <2>1 DEF TextInv, Quiet
<1> QED
  BY <1>6, <1>7, <1>8, <1>9, <1>10 DEF ReviewInv

(* The answers of a screen are taken over. *)
LEMMA DecidedStep ==
    ASSUME Review!ReviewAssumption, ReviewInv, pc = "screen", NEW choice,
           \A i \in screen.shown : choice[i] \in Review!Choices(i),
           Review!Decided(choice), UNCHANGED <<config, found>>
    PROVE  ReviewInv'
<1> DEFINE shown == screen.shown
           decisions == [i \in Review!Items |-> IF i \in shown THEN choice[i] ELSE mem.decisions[i]]
<1>1. mem' = [mem EXCEPT !.decisions = decisions] /\ pc' = screen.next /\ screen' = Review!NoScreen
  BY DEF Review!Decided
<1>2. shown \subseteq Review!Items /\ screen.next \in {"temp", "source", "decide"}
  BY DEF ReviewInv, ScreenInv
<1>3. \A i \in Review!Items : decisions[i] = IF i \in shown THEN choice[i] ELSE mem.decisions[i]
  OBVIOUS
<1>4. decisions = [i \in Review!Items |-> decisions[i]]
  OBVIOUS
<1> HIDE DEF decisions
<1>5. /\ DOMAIN mem' = DOMAIN mem /\ mem'.base = mem.base /\ mem'.request = mem.request
      /\ mem'.temp = mem.temp /\ mem'.decisions = decisions
  BY <1>1 DEF ReviewInv, ReviewTypes, Remembered, ReviewFields
<1>6. ReviewTypes'
  <2>1. \A i \in Review!Items : decisions[i] \in {Review!None} \cup Review!Choices(i)
    BY <1>2, <1>3 DEF ReviewInv, ReviewTypes, Remembered
  <2> QED
    BY <1>4, <1>5, <2>1 DEF ReviewInv, ReviewTypes, Remembered
<1>7. AnswersInv'
  <2>1. ASSUME NEW i \in Review!Items, Answered(i) PROVE mem'.decisions[i] # Review!None
    BY <1>2, <1>3, <1>5, <2>1, ChoicesAre DEF Answered
  <2>2. Review!Taken(mem.base)' = Review!Taken(mem.base) /\ Review!Reviewable' = Review!Reviewable
    BY <1>5 DEF Review!Reviewable, Review!Conflict
  <2>3. Review!Taken(mem.base) \subseteq Review!Items /\ Review!Reviewable \subseteq Review!Items /\ Markets \subseteq Review!Items
    BY DEF Review!Taken, Review!Reviewable, Review!Items
  <2>4. \A i \in Review!Taken(mem.base) : Answered(i)
    BY DEF ReviewInv, AnswersInv
  <2>5. screen.next = "source" => \A i \in Markets : mem.base[i] \in Review!Theirs => Answered(i)
    BY DEF ReviewInv, AnswersInv, Towards
  <2>6. screen.next = "decide" => \A i \in Review!Reviewable : Answered(i)
    BY DEF ReviewInv, AnswersInv, Towards
  <2>7. (\A i \in Review!Taken(mem.base) : Answered(i))'
    BY <2>1, <2>2, <2>3, <2>4 DEF Answered
  <2>8. screen.next = "source" => (\A i \in Markets : mem.base[i] \in Review!Theirs => Answered(i))'
    BY <1>5, <2>1, <2>3, <2>5 DEF Answered
  <2>9. screen.next = "decide" => (\A i \in Review!Reviewable : Answered(i))'
    BY <2>1, <2>2, <2>3, <2>6 DEF Answered
  <2> QED
    BY <1>1, <1>2, <2>7, <2>8, <2>9 DEF AnswersInv, Towards
<1>8. TextInv'
  <2>1. \A i \in Review!Items : Kept(i)'
    BY <1>5 DEF Kept, ReviewInv, TextInv, Quiet
  <2>2. mem'.temp = {}
    BY <1>5 DEF ReviewInv, TextInv
  <2> QED
    BY <1>1, <1>2, <2>1, <2>2 DEF TextInv, Quiet
<1>9. ScreenInv' /\ PlanInv'
  BY <1>1, <1>2 DEF ScreenInv, PlanInv
<1> QED
  BY <1>6, <1>7, <1>8, <1>9 DEF ReviewInv

(* A choice on the screen is changed. *)
LEMMA ScreenChanges ==
    ASSUME ReviewInv, pc = "screen", UNCHANGED <<config, found, pc, mem>>, NEW choice,
           screen' = [screen EXCEPT !.choice = choice], choice = [i \in Review!Items |-> choice[i]],
           \A i \in screen.shown : choice[i] \in Review!Choices(i)
    PROVE  ReviewInv'
<1>1. /\ screen'.shown = screen.shown /\ screen'.next = screen.next /\ screen'.choice = choice
      /\ DOMAIN screen' = DOMAIN screen
  BY DEF ReviewInv, ScreenInv
<1>2. ReviewTypes' /\ PlanInv' /\ TextInv'
  <2>1. Same(mem, mem')
    BY DEF Same
  <2>2. \A i \in Review!Items : Kept(i) => Kept(i)'
    BY <2>1, KeptStays
  <2> QED
    BY <2>2 DEF ReviewInv, ReviewTypes, PlanInv, TextInv, Quiet
<1>3. ScreenInv'
  BY <1>1 DEF ReviewInv, ScreenInv
<1>4. AnswersInv'
  <2>1. Review!Reviewable' = Review!Reviewable
    BY DEF Review!Reviewable, Review!Conflict
  <2> QED
    BY <1>1, <2>1 DEF ReviewInv, AnswersInv, Answered, Towards
<1> QED
  BY <1>2, <1>3, <1>4 DEF ReviewInv

LEMMA ScreenSteps ==
    ASSUME Review!ReviewAssumption, ReviewInv,
           \/ \E i \in Review!Items : Review!Cycle(i)
           \/ \E decision \in {"replace", "keep"} : Review!SetAll(decision)
           \/ Review!YesDecides \/ Review!Confirm \/ Review!Escape \/ Review!Interrupt
    PROVE  ReviewInv'
<1>1. pc = "screen" /\ UNCHANGED <<config, found>>
  BY DEF Review!Cycle, Review!SetAll, Review!YesDecides, Review!Confirm, Review!Escape, Review!Interrupt,
         Review!Alone, Review!Unwritten
<1> DEFINE old == screen.choice
<1>2. /\ screen.shown \subseteq Review!Items /\ old = [i \in Review!Items |-> old[i]]
      /\ \A i \in screen.shown : old[i] \in Review!Choices(i)
      /\ {"shown", "choice", "next"} \subseteq DOMAIN screen
  BY <1>1 DEF ReviewInv, ScreenInv
<1>3. \A i \in Review!Items : Kept(i)
  BY <1>1 DEF ReviewInv, TextInv, Quiet
<1>4. ASSUME NEW i \in Review!Items, Review!Cycle(i) PROVE ReviewInv'
  <2>1. PICK c \in Review!Choices(i) : screen' = [screen EXCEPT !.choice[i] = c]
    BY <1>4 DEF Review!Cycle
  <2> DEFINE choice == [old EXCEPT ![i] = c]
  <2>2. screen' = [screen EXCEPT !.choice = choice]
    BY <2>1
  <2>3. choice = [j \in Review!Items |-> choice[j]]
    BY <1>2
  <2>4. \A j \in screen.shown : choice[j] \in Review!Choices(j)
    BY <1>2
  <2> HIDE DEF choice
  <2>5. UNCHANGED <<pc, mem>>
    BY <1>4 DEF Review!Cycle
  <2> QED
    BY <1>1, <2>2, <2>3, <2>4, <2>5, ScreenChanges
<1>5. ASSUME NEW decision \in {"replace", "keep"}, Review!SetAll(decision) PROVE ReviewInv'
  <2> DEFINE choice == [i \in Review!Items |->
            IF i \in screen.shown /\ decision \in Review!Choices(i) THEN decision
            ELSE IF i \in screen.shown \cap Invalid /\ decision = "replace" THEN "remove" ELSE old[i]]
  <2>2. screen' = [screen EXCEPT !.choice = choice] /\ UNCHANGED <<pc, mem>>
    BY <1>5 DEF Review!SetAll
  <2>3. choice = [j \in Review!Items |-> choice[j]]
    OBVIOUS
  <2>4. \A j \in screen.shown : choice[j] \in Review!Choices(j)
    BY <1>2, ChoicesAre
  <2> HIDE DEF choice
  <2> QED
    BY <1>1, <2>2, <2>3, <2>4, ScreenChanges
<1>6. CASE Review!YesDecides \/ Review!Confirm
  BY <1>1, <1>2, <1>6, DecidedStep DEF Review!YesDecides, Review!Confirm
<1>7. ASSUME Review!Refused(mem) PROVE ReviewInv'
  BY <1>1, <1>3, <1>7, EndsKept DEF Review!Refused
<1>8. CASE Review!Escape
  <2>1. CASE \A i \in screen.shown : "keep" \in Review!Choices(i)
    <3> DEFINE choice == [i \in Review!Items |-> "keep"]
    <3>1. Review!Decided(choice)
      BY <1>8, <2>1 DEF Review!Escape
    <3>2. \A i \in screen.shown : choice[i] \in Review!Choices(i)
      BY <1>2, <2>1
    <3> HIDE DEF choice
    <3> QED
      BY <1>1, <3>1, <3>2, DecidedStep
  <2>2. CASE ~\A i \in screen.shown : "keep" \in Review!Choices(i)
    BY <1>7, <1>8, <2>2 DEF Review!Escape
  <2> QED
    BY <2>1, <2>2
<1> QED
  BY <1>4, <1>5, <1>6, <1>7, <1>8 DEF Review!Interrupt

(* Where the answers are kept, the questions they answer are. *)
LEMMA TakenAnswered ==
    ASSUME ReviewInv, Same(mem, mem'), pc \notin {"start", "wizard", "read", "end", "screen"},
           pc' \in {"temp", "list", "back", "incomplete", "repair", "conflicts", "published", "undo_values", "undo"}
    PROVE  AnswersInv' /\ ScreenInv'
<1>1. \A i \in Review!Taken(mem.base) : mem.decisions[i] # Review!None
  BY DEF ReviewInv, AnswersInv, Answered
<1>2. (\A i \in Review!Taken(mem.base) : Answered(i))'
  BY <1>1 DEF Same, Answered
<1> QED
  BY <1>2 DEF AnswersInv, ScreenInv, Towards

LEMMA AllAnswered ==
    ASSUME ReviewInv, Same(mem, mem'), pc \in {"decide", "review", "begin", "strip", "publish"},
           pc' \in {"review", "begin", "strip", "publish"}
    PROVE  AnswersInv' /\ ScreenInv'
<1>1. /\ \A i \in Review!Taken(mem.base) : mem.decisions[i] # Review!None
      /\ \A i \in Review!Reviewable : mem.decisions[i] # Review!None
  BY DEF ReviewInv, AnswersInv, Answered, Towards
<1>2. (\A i \in Review!Taken(mem.base) : Answered(i))' /\ (\A i \in Review!Reviewable : Answered(i))'
  BY <1>1, SameQuestions DEF Same, Answered
<1> QED
  BY <1>2 DEF AnswersInv, ScreenInv, Towards

LEMMA ReadStep ==
    ASSUME Review!ReviewAssumption, ReviewInv, Review!Read PROVE ReviewInv'
<1> DEFINE m == [mem EXCEPT !.base = config]
<1>1. pc = "read" /\ UNCHANGED <<config, found>>
  BY DEF Review!Read, Review!Alone, Review!Unwritten
<1>2. Document(config) /\ Document(found) /\ Remembered(mem)
  BY DEF ReviewInv, ReviewTypes
<1>3. /\ m.base = config /\ m.decisions = mem.decisions /\ m.temp = mem.temp /\ DOMAIN m = DOMAIN mem
      /\ m.request = mem.request
  BY <1>2 DEF Remembered, ReviewFields
<1> HIDE DEF m
<1>4. Remembered(m) /\ m.temp = {}
  BY <1>1, <1>2, <1>3 DEF Remembered, ReviewInv, TextInv
<1>5. \A i \in Review!Items : config[i] = found[i] \/ (i \in Invalid /\ found[i] = Absent /\ config[i] = m.base[i])
  BY <1>1, <1>3 DEF ReviewInv, TextInv
<1>6. CASE Review!Refused(m)
  BY <1>1, <1>2, <1>4, <1>5, <1>6, EndsWith DEF Review!Refused
<1>7. CASE Review!Ask(Review!Taken(config), "temp", m)
  <2>1. Review!Taken(config) \subseteq Review!Items
    BY TakenAre DEF Review!Items
  <2>2. \A i \in Review!Taken(m.base) : i \in Review!Taken(config)
    BY <1>3
  <2> QED
    BY <1>1, <1>4, <1>5, <1>7, <2>1, <2>2, AskStep
<1>8. CASE Review!Taken(config) = {} /\ pc' = "list" /\ mem' = m
  <2>1. ReviewTypes'
    BY <1>1, <1>2, <1>4, <1>8 DEF ReviewTypes
  <2>2. AnswersInv'
    BY <1>3, <1>8 DEF AnswersInv, Towards
  <2>3. \A i \in Review!Items : Kept(i)'
    BY <1>1, <1>5, <1>8 DEF Kept
  <2>4. TextInv'
    BY <1>4, <1>8, <2>3 DEF TextInv, Quiet
  <2> QED
    BY <1>8, <2>1, <2>2, <2>4 DEF ReviewInv, ScreenInv, PlanInv
<1> QED
  BY <1>6, <1>7, <1>8 DEF Review!Read, m

(* The temporary text, and the way back from it. *)
LEMMA TemporaryStep ==
    ASSUME Review!ReviewAssumption, ReviewInv, pc \in {"temp", "source"}, config = mem.base, UNCHANGED found,
           NEW text, Document(text), NEW next \in {"list", "repair"},
           \A i \in Review!Items :
                text[i] = mem.base[i] \/ (i \in Review!Taken(mem.base) /\ text[i] = Absent) \/ (i \in Markets /\ text[i] = Review!Good),
           Review!WriteTemporary(text, next)
    PROVE  ReviewInv'
<1>1. Document(config) /\ Document(found) /\ Remembered(mem) /\ \A i \in Review!Items : Kept(i)
  BY DEF ReviewInv, ReviewTypes, TextInv, Quiet
<1>2. CASE config' = text /\ mem' = [mem EXCEPT !.temp = {text}] /\ pc' = next
  <2>1. Same(mem, mem') /\ mem'.temp = {text}
    BY <1>1, <1>2 DEF Same, Remembered, ReviewFields
  <2>2. ReviewTypes'
    BY <1>1, <1>2, <2>1, SameRemembered DEF ReviewTypes
  <2>3. AnswersInv' /\ ScreenInv'
    BY <1>2, <2>1, TakenAnswered
  <2>4. ASSUME NEW i \in Review!Items PROVE Hides(text, i)'
    <3>1. found[i] = mem.base[i] \/ (i \in Invalid /\ found[i] = Absent)
      BY <1>1 DEF Kept
    <3> QED
      BY <1>2, <2>1, <3>1 DEF Hides, Same
  <2>5. TextInv'
    <3>1. text \in [Review!Items -> Review!Values]
      BY DEF Document
    <3> QED
      BY <1>2, <2>1, <2>4, <3>1 DEF TextInv, Quiet
  <2> QED
    BY <1>2, <2>2, <2>3, <2>5 DEF ReviewInv, PlanInv
<1>3. CASE Review!Refused(mem) /\ UNCHANGED config
  BY <1>1, <1>3, EndsKept DEF Review!Refused
<1>4. CASE Review!Refused([mem EXCEPT !.torn = TRUE]) /\ config' = text
  BY <1>1, <1>4, EndsTorn
<1> QED
  BY <1>2, <1>3, <1>4 DEF Review!WriteTemporary

LEMMA PutsBack ==
    ASSUME ReviewInv, pc \in {"list", "back", "repair"},
           (mem.temp = {} /\ UNCHANGED config) \/ (config \in mem.temp /\ config' = mem.base)
    PROVE  /\ Document(config')
           /\ \A i \in Review!Items :
                config'[i] = found[i] \/ (i \in Invalid /\ found[i] = Absent /\ config'[i] = mem.base[i])
<1>1. Document(config) /\ Document(mem.base)
  BY DEF ReviewInv, ReviewTypes, Remembered
<1>2. CASE mem.temp = {} /\ UNCHANGED config
  BY <1>1, <1>2 DEF ReviewInv, TextInv, Kept
<1>3. CASE config \in mem.temp /\ config' = mem.base
  <2>1. PICK t \in [Review!Items -> Review!Values] : mem.temp = {t} /\ \A i \in Review!Items : Hides(t, i)
    BY <1>3 DEF ReviewInv, TextInv
  <2> QED
    BY <1>1, <1>3, <2>1 DEF Hides
<1> QED
  BY <1>2, <1>3

LEMMA TellsStep ==
    ASSUME ReviewInv, Document(config'), UNCHANGED found, Review!Refused([mem EXCEPT !.told = TRUE])
    PROVE  ReviewInv'
<1>1. PICK m : m = [mem EXCEPT !.told = TRUE]
  OBVIOUS
<1>2. pc' = "end" /\ mem' = [m EXCEPT !.outcome = "failed"]
  BY <1>1 DEF Review!Refused, Review!EndWith
<1> QED
  BY <1>1, <1>2, EndsTelling

LEMMA RestoresRefused ==
    ASSUME ReviewInv, pc \in {"list", "back", "repair"}, UNCHANGED found, Review!Restores(Review!Refused(mem))
    PROVE  ReviewInv'
<1>1. CASE Review!Refused(mem) /\
           ((mem.temp = {} /\ UNCHANGED config) \/ (config \in mem.temp /\ config' = mem.base))
  <2>1. Document(found') /\ Remembered(mem)
    BY DEF ReviewInv, ReviewTypes
  <2>2. /\ Document(config')
        /\ \A i \in Review!Items :
                config'[i] = found'[i] \/ (i \in Invalid /\ found'[i] = Absent /\ config'[i] = mem.base[i])
    BY <1>1, PutsBack
  <2> QED
    BY <1>1, <2>1, <2>2, EndsWith DEF Review!Refused
<1>2. CASE Review!Refused([mem EXCEPT !.told = TRUE]) /\ config' \in {config, mem.base}
  BY <1>2, TellsStep DEF ReviewInv, ReviewTypes, Remembered
<1> QED
  BY <1>1, <1>2 DEF Review!Restores

LEMMA RestoresOn ==
    ASSUME ReviewInv, pc \in {"list", "back", "repair"}, UNCHANGED found,
           NEW next \in {"incomplete", "conflicts"}, Review!Restores(Review!On(next))
    PROVE  ReviewInv'
<1>1. CASE Review!On(next) /\
           ((mem.temp = {} /\ UNCHANGED config) \/ (config \in mem.temp /\ config' = mem.base))
  <2>1. pc' = next /\ mem' = [mem EXCEPT !.temp = {}]
    BY <1>1 DEF Review!On
  <2>2. Same(mem, mem') /\ mem'.temp = {}
    BY <2>1 DEF Same, ReviewInv, ReviewTypes, Remembered, ReviewFields
  <2>3. /\ Document(config')
        /\ \A i \in Review!Items :
                config'[i] = found[i] \/ (i \in Invalid /\ found[i] = Absent /\ config'[i] = mem.base[i])
    BY <1>1, PutsBack
  <2>4. ReviewTypes'
    BY <2>2, <2>3, SameRemembered DEF ReviewInv, ReviewTypes
  <2>5. AnswersInv' /\ ScreenInv'
    BY <2>1, <2>2, TakenAnswered
  <2>6. \A i \in Review!Items : Kept(i)'
    BY <2>2, <2>3 DEF Kept, Same
  <2>7. TextInv' /\ PlanInv'
    BY <2>1, <2>2, <2>6 DEF TextInv, PlanInv, Quiet
  <2> QED
    BY <2>4, <2>5, <2>7 DEF ReviewInv
<1>2. CASE Review!Refused([mem EXCEPT !.told = TRUE]) /\ config' \in {config, mem.base}
  BY <1>2, TellsStep DEF ReviewInv, ReviewTypes, Remembered
<1> QED
  BY <1>1, <1>2 DEF Review!Restores

(* A text Codex can read. *)
LEMMA StrippedText ==
    ASSUME Review!ReviewAssumption, NEW doc, Document(doc), NEW base
    PROVE  /\ Document(Review!Stripped(doc, base))
           /\ \A i \in Review!Items : Review!Stripped(doc, base)[i] = (IF i \in Review!Taken(base) THEN Absent ELSE doc[i])
<1>1. \A i \in Review!Items : Review!Stripped(doc, base)[i] = (IF i \in Review!Taken(base) THEN Absent ELSE doc[i])
  BY DEF Review!Stripped
<1>2. Review!Stripped(doc, base) \in [Review!Items -> Review!Values]
  BY DEF Review!Stripped, Document, Review!Values
<1>3. Invalid \subseteq Review!Items /\ Absent # Review!Good
  BY DEF Review!Items, Review!ReviewAssumption, Review!Good
<1> QED
  BY <1>1, <1>2, <1>3 DEF Document

LEMMA PreflightStep ==
    ASSUME Review!ReviewAssumption, ReviewInv,
           Review!StripTemporarily \/ Review!List \/ Review!GiveBack \/ Review!Incomplete
            \/ Review!ReplaceTemporarily \/ Review!Repair
    PROVE  ReviewInv'
<1>1. Document(config) /\ Document(found) /\ Remembered(mem) /\ Document(mem.base)
  BY DEF ReviewInv, ReviewTypes, Remembered
<1> DEFINE bare == Review!Stripped(mem.base, mem.base)
<1>2. /\ Document(bare)
      /\ \A i \in Review!Items : bare[i] = (IF i \in Review!Taken(mem.base) THEN Absent ELSE mem.base[i])
  BY <1>1, StrippedText
<1> HIDE DEF bare
<1>3. CASE Review!StripTemporarily
  <2>1. pc = "temp" /\ UNCHANGED found
    BY <1>3 DEF Review!StripTemporarily
  <2>2. CASE config = mem.base /\ Review!WriteTemporary(bare, "list")
    BY <1>2, <2>1, <2>2, TemporaryStep
  <2>3. CASE Review!Refused(mem) /\ UNCHANGED config
    BY <2>1, <2>3, EndsKept DEF Review!Refused, ReviewInv, TextInv, Quiet
  <2> QED
    BY <1>3, <2>2, <2>3 DEF Review!StripTemporarily, bare
<1>4. CASE Review!ReplaceTemporarily
  <2> DEFINE text == [i \in Review!Items |-> IF i \in Markets THEN Review!Good ELSE bare[i]]
  <2>1. pc = "source" /\ UNCHANGED found
    BY <1>4 DEF Review!ReplaceTemporarily
  <2>2. \A i \in Review!Items : text[i] = (IF i \in Markets THEN Review!Good ELSE bare[i])
    OBVIOUS
  <2>3. Document(text)
    <3>1. \A i \in Invalid : i \in Review!Items /\ i \notin Markets
      BY DEF Review!Items, Review!ReviewAssumption
    <3> QED
      BY <1>2, <3>1 DEF Document, Review!Values
  <2>4. Review!ReplaceTemporarily =>
            \/ config = mem.base /\ Review!WriteTemporary(text, "repair")
            \/ Review!Refused(mem) /\ UNCHANGED config
    BY DEF Review!ReplaceTemporarily, bare
  <2> HIDE DEF text
  <2>5. CASE config = mem.base /\ Review!WriteTemporary(text, "repair")
    BY <1>2, <2>1, <2>2, <2>3, <2>5, TemporaryStep
  <2>6. CASE Review!Refused(mem) /\ UNCHANGED config
    BY <2>1, <2>6, EndsKept DEF Review!Refused, ReviewInv, TextInv, Quiet
  <2> QED
    BY <1>4, <2>4, <2>5, <2>6
<1>5. ASSUME pc \in {"list", "repair"}, pc' = "back", UNCHANGED <<config, found>>, Same(mem, mem'), mem'.temp = mem.temp
      PROVE  ReviewInv'
  <2>1. ReviewTypes'
    BY <1>1, <1>5, SameRemembered DEF ReviewTypes
  <2>2. AnswersInv' /\ ScreenInv'
    BY <1>5, TakenAnswered
  <2>3. TextInv'
    <3>1. CASE mem.temp = {} /\ \A i \in Review!Items : Kept(i)
      <4>1. (\A i \in Review!Items : Kept(i))'
        BY <1>5, <3>1, KeptStays
      <4> QED
        BY <1>5, <3>1, <4>1 DEF TextInv, Quiet
    <3>2. ASSUME NEW t \in [Review!Items -> Review!Values], mem.temp = {t}, \A i \in Review!Items : Hides(t, i)
          PROVE  TextInv'
      <4>1. (\A i \in Review!Items : Hides(t, i))'
        BY <1>5, <3>2 DEF Hides, Same
      <4> QED
        BY <1>5, <3>2, <4>1 DEF TextInv, Quiet
    <3> QED
      BY <1>5, <3>1, <3>2 DEF ReviewInv, TextInv
  <2> QED
    BY <1>5, <2>1, <2>2, <2>3 DEF ReviewInv, PlanInv
<1>6. CASE Review!List
  <2>1. pc = "list" /\ UNCHANGED found
    BY <1>6 DEF Review!List
  <2>2. CASE pc' = "back" /\ UNCHANGED <<config, mem>>
    BY <1>5, <2>1, <2>2 DEF Same
  <2> QED
    BY <1>6, <2>1, <2>2, RestoresRefused, RestoresOn DEF Review!List
<1>7. CASE Review!GiveBack
  BY <1>7, RestoresOn DEF Review!GiveBack
<1>8. CASE Review!Repair
  <2>1. pc = "repair" /\ UNCHANGED found
    BY <1>8 DEF Review!Repair
  <2>2. CASE pc' = "back" /\ mem' = [mem EXCEPT !.repaired = TRUE] /\ UNCHANGED config
    <3>1. Same(mem, mem') /\ mem'.temp = mem.temp
      BY <2>2 DEF Same
    <3> QED
      BY <1>5, <2>1, <2>2, <3>1
  <2> QED
    BY <1>8, <2>1, <2>2, RestoresRefused DEF Review!Repair
<1>9. CASE Review!Incomplete
  <2> DEFINE sources == {i \in Markets : mem.base[i] \in Review!Theirs}
  <2>1. pc = "incomplete" /\ UNCHANGED <<config, found>>
    BY <1>9 DEF Review!Incomplete, Review!Alone, Review!Unwritten
  <2>2. mem.temp = {} /\ \A i \in Review!Items : Kept(i)
    BY <2>1 DEF ReviewInv, TextInv, Quiet
  <2>3. CASE Review!Refused(mem)
    BY <2>1, <2>2, <2>3, EndsKept DEF Review!Refused
  <2>4. CASE Review!Ask(sources, "source", mem)
    <3>1. sources \subseteq Review!Items
      BY DEF Review!Items
    <3>2. \A i \in Review!Taken(mem.base) : mem.decisions[i] # Review!None
      BY <2>1 DEF ReviewInv, AnswersInv, Answered
    <3>3. \A i \in Markets : mem.base[i] \in Review!Theirs => i \in sources
      OBVIOUS
    <3> HIDE DEF sources
    <3> QED
      BY <1>1, <2>1, <2>2, <2>4, <3>1, <3>2, <3>3, AskStep DEF Kept
  <2>5. CASE pc' = "repair" /\ UNCHANGED mem
    <3>1. Same(mem, mem')
      BY <2>5 DEF Same
    <3>2. ReviewTypes'
      BY <1>1, <2>1, <2>5 DEF ReviewTypes
    <3>3. (\A i \in Review!Items : Kept(i))'
      BY <2>1, <2>2, <3>1, KeptStays
    <3>4. TextInv'
      BY <2>2, <2>5, <3>3 DEF TextInv, Quiet
    <3> QED
      BY <2>1, <2>5, <3>1, <3>2, <3>4, TakenAnswered DEF ReviewInv, PlanInv
  <2> QED
    BY <1>9, <2>3, <2>4, <2>5 DEF Review!Incomplete
<1> QED
  BY <1>3, <1>4, <1>6, <1>7, <1>8, <1>9

(* From the conflicts to the transaction config.toml is left as it is. *)
LEMMA ReviewStep ==
    ASSUME Review!ReviewAssumption, ReviewInv,
           \/ Review!ReviewConflicts \/ Review!Decide \/ Review!Apply \/ Review!CancelReview
           \/ Review!ResolveAgain \/ Review!ChangeOptions \/ Review!Begin
    PROVE  ReviewInv'
<1>1. pc \in {"conflicts", "decide", "review", "begin"} /\ UNCHANGED <<config, found>>
  BY DEF Review!ReviewConflicts, Review!Decide, Review!Apply, Review!CancelReview, Review!ResolveAgain,
         Review!ChangeOptions, Review!Begin, Review!Reviewing, Review!Alone, Review!Unwritten
<1>2. ReviewTypes /\ mem.temp = {} /\ \A i \in Review!Items : Kept(i)
  BY <1>1 DEF ReviewInv, TextInv, Quiet
<1>3. /\ Remembered(mem) /\ Review!Reviewable \subseteq Review!Items
      /\ \A i \in Review!Taken(mem.base) : mem.decisions[i] # Review!None
  BY <1>1 DEF ReviewInv, ReviewTypes, AnswersInv, Answered, Review!Reviewable
<1>4. ASSUME NEW outcome, Review!EndWith(outcome, mem) PROVE ReviewInv'
  BY <1>1, <1>2, <1>4, EndsKept
<1>5. ASSUME NEW shown, shown \subseteq Review!Items, Review!Ask(shown, "decide", mem),
             \A i \in Review!Reviewable : mem.decisions[i] # Review!None \/ i \in shown
      PROVE  ReviewInv'
  BY <1>1, <1>2, <1>3, <1>5, AskStep DEF Kept
<1>6. ASSUME Same(mem, mem') PROVE ReviewTypes' /\ (\A i \in Review!Items : Kept(i))'
  <2>1. ReviewTypes'
    BY <1>1, <1>2, <1>6, SameRemembered DEF ReviewTypes
  <2>2. (\A i \in Review!Items : Kept(i))'
    BY <1>1, <1>2, <1>6, KeptStays
  <2> QED
    BY <2>1, <2>2
<1>7. CASE Review!ReviewConflicts
  <2> DEFINE rest == {i \in Review!Reviewable : mem.decisions[i] = Review!None}
  <2>1. CASE Review!Ask(rest, "decide", mem)
    <3>1. rest \subseteq Review!Items /\ \A i \in Review!Reviewable : mem.decisions[i] # Review!None \/ i \in rest
      BY <1>3
    <3> HIDE DEF rest
    <3> QED
      BY <1>5, <2>1, <3>1
  <2>2. CASE rest = {} /\ pc' = "decide" /\ UNCHANGED mem
    <3>1. Same(mem, mem')
      BY <2>2 DEF Same
    <3>2. \A i \in Review!Reviewable : mem.decisions[i] # Review!None
      BY <2>2
    <3>3. AnswersInv'
      BY <1>3, <2>2, <3>1, <3>2, SameQuestions DEF AnswersInv, Answered, Towards
    <3>4. TextInv' /\ PlanInv' /\ ScreenInv'
      BY <1>2, <1>6, <2>2, <3>1 DEF TextInv, PlanInv, ScreenInv, Quiet
    <3> QED
      BY <1>6, <3>1, <3>3, <3>4 DEF ReviewInv
  <2> QED
    BY <1>7, <2>1, <2>2 DEF Review!ReviewConflicts
<1>8. ASSUME Same(mem, mem'), mem'.temp = {}, pc \in {"decide", "review", "begin"}, pc' \in {"review", "begin", "strip"},
             mem'.plan = Review!PlanOf(mem.decisions),
             pc' = "strip" => \A i \in Review!Taken(mem.base) : mem'.at[i] \in {Absent, mem.base[i]}
      PROVE  ReviewInv'
  <2>1. AnswersInv' /\ ScreenInv'
    BY <1>8, AllAnswered
  <2>2. PlanInv'
    BY <1>8, SameQuestions DEF PlanInv, Same
  <2>3. TextInv'
    BY <1>6, <1>8 DEF TextInv, Quiet
  <2> QED
    BY <1>6, <1>8, <2>1, <2>2, <2>3 DEF ReviewInv
<1>9. CASE Review!Decide
  <2>1. pc = "decide" /\ pc' = "review" /\ mem' = [mem EXCEPT !.plan = Review!PlanOf(mem.decisions)]
    BY <1>9 DEF Review!Decide, Review!PlanFor
  <2>2. Same(mem, mem') /\ mem'.temp = {} /\ mem'.plan = Review!PlanOf(mem.decisions)
    BY <1>2, <1>3, <2>1 DEF Same, Remembered, ReviewFields
  <2> QED
    BY <1>8, <2>1, <2>2
<1>10. CASE Review!Apply
  <2>1. pc = "review" /\ pc' = "begin" /\ mem' = mem
    BY <1>10 DEF Review!Apply, Review!Reviewing
  <2>2. mem.plan = Review!PlanOf(mem.decisions)
    BY <2>1 DEF ReviewInv, PlanInv
  <2> QED
    BY <1>2, <1>8, <2>1, <2>2 DEF Same
<1>11. CASE Review!ChangeOptions
  <2>1. pc' = "wizard" /\ mem' = mem
    BY <1>11 DEF Review!ChangeOptions
  <2>2. Same(mem, mem')
    BY <2>1 DEF Same
  <2>3. AnswersInv' /\ ScreenInv' /\ PlanInv' /\ TextInv'
    BY <1>2, <1>6, <2>1, <2>2 DEF AnswersInv, ScreenInv, PlanInv, TextInv, Quiet, Towards
  <2> QED
    BY <1>6, <2>2, <2>3 DEF ReviewInv
<1>12. CASE Review!Begin
  <2>1. pc = "begin" /\ mem.plan = Review!PlanOf(mem.decisions)
    BY <1>12 DEF Review!Begin, ReviewInv, PlanInv
  <2>2. CASE Review!Taken(mem.base) = {} /\ pc' = "publish" /\ UNCHANGED mem
    <3>1. Same(mem, mem')
      BY <2>2 DEF Same
    <3>2. AnswersInv' /\ ScreenInv'
      BY <2>1, <2>2, <3>1, AllAnswered
    <3>3. PlanInv'
      BY <2>1, <2>2, <3>1, SameQuestions DEF PlanInv
    <3>4. TextInv'
      BY <1>2, <1>6, <2>2, <3>1, SameQuestions DEF TextInv, Quiet
    <3> QED
      BY <1>6, <3>1, <3>2, <3>3, <3>4 DEF ReviewInv
  <2>3. CASE /\ \A i \in Review!Taken(mem.base) : config[i] \in {Absent, mem.base[i]}
             /\ pc' = "strip" /\ mem' = [mem EXCEPT !.at = config]
    <3>1. Same(mem, mem') /\ mem'.temp = {} /\ mem'.plan = mem.plan /\ mem'.at = config
      BY <1>2, <1>3, <2>3 DEF Same, Remembered, ReviewFields
    <3> QED
      BY <1>8, <2>1, <2>3, <3>1
  <2>4. CASE Review!Refused(mem)
    BY <1>4, <2>4 DEF Review!Refused
  <2> QED
    BY <1>12, <2>2, <2>3, <2>4 DEF Review!Begin
<1>13. CASE Review!CancelReview
  BY <1>4, <1>13 DEF Review!CancelReview
<1>14. CASE Review!ResolveAgain
  BY <1>3, <1>5, <1>14 DEF Review!ResolveAgain
<1> QED
  BY <1>7, <1>9, <1>10, <1>11, <1>12, <1>13, <1>14

(* The transaction and its rollback. *)
LEMMA StripStep ==
    ASSUME Review!ReviewAssumption, ReviewInv, Review!Strip PROVE ReviewInv'
<1>1. pc = "strip" /\ UNCHANGED found
  BY DEF Review!Strip
<1>2. /\ ReviewTypes /\ mem.temp = {} /\ mem.plan = Review!PlanOf(mem.decisions)
      /\ \A i \in Review!Items : Kept(i)
      /\ \A i \in Review!Taken(mem.base) : mem.at[i] \in {Absent, mem.base[i]}
  BY <1>1 DEF ReviewInv, TextInv, PlanInv, Quiet
<1>3. CASE config = mem.at /\ config' = Review!Stripped(config, mem.base) /\ pc' = "publish" /\ UNCHANGED mem
  <2>1. Same(mem, mem')
    BY <1>3 DEF Same
  <2>2. /\ Document(config')
        /\ \A i \in Review!Items : config'[i] = (IF i \in Review!Taken(mem.base) THEN Absent ELSE config[i])
    BY <1>2, <1>3, StrippedText DEF ReviewTypes
  <2>3. ReviewTypes'
    BY <1>1, <1>2, <2>1, <2>2, SameRemembered DEF ReviewTypes
  <2>4. AnswersInv' /\ ScreenInv'
    BY <1>1, <1>3, <2>1, AllAnswered
  <2>5. PlanInv'
    BY <1>2, <1>3, <2>1, SameQuestions DEF PlanInv
  <2>6. ASSUME NEW i \in Review!Items
        PROVE  IF i \in Review!Taken(mem.base) THEN Away(i)' ELSE Kept(i)'
    BY <1>1, <1>2, <1>3, <2>2 DEF Away, Kept
  <2>7. TextInv'
    BY <1>2, <1>3, <2>6 DEF TextInv, Quiet
  <2> QED
    BY <2>3, <2>4, <2>5, <2>7 DEF ReviewInv
<1>4. CASE Review!Refused(mem) /\ UNCHANGED config
  BY <1>1, <1>2, <1>4, EndsKept DEF Review!Refused
<1>5. CASE config' = Review!Stripped(config, mem.base) /\ Review!Refused([mem EXCEPT !.torn = TRUE])
  <2>1. /\ Document(config')
        /\ \A i \in Review!Items : config'[i] = (IF i \in Review!Taken(mem.base) THEN Absent ELSE config[i])
    BY <1>2, <1>5, StrippedText DEF ReviewTypes
  <2> QED
    BY <1>1, <1>2, <1>5, <2>1, EndsTorn
<1> QED
  BY <1>3, <1>4, <1>5 DEF Review!Strip

LEMMA ReviewPublishStep ==
    ASSUME Review!ReviewAssumption, ReviewInv, Review!Publish PROVE ReviewInv'
<1>1. pc = "publish" /\ UNCHANGED found
  BY DEF Review!Publish
<1>2. /\ ReviewTypes /\ Remembered(mem) /\ Document(mem.base) /\ mem.temp = {}
      /\ mem.plan = Review!PlanOf(mem.decisions)
      /\ \A i \in Review!Items : IF i \in Review!Taken(mem.base) THEN Away(i) ELSE Kept(i)
  BY <1>1 DEF ReviewInv, ReviewTypes, Remembered, TextInv, PlanInv
<1>3. \A i \in Review!Items : i \notin Invalid => i \in Markets \cup Offered \/ i \in Keys
  BY DEF Review!Items
<1>4. CASE /\ \A i \in Review!Items : Review!Stable(i)
           /\ config' = Review!Published /\ pc' \in {"published", "undo_values"} /\ UNCHANGED mem
  <2> DEFINE bare == Review!Stripped(config, mem.base)
  <2>1. /\ Document(bare)
        /\ \A i \in Review!Items : bare[i] = (IF i \in Review!Taken(mem.base) THEN Absent ELSE config[i])
    BY <1>2, StrippedText DEF ReviewTypes
  <2>2. config' = [i \in Review!Items |-> IF Review!Untouched(i) THEN bare[i] ELSE mem.plan[i]]
    BY <1>4 DEF Review!Published
  <2> HIDE DEF bare
  <2>3. \A i \in Review!Items : config'[i] = (IF Review!Untouched(i) THEN bare[i] ELSE mem.plan[i])
    BY <2>2
  <2>4. \A i \in Review!Items : mem.plan[i] = mem.base[i] \/ mem.plan[i] = Review!Good
    BY <1>2 DEF Review!PlanOf
  <2>5. \A i \in Review!Items : mem.plan[i] = mem.base[i] /\ ~Review!Untouched(i) => mem.decisions[i] = "keep" \/ mem.base[i] = Review!Good
    BY <1>2 DEF Review!PlanOf, Review!Untouched
  <2>6. Document(config')
    <3>1. ASSUME NEW i \in Review!Items
          PROVE  bare[i] \in Review!Values /\ mem.plan[i] \in Review!Values
      BY <1>2, <2>1, <2>4 DEF Document, Review!Values
    <3>2. config' \in [Review!Items -> Review!Values]
      BY <2>2, <3>1
    <3>3. \A i \in Invalid : i \in Review!Items /\ config'[i] = bare[i]
      BY <2>3 DEF Review!Untouched, Review!Items
    <3> QED
      BY <2>1, <3>2, <3>3 DEF Document
  <2>7. Same(mem, mem')
    BY <1>4 DEF Same
  <2>8. ReviewTypes'
    BY <1>1, <1>2, <1>4, <2>6 DEF ReviewTypes
  <2>9. AnswersInv' /\ ScreenInv'
    BY <1>1, <1>4, <2>7, TakenAnswered
  <2>10. PlanInv'
    BY <1>2, <1>4, <2>7, SameQuestions DEF PlanInv
  <2>11. ASSUME NEW i \in Review!Items, i \in Review!Taken(mem.base) PROVE Away(i)'
    <3>1. i \in Invalid /\ Away(i) /\ config'[i] = Absent
      BY <1>2, <2>1, <2>3, <2>11, TakenAre DEF Review!Untouched
    <3>2. config[i] \in Review!Values /\ config[i] # Review!Good
      BY <1>2, <3>1 DEF ReviewTypes, Document
    <3>3. config[i] \notin Review!Theirs \/ config[i] = mem.base[i]
      <4>1. Review!Stable(i)
        BY <1>4
      <4> QED
        BY <3>1, <4>1 DEF Review!Stable, Review!ReviewAssumption
    <3>4. config[i] = mem.base[i] \/ config[i] = Absent
      BY <3>2, <3>3 DEF Review!Values
    <3> QED
      BY <1>1, <1>4, <3>1, <3>4 DEF Away
  <2>12. ASSUME NEW i \in Review!Items, i \notin Review!Taken(mem.base), Review!Untouched(i) PROVE Kept(i)'
    <3>1. Kept(i) /\ config'[i] = config[i]
      BY <1>2, <2>1, <2>3, <2>12
    <3> QED
      BY <1>1, <1>4, <3>1 DEF Kept
  <2>13. ASSUME NEW i \in Review!Items, i \notin Review!Taken(mem.base), ~Review!Untouched(i) PROVE Put(i)'
    <3>1. i \notin Invalid /\ config[i] = found[i] /\ config'[i] = mem.plan[i]
      BY <1>2, <2>3, <2>13 DEF Kept, Review!Untouched
    <3>2. Review!Stable(i) /\ (i \in Markets \cup Offered \/ i \in Keys)
      BY <1>3, <1>4, <3>1
    <3>3. mem.decisions[i] = "keep" \/ config[i] = mem.base[i]
      <4>1. CASE i \in Keys
        BY <3>1, <3>2, <4>1 DEF Review!Stable, Review!ReviewAssumption
      <4>2. CASE i \in Markets \cup Offered
        BY <2>13, <3>1, <3>2, <4>2 DEF Review!Stable, Review!ReviewAssumption
      <4> QED
        BY <3>2, <4>1, <4>2
    <3> QED
      BY <1>1, <1>4, <3>1, <3>3 DEF Put
  <2>14. TextInv'
    BY <1>2, <1>4, <2>7, <2>11, <2>12, <2>13, SameQuestions DEF TextInv, Quiet
  <2> QED
    BY <2>8, <2>9, <2>10, <2>14 DEF ReviewInv
<1>5. CASE Review!Undo /\ UNCHANGED <<config, mem>>
  <2>1. pc' = "undo" /\ Same(mem, mem')
    BY <1>5 DEF Review!Undo, Same
  <2>2. ReviewTypes'
    BY <1>1, <1>2, <1>5 DEF ReviewTypes
  <2>3. AnswersInv' /\ ScreenInv'
    BY <1>1, <2>1, TakenAnswered
  <2>4. ASSUME NEW i \in Review!Items PROVE IF i \in Review!Taken(mem.base) THEN Away(i)' ELSE Restored(i)'
    BY <1>1, <1>2, <1>5 DEF Away, Kept, Restored, Review!PutBack
  <2>5. TextInv' /\ PlanInv'
    BY <1>2, <1>5, <2>1, <2>4 DEF TextInv, PlanInv, Quiet
  <2> QED
    BY <2>2, <2>3, <2>5 DEF ReviewInv
<1> QED
  BY <1>4, <1>5 DEF Review!Publish

LEMMA FinishStep ==
    ASSUME Review!ReviewAssumption, ReviewInv, Review!Finish PROVE ReviewInv'
<1>1. pc = "published" /\ UNCHANGED <<found, config>> /\ ReviewTypes /\ Remembered(mem)
  BY DEF Review!Finish, ReviewInv, ReviewTypes
<1>2. CASE Review!EndWith("installed", mem)
  <2>1. pc' = "end" /\ Same(mem, mem') /\ mem'.outcome = "installed"
    BY <1>1, <1>2 DEF Review!EndWith, Same, Remembered, ReviewFields
  <2>2. ReviewTypes'
    BY <1>1, <2>1, SameRemembered DEF ReviewTypes
  <2> QED
    BY <2>1, <2>2, EndsWithText
<1>3. CASE pc' = "undo_values" /\ UNCHANGED mem
  <2>1. Same(mem, mem')
    BY <1>3 DEF Same
  <2>2. ReviewTypes'
    BY <1>1, <1>3 DEF ReviewTypes
  <2>3. AnswersInv' /\ ScreenInv'
    BY <1>1, <1>3, <2>1, TakenAnswered
  <2>4. PlanInv'
    BY <1>1, <1>3, <2>1, SameQuestions DEF PlanInv, ReviewInv
  <2>5. \A i \in Review!Items :
         IF i \in Review!Taken(mem.base) THEN Away(i) ELSE IF Review!Untouched(i) THEN Kept(i) ELSE Put(i)
    BY <1>1 DEF ReviewInv, TextInv
  <2>6. ASSUME NEW i \in Review!Items
        PROVE  (IF i \in Review!Taken(mem.base) THEN Away(i) ELSE IF Review!Untouched(i) THEN Kept(i) ELSE Put(i))'
    BY <1>1, <1>3, <2>1, <2>5, SameQuestions DEF Away, Kept, Put
  <2>7. TextInv'
    BY <1>1, <1>3, <2>6 DEF TextInv, Quiet, ReviewInv
  <2> QED
    BY <2>2, <2>3, <2>4, <2>7 DEF ReviewInv
<1> QED
  BY <1>2, <1>3 DEF Review!Finish

(* The rollback gives back what is still as published. *)
LEMMA UndoValuesStep ==
    ASSUME Review!ReviewAssumption, ReviewInv, Review!UndoValues PROVE ReviewInv'
<1> DEFINE back == [i \in Review!Items |->
            IF config[i] = mem.plan[i] /\ ~Review!Untouched(i) THEN mem.base[i] ELSE config[i]]
<1>1. /\ pc = "undo_values" /\ UNCHANGED found /\ pc' = "undo"
      /\ \/ config' = back /\ UNCHANGED mem
         \/ mem' = [mem EXCEPT !.told = TRUE] /\ config' \in {config, back}
  BY DEF Review!UndoValues, Review!Undo, Review!TakenBack
<1>2. /\ ReviewTypes /\ Document(mem.base) /\ mem.temp = {}
      /\ \A i \in Review!Items :
           IF i \in Review!Taken(mem.base) THEN Away(i) ELSE IF Review!Untouched(i) THEN Kept(i) ELSE Put(i)
  BY <1>1 DEF ReviewInv, ReviewTypes, Remembered, TextInv
<1>3. Document(config')
  <2>1. \A i \in Invalid : i \in Review!Items /\ Review!Untouched(i)
    BY DEF Review!Items, Review!Untouched
  <2>2. Document(back)
    BY <1>2, <2>1 DEF Document, ReviewTypes
  <2> HIDE DEF back
  <2> QED
    BY <1>1, <1>2, <2>2 DEF ReviewTypes
<1>4. Same(mem, mem') /\ mem'.temp = {} /\ ((UNCHANGED mem /\ config' = back) \/ mem'.told = TRUE)
  <2>1. Remembered(mem)
    BY <1>2 DEF ReviewTypes
  <2> HIDE DEF back
  <2> QED
    BY <1>1, <1>2, <2>1 DEF Same, Remembered, ReviewFields
<1>10. ReviewTypes'
  BY <1>1, <1>2, <1>3, <1>4, SameRemembered DEF ReviewTypes
<1>5. AnswersInv' /\ ScreenInv'
  BY <1>1, <1>4, TakenAnswered
<1>6. ASSUME NEW i \in Review!Items, ~mem'.told
      PROVE  (IF i \in Review!Taken(mem.base) THEN Away(i) ELSE Restored(i))'
  <2>1. config'[i] = IF config[i] = mem.plan[i] /\ ~Review!Untouched(i) THEN mem.base[i] ELSE config[i]
    BY <1>4, <1>6
  <2>5. UNCHANGED mem
    BY <1>4, <1>6
  <2> HIDE DEF back
  <2>2. CASE i \in Review!Taken(mem.base)
    <3>1. Review!Untouched(i) /\ Away(i)
      BY <1>2, <2>2, TakenAre DEF Review!Untouched
    <3> QED
      BY <1>1, <2>1, <2>2, <2>5, <3>1 DEF Away
  <2>3. CASE i \notin Review!Taken(mem.base) /\ Review!Untouched(i)
    BY <1>1, <1>2, <2>1, <2>3, <2>5 DEF Kept, Restored, Review!PutBack
  <2>4. CASE i \notin Review!Taken(mem.base) /\ ~Review!Untouched(i)
    BY <1>1, <1>2, <2>1, <2>4, <2>5 DEF Put, Restored, Review!PutBack
  <2> QED
    BY <2>2, <2>3, <2>4
<1>7. TextInv' /\ PlanInv'
  BY <1>1, <1>4, <1>6 DEF TextInv, PlanInv, Quiet
<1> QED
  BY <1>5, <1>7, <1>10 DEF ReviewInv

LEMMA UndoStripStep ==
    ASSUME Review!ReviewAssumption, ReviewInv, Review!UndoStrip PROVE ReviewInv'
<1> DEFINE given == [i \in Review!Items |-> IF i \in Review!Taken(mem.base) THEN mem.base[i] ELSE config[i]]
<1>1. pc = "undo" /\ UNCHANGED found
  BY DEF Review!UndoStrip
<1>2. /\ Document(config) /\ Document(found) /\ Remembered(mem) /\ Document(mem.base)
      /\ ~mem.told => \A i \in Review!Items : IF i \in Review!Taken(mem.base) THEN Away(i) ELSE Restored(i)
  BY <1>1 DEF ReviewInv, ReviewTypes, Remembered, TextInv
<1>3. Document(given) /\ \A i \in Review!Items : given[i] = IF i \in Review!Taken(mem.base) THEN mem.base[i] ELSE config[i]
  <2>1. \A i \in Invalid : i \in Review!Items
    BY DEF Review!Items
  <2> QED
    BY <1>2, <2>1 DEF Document
<1> HIDE DEF given
<1>4. CASE /\ \A i \in Review!Taken(mem.base) : config[i] \in {Absent, mem.base[i]}
           /\ config' = given /\ Review!Refused(mem)
  <2>1. pc' = "end" /\ mem' = [mem EXCEPT !.outcome = "failed"]
    BY <1>4 DEF Review!Refused, Review!EndWith
  <2>2. Same(mem, mem') /\ mem'.told = mem.told
    BY <1>2, <2>1 DEF Same, Remembered, ReviewFields
  <2>3. ReviewTypes'
    BY <1>1, <1>2, <1>3, <1>4, <2>2, SameRemembered DEF ReviewTypes
  <2>4. ASSUME NEW i \in Review!Items, ~mem.told PROVE Restored(i)'
    <3>1. CASE i \in Review!Taken(mem.base)
      BY <1>1, <1>2, <1>3, <1>4, <2>2, <2>4, <3>1, TakenAre DEF Away, Restored, Review!PutBack, Same
    <3>2. CASE i \notin Review!Taken(mem.base)
      BY <1>1, <1>2, <1>3, <1>4, <2>2, <2>4, <3>2 DEF Restored, Review!PutBack, Same
    <3> QED
      BY <3>1, <3>2
  <2> QED
    BY <2>1, <2>2, <2>3, <2>4, EndsWithText
<1>5. CASE Review!Refused([mem EXCEPT !.told = TRUE]) /\ config' \in {config, given}
  BY <1>1, <1>2, <1>3, <1>5, TellsStep
<1> QED
  BY <1>4, <1>5 DEF Review!UndoStrip, given

(* An edit is what others want of the entry, wherever the install stands. *)
LEMMA EditStep ==
    ASSUME Review!ReviewAssumption, ReviewInv, NEW i \in Review!Items, Review!Edit(i) PROVE ReviewInv'
<1>1. pc # "end" /\ UNCHANGED <<pc, mem, screen>>
  BY DEF Review!Edit
<1>2. PICK v \in {Absent, "other"} : config' = [config EXCEPT ![i] = v] /\ found' = [found EXCEPT ![i] = v]
  BY DEF Review!Edit
<1>3. Document(config) /\ Document(found) /\ Remembered(mem) /\ v # Review!Good
  BY DEF ReviewInv, ReviewTypes, Review!ReviewAssumption, Review!Good
<1>4. /\ config'[i] = v /\ found'[i] = v
      /\ \A j \in Review!Items \ {i} : config'[j] = config[j] /\ found'[j] = found[j]
  BY <1>2, <1>3 DEF Document
<1>5. Document(config') /\ Document(found')
  <2>1. v \in Review!Values /\ Invalid \subseteq Review!Items
    BY DEF Review!Values, Review!Theirs, Review!Items
  <2>2. config' \in [Review!Items -> Review!Values] /\ found' \in [Review!Items -> Review!Values]
    BY <1>2, <1>3, <2>1 DEF Document
  <2> QED
    BY <1>3, <1>4, <2>1, <2>2 DEF Document
<1>6. ReviewTypes' /\ Same(mem, mem')
  BY <1>1, <1>3, <1>5 DEF ReviewTypes, Same
<1>7. AnswersInv' /\ ScreenInv' /\ PlanInv'
  <2>1. ScreenInv'
    BY <1>1 DEF ReviewInv, ScreenInv
  <2>2. AnswersInv'
    <3>1. \A j : Answered(j)' <=> Answered(j)
      BY <1>1 DEF Answered
    <3> QED
      BY <1>1, <1>6, <3>1, SameQuestions DEF ReviewInv, AnswersInv, Towards
  <2>3. PlanInv'
    BY <1>1, <1>6, SameQuestions DEF ReviewInv, PlanInv
  <2> QED
    BY <2>1, <2>2, <2>3
<1>8. ASSUME NEW j \in Review!Items
      PROVE  (Kept(j) => Kept(j)') /\ (Away(j) => Away(j)') /\ (Restored(j) => Restored(j)')
  BY <1>1, <1>4 DEF Kept, Away, Restored, Review!PutBack
<1>9. ASSUME pc = "start" PROVE TextInv'
  BY <1>1, <1>2, <1>9 DEF ReviewInv, TextInv, Quiet
<1>10. ASSUME pc = "read" PROVE TextInv'
  BY <1>1, <1>4, <1>10 DEF ReviewInv, TextInv, Quiet
<1>11. ASSUME pc \in Quiet PROVE TextInv'
  BY <1>1, <1>8, <1>11 DEF ReviewInv, TextInv, Quiet
<1>12. ASSUME pc \in {"list", "back", "repair"} PROVE TextInv'
  <2>1. CASE mem.temp = {} /\ \A j \in Review!Items : Kept(j)
    BY <1>1, <1>8, <1>12, <2>1 DEF ReviewInv, TextInv, Quiet
  <2>2. ASSUME NEW t \in [Review!Items -> Review!Values], mem.temp = {t}, \A j \in Review!Items : Hides(t, j)
        PROVE  TextInv'
    <3>1. ASSUME NEW j \in Review!Items PROVE Hides(t, j)'
      <4>1. CASE j # i
        BY <1>1, <1>4, <2>2, <4>1 DEF Hides
      <4>2. CASE j = i
        BY <1>1, <1>3, <1>4, <2>2, <4>2, TakenAre DEF Hides
      <4> QED
        BY <4>1, <4>2
    <3> QED
      BY <1>1, <1>12, <2>2, <3>1 DEF TextInv, Quiet
  <2> QED
    BY <1>12, <2>1, <2>2 DEF ReviewInv, TextInv
<1>13. ASSUME pc = "publish" PROVE TextInv'
  BY <1>1, <1>8, <1>13 DEF ReviewInv, TextInv, Quiet
<1>14. ASSUME pc \in {"published", "undo_values"} PROVE TextInv'
  <2>1. mem.plan = Review!PlanOf(mem.decisions)
    BY <1>14 DEF ReviewInv, PlanInv
  <2>2. \A j \in Review!Items : mem.plan[j] = mem.base[j] \/ mem.plan[j] = Review!Good
    BY <2>1 DEF Review!PlanOf
  <2>3. ASSUME NEW j \in Review!Items PROVE Put(j) => Put(j)'
    BY <1>1, <1>3, <1>4, <2>2 DEF Put
  <2>4. \A j \in Review!Items : Review!Untouched(j)' <=> Review!Untouched(j)
    BY <1>6, SameQuestions
  <2> QED
    BY <1>1, <1>8, <1>14, <2>3, <2>4 DEF ReviewInv, TextInv, Quiet
<1>15. ASSUME pc = "undo" PROVE TextInv'
  BY <1>1, <1>6, <1>8, <1>15 DEF ReviewInv, TextInv, Quiet
<1>16. ASSUME pc \notin {"start", "read", "list", "back", "repair", "publish", "published", "undo_values", "undo"} \cup Quiet PROVE TextInv'
  BY <1>1, <1>16 DEF ReviewInv, TextInv, Quiet
<1> QED
  BY <1>6, <1>7, <1>9, <1>10, <1>11, <1>12, <1>13, <1>14, <1>15, <1>16 DEF ReviewInv

LEMMA ReviewBegins ==
    ASSUME Review!ReviewAssumption, Review!Init PROVE ReviewInv
<1> DEFINE base == [i \in Review!Items |-> Absent]
           decisions == [i \in Review!Items |-> Review!None]
<1>1. /\ mem = [mode |-> Review!None, request |-> {}, base |-> base, temp |-> {}, repaired |-> FALSE,
                before |-> Review!None, decisions |-> decisions, plan |-> base, at |-> base,
                told |-> FALSE, torn |-> FALSE, outcome |-> Review!None]
      /\ pc = "start" /\ found = config
  BY DEF Review!Init, Review!Fresh
<1>2. Document(base) /\ decisions = [i \in Review!Items |-> decisions[i]] /\ \A i \in Review!Items : decisions[i] = Review!None
  BY DEF Document, Review!Values, Review!Good, Review!ReviewAssumption, Review!Items
<1> HIDE DEF base, decisions
<1>3. mem.base = base /\ mem.decisions = decisions /\ mem.temp = {} /\ ReviewFields \subseteq DOMAIN mem
  BY <1>1 DEF ReviewFields
<1>4. Document(config)
  BY DEF Review!Init, Document, Review!Values, Review!Theirs
<1> QED
  BY <1>1, <1>2, <1>3, <1>4 DEF ReviewInv, ReviewTypes, Remembered, ScreenInv, AnswersInv, PlanInv, TextInv, Quiet, Towards

LEMMA ReviewStays ==
    ASSUME Review!ReviewAssumption, ReviewInv, [Review!Next]_(Review!vars) PROVE ReviewInv'
<1>1. CASE Review!Installer
  BY <1>1, StartSteps, ReadStep, PreflightStep, ReviewStep, StripStep, ReviewPublishStep, FinishStep, UndoValuesStep, UndoStripStep
     DEF Review!Installer
<1>2. CASE Review!User
  BY <1>2, EditStep, ScreenSteps, ReviewStep DEF Review!User
<1>3. CASE UNCHANGED Review!vars
  <2>1. Same(mem, mem') /\ UNCHANGED <<config, found, pc, mem, screen>>
    BY <1>3 DEF Same, Review!vars
  <2>2. ReviewTypes' /\ ScreenInv'
    BY <2>1 DEF ReviewInv, ReviewTypes, ScreenInv
  <2>3. AnswersInv' /\ PlanInv'
    BY <2>1, SameQuestions DEF ReviewInv, AnswersInv, PlanInv, Answered, Towards
  <2>4. TextInv'
    BY <2>1, SameQuestions DEF ReviewInv, TextInv, Kept, Away, Put, Restored, Hides, Review!PutBack, Review!LeftTorn
  <2> QED
    BY <2>2, <2>3, <2>4 DEF ReviewInv
<1> QED
  BY <1>1, <1>2, <1>3 DEF Review!Next

(***************************************************************************)
(* Review!EndsAsFound (installer.ts:3022, 3094, 4138): an install that did *)
(* not end well, and does not say so, leaves config.toml as others have    *)
(* left it or with what it has put back.                                   *)
(***************************************************************************)
LEMMA ReviewInvariant ==
    ASSUME Review!ReviewAssumption
    PROVE  Review!Spec => []ReviewInv
<1>1. Review!Init => ReviewInv
  BY ReviewBegins
<1>2. ReviewInv /\ [Review!Next]_(Review!vars) => ReviewInv'
  BY ReviewStays
<1> QED
  BY <1>1, <1>2, PTL DEF Review!Spec

THEOREM EndsAsLeft ==
    ASSUME Review!ReviewAssumption
    PROVE  Review!Spec => []Review!EndsAsFound
<1>1. ReviewInv => Review!EndsAsFound
  BY DEF ReviewInv, TextInv, Restored, Review!EndsAsFound
<1> QED
  BY <1>1, ReviewInvariant, PTL

(***************************************************************************)
(* With --yes every conflict is decided by its default.                    *)
(***************************************************************************)
ModeInv ==
    /\ pc \notin {"start", "end"} => mem.mode \in {"interactive", "yes"}
    /\ pc # "end" /\ mem.mode = "yes"
         => \A i \in Review!Items : mem.decisions[i] \in {Review!None, Review!Default(i)}
    /\ pc = "screen" /\ mem.mode = "yes" => \A i \in screen.shown : screen.choice[i] = Review!Default(i)

SameMode(m) == m.mode = mem.mode /\ m.decisions = mem.decisions

LEMMA ModeAsked ==
    ASSUME ReviewInv, ModeInv, pc \notin {"start", "end"}, NEW m, SameMode(m), {"mode", "decisions"} \subseteq DOMAIN m,
           m.mode = mem.mode, NEW shown, shown \subseteq Review!Items, NEW next, Review!Ask(shown, next, m)
    PROVE  ModeInv'
<1> DEFINE choice == [i \in Review!Items |-> IF i \in shown THEN Review!Preset(i) ELSE Review!None]
<1>1. /\ pc' = "screen" /\ mem' = [m EXCEPT !.before = pc]
      /\ screen' = [shown |-> shown, next |-> next, choice |-> choice]
  BY DEF Review!Ask
<1>2. mem'.mode = mem.mode /\ mem'.decisions = mem.decisions
  BY <1>1 DEF SameMode
<1>3. mem.mode = "yes" => \A i \in shown : choice[i] = Review!Default(i)
  BY DEF Review!Preset
<1> HIDE DEF choice
<1>4. screen'.shown = shown /\ screen'.choice = choice
  BY <1>1
<1> QED
  BY <1>1, <1>2, <1>3, <1>4 DEF ModeInv

LEMMA ModeSteady ==
    ASSUME ReviewInv, ModeInv,
           \/ Review!StripTemporarily \/ Review!List \/ Review!GiveBack \/ Review!ReplaceTemporarily
           \/ Review!Repair \/ Review!Decide \/ Review!Apply \/ Review!CancelReview \/ Review!ChangeOptions
           \/ Review!Begin \/ Review!Strip \/ Review!Publish \/ Review!Finish \/ Review!UndoValues
           \/ Review!UndoStrip
    PROVE  ModeInv'
<1>1. ASSUME pc' = "end" PROVE ModeInv'
  BY <1>1 DEF ModeInv
<1>2. ASSUME pc \notin {"start", "end"}, pc' # "screen", SameMode(mem') PROVE ModeInv'
  BY <1>2 DEF ModeInv, SameMode
<1>3. ReviewFields \subseteq DOMAIN mem
  BY DEF ReviewInv, ReviewTypes, Remembered
<1>4. ASSUME mem' = mem PROVE SameMode(mem')
  BY <1>4 DEF SameMode
<1>5. ASSUME \/ \E v : mem' = [mem EXCEPT !.temp = v]
             \/ mem' = [mem EXCEPT !.repaired = TRUE]
             \/ \E v : mem' = [mem EXCEPT !.plan = v]
             \/ mem' = [mem EXCEPT !.at = config]
             \/ mem' = [mem EXCEPT !.told = TRUE]
      PROVE  SameMode(mem')
  BY <1>3, <1>5 DEF SameMode, ReviewFields
<1>6. CASE Review!StripTemporarily \/ Review!ReplaceTemporarily
  BY <1>1, <1>2, <1>5, <1>6
     DEF Review!StripTemporarily, Review!ReplaceTemporarily, Review!WriteTemporary, Review!Refused, Review!EndWith
<1>7. CASE Review!List \/ Review!GiveBack \/ Review!Repair
  BY <1>1, <1>2, <1>4, <1>5, <1>7
     DEF Review!List, Review!GiveBack, Review!Repair, Review!Restores, Review!On, Review!Refused, Review!EndWith
<1>8. CASE Review!Decide \/ Review!Apply \/ Review!CancelReview \/ Review!ChangeOptions \/ Review!Begin
  BY <1>1, <1>2, <1>4, <1>5, <1>8
     DEF Review!Decide, Review!Apply, Review!CancelReview, Review!ChangeOptions, Review!Begin, Review!Reviewing,
         Review!Refused, Review!EndWith
<1>9. CASE Review!Strip \/ Review!Publish \/ Review!Finish \/ Review!UndoValues \/ Review!UndoStrip
  BY <1>1, <1>2, <1>4, <1>5, <1>9
     DEF Review!Strip, Review!Publish, Review!Finish, Review!UndoValues, Review!UndoStrip, Review!Undo,
         Review!Refused, Review!EndWith
<1> QED
  BY <1>6, <1>7, <1>8, <1>9

LEMMA ModeDecided ==
    ASSUME ReviewInv, ModeInv, pc = "screen", NEW choice, Review!Decided(choice),
           mem.mode = "yes" => choice = screen.choice
    PROVE  ModeInv'
<1> DEFINE decisions == [i \in Review!Items |-> IF i \in screen.shown THEN choice[i] ELSE mem.decisions[i]]
<1>1. mem' = [mem EXCEPT !.decisions = decisions] /\ pc' = screen.next
  BY DEF Review!Decided
<1>2. \A i \in Review!Items : decisions[i] = IF i \in screen.shown THEN choice[i] ELSE mem.decisions[i]
  OBVIOUS
<1> HIDE DEF decisions
<1>3. mem'.mode = mem.mode /\ mem'.decisions = decisions
  BY <1>1 DEF ReviewInv, ReviewTypes, Remembered, ReviewFields
<1>4. screen.next # "screen"
  BY DEF ReviewInv, ScreenInv
<1> QED
  BY <1>1, <1>2, <1>3, <1>4 DEF ModeInv

LEMMA ModeKept ==
    ASSUME Review!ReviewAssumption, ReviewInv, ModeInv, [Review!Next]_(Review!vars) PROVE ModeInv'
<1>1. {"mode", "decisions"} \subseteq DOMAIN mem /\ SameMode(mem)
  BY DEF ReviewInv, ReviewTypes, Remembered, ReviewFields, SameMode
<1>2. ASSUME pc' = "end" PROVE ModeInv'
  BY <1>2 DEF ModeInv
<1>3. ASSUME NEW mode \in {"interactive", "yes"}, NEW request, mem' = Review!Fresh(mode, request), pc' # "screen"
      PROVE  ModeInv'
  <2> DEFINE decisions == [i \in Review!Items |-> Review!None]
  <2>1. mem'.mode = mode /\ mem'.decisions = decisions
    BY <1>3 DEF Review!Fresh
  <2>2. \A i \in Review!Items : decisions[i] = Review!None
    OBVIOUS
  <2> HIDE DEF decisions
  <2> QED
    BY <1>3, <2>1, <2>2 DEF ModeInv
<1>4. CASE Review!Start
  BY <1>2, <1>3, <1>4 DEF Review!Start, Review!Refused, Review!EndWith
<1>5. CASE Review!Wizard
  BY <1>2, <1>3, <1>5 DEF Review!Wizard, Review!EndWith, ModeInv
<1>6. CASE Review!Read
  <2>1. PICK m : m = [mem EXCEPT !.base = config]
    OBVIOUS
  <2>2. SameMode(m) /\ DOMAIN m = DOMAIN mem /\ pc = "read"
    BY <1>6, <2>1, <1>1 DEF SameMode, Review!Read
  <2>3. CASE Review!Ask(Review!Taken(config), "temp", m)
    <3>1. Review!Taken(config) \subseteq Review!Items
      BY TakenAre DEF Review!Items
    <3> QED
      BY <1>1, <2>2, <2>3, <3>1, ModeAsked DEF SameMode
  <2>4. CASE pc' = "list" /\ mem' = m
    BY <2>2, <2>4 DEF ModeInv, SameMode
  <2> QED
    BY <1>2, <1>6, <2>1, <2>3, <2>4 DEF Review!Read, Review!Refused, Review!EndWith
<1>7. ASSUME pc \in {"incomplete", "conflicts", "review"}, NEW shown, shown \subseteq Review!Items, NEW next, Review!Ask(shown, next, mem)
      PROVE  ModeInv'
  BY <1>1, <1>7, ModeAsked
<1>8. ASSUME pc \in {"incomplete", "conflicts"}, pc' # "screen", mem' = mem PROVE ModeInv'
  BY <1>8 DEF ModeInv
<1>9. CASE Review!Incomplete
  <2>1. {i \in Markets : mem.base[i] \in Review!Theirs} \subseteq Review!Items
    BY DEF Review!Items
  <2> QED
    BY <1>2, <1>7, <1>8, <1>9, <2>1 DEF Review!Incomplete, Review!Refused, Review!EndWith
<1>10. CASE Review!ReviewConflicts
  <2>1. {i \in Review!Reviewable : mem.decisions[i] = Review!None} \subseteq Review!Items
    BY DEF Review!Reviewable
  <2> QED
    BY <1>7, <1>8, <1>10, <2>1 DEF Review!ReviewConflicts
<1>11. CASE Review!ResolveAgain
  <2>1. Review!Reviewable \subseteq Review!Items
    BY DEF Review!Reviewable
  <2> QED
    BY <1>7, <1>11, <2>1 DEF Review!ResolveAgain, Review!Reviewing
<1>12. CASE \E i \in Review!Items : Review!Cycle(i)
  BY <1>12 DEF Review!Cycle, ModeInv
<1>13. CASE \E decision \in {"replace", "keep"} : Review!SetAll(decision)
  BY <1>13 DEF Review!SetAll, ModeInv
<1>14. CASE \E i \in Review!Items : Review!Edit(i)
  BY <1>14 DEF Review!Edit, ModeInv
<1>15. CASE Review!YesDecides \/ Review!Confirm \/ Review!Escape \/ Review!Interrupt
  <2>1. pc = "screen" /\ ("interactive" = mem.mode \/ Review!YesDecides)
    BY <1>15 DEF Review!YesDecides, Review!Confirm, Review!Escape, Review!Interrupt
  <2>2. CASE Review!YesDecides \/ Review!Confirm
    BY <2>1, <2>2, ModeDecided DEF Review!YesDecides, Review!Confirm
  <2>3. CASE Review!Escape \/ Review!Interrupt
    <3>1. mem.mode # "yes"
      BY <2>3 DEF Review!Escape, Review!Interrupt
    <3>2. Review!Refused(mem) \/ \E choice : Review!Decided(choice)
      BY <2>3 DEF Review!Escape, Review!Interrupt
    <3> QED
      BY <1>2, <2>1, <3>1, <3>2, ModeDecided DEF Review!Refused, Review!EndWith
  <2> QED
    BY <1>15, <2>2, <2>3
<1>16. CASE UNCHANGED Review!vars
  BY <1>16 DEF Review!vars, ModeInv
<1>17. CASE Review!Installer
  BY <1>4, <1>5, <1>6, <1>9, <1>10, <1>17, ModeSteady DEF Review!Installer
<1>18. CASE Review!User
  BY <1>11, <1>12, <1>13, <1>14, <1>15, <1>18, ModeSteady DEF Review!User
<1> QED
  BY <1>16, <1>17, <1>18 DEF Review!Next

LEMMA ModeInvariant ==
    ASSUME Review!ReviewAssumption
    PROVE  Review!Spec => []ModeInv
<1>1. Review!Init => ModeInv
  <2> SUFFICES ASSUME Review!Init PROVE ModeInv
    OBVIOUS
  <2>1. pc = "start" /\ mem.mode = Review!None
    BY DEF Review!Init, Review!Fresh
  <2> QED
    BY <2>1 DEF ModeInv, Review!None
<1>2. ReviewInv /\ ModeInv /\ [Review!Next]_(Review!vars) => ModeInv'
  BY ModeKept
<1> QED
  BY <1>1, <1>2, ReviewInvariant, PTL DEF Review!Spec

(* What the steps put into config.toml, or take from it, was answered for. *)
LEMMA WritesReviewed ==
    ASSUME Review!ReviewAssumption, ReviewInv, ModeInv,
           Review!StripTemporarily \/ Review!ReplaceTemporarily \/ Review!Strip \/ Review!Publish
    PROVE  Review!Reviewed
<1> SUFFICES ASSUME NEW i \in Review!Items PROVE Review!ReviewedItem(i)
  BY DEF Review!Reviewed
<1>1. /\ Document(config) /\ Document(mem.base) /\ pc # "screen"
      /\ i \in Review!Taken(mem.base) => mem.decisions[i] = "remove"
  <2>1. pc \in {"temp", "source", "strip", "publish"}
    BY DEF Review!StripTemporarily, Review!ReplaceTemporarily, Review!Strip, Review!Publish
  <2>2. i \in Review!Taken(mem.base) => i \in Invalid /\ Answered(i)
    BY <2>1, TakenAre DEF ReviewInv, AnswersInv
  <2> QED
    BY <2>1, <2>2, Unanswered, ChoicesAre DEF ReviewInv, ReviewTypes, Remembered
<1>9. /\ mem.mode \in {"interactive", "yes"}
      /\ mem.mode = "yes" => mem.decisions[i] \in {Review!None, Review!Default(i)}
  BY DEF ModeInv, Review!StripTemporarily, Review!ReplaceTemporarily, Review!Strip, Review!Publish
<1>10. /\ mem.decisions[i] \in {"replace", "remove"} => Review!Shown(i) \/ Review!ByDefault(i)
       /\ mem.decisions[i] = "keep" => mem.mode = "interactive"
  BY <1>9 DEF Review!Shown, Review!ByDefault, Review!Decision, Review!None, Review!Default
<1>2. ASSUME i \in Review!Taken(mem.base), config[i] = mem.base[i] \/ config[i] \notin Review!Theirs
      PROVE  Review!ReviewedItem(i)
  BY <1>1, <1>2, <1>10 DEF Review!ReviewedItem
<1>3. ASSUME config'[i] = config[i] PROVE Review!ReviewedItem(i)
  BY <1>3 DEF Review!ReviewedItem
<1> DEFINE bare == Review!Stripped(mem.base, mem.base)
<1>4. \A j \in Review!Items : bare[j] = (IF j \in Review!Taken(mem.base) THEN Absent ELSE mem.base[j])
  BY <1>1, StrippedText
<1> HIDE DEF bare
<1>5. CASE Review!StripTemporarily
  <2>1. UNCHANGED config \/ (config = mem.base /\ config' = bare)
    BY <1>5 DEF Review!StripTemporarily, Review!WriteTemporary, bare
  <2> QED
    BY <1>2, <1>3, <1>4, <2>1
<1>6. CASE Review!ReplaceTemporarily
  <2> DEFINE text == [j \in Review!Items |-> IF j \in Markets THEN Review!Good ELSE bare[j]]
  <2>1. UNCHANGED config \/ (config = mem.base /\ config' = text)
    BY <1>6 DEF Review!ReplaceTemporarily, Review!WriteTemporary, bare
  <2>2. text[i] = IF i \in Markets THEN Review!Good ELSE bare[i]
    OBVIOUS
  <2> HIDE DEF text
  <2>3. CASE i \in Markets /\ config = mem.base
    <3>1. mem.base[i] \in Review!Theirs => mem.decisions[i] = "replace"
      BY <1>1, <1>6, <2>3, Unanswered, ChoicesAre DEF Review!ReplaceTemporarily, ReviewInv, AnswersInv, Towards
    <3> QED
      BY <1>10, <2>3, <3>1 DEF Review!ReviewedItem
  <2> QED
    BY <1>2, <1>3, <1>4, <2>1, <2>2, <2>3
<1>7. CASE Review!Strip
  <2>1. UNCHANGED config \/ (config = mem.at /\ config' = Review!Stripped(config, mem.base))
    BY <1>7 DEF Review!Strip
  <2>2. i \in Review!Taken(mem.base) => mem.at[i] \in {Absent, mem.base[i]}
    BY <1>7 DEF Review!Strip, ReviewInv, PlanInv
  <2>3. config' = Review!Stripped(config, mem.base) => i \in Review!Taken(mem.base) \/ config'[i] = config[i]
    BY <1>1, StrippedText
  <2>4. Absent \notin Review!Theirs
    BY DEF Review!ReviewAssumption, Review!Theirs
  <2> QED
    BY <1>2, <1>3, <2>1, <2>2, <2>3, <2>4
<1>8. CASE Review!Publish
  <2>1. CASE UNCHANGED config
    BY <1>3, <2>1
  <2>2. CASE Review!Stable(i) /\ config' = Review!Published
    <3>1. config'[i] = IF Review!Untouched(i) THEN Review!Stripped(config, mem.base)[i] ELSE mem.plan[i]
      BY <2>2 DEF Review!Published
    <3>2. CASE i \in Review!Taken(mem.base)
      <4>1. i \in Invalid
        BY <3>2, TakenAre
      <4> QED
        BY <1>2, <2>2, <3>2, <4>1 DEF Review!Stable, Review!ReviewAssumption
    <3>3. CASE i \notin Review!Taken(mem.base) /\ Review!Untouched(i)
      BY <1>1, <1>3, <3>1, <3>3, StrippedText
    <3>4. CASE ~Review!Untouched(i)
      <4>1. i \notin Invalid /\ (i \in Markets \cup Offered \/ i \in Keys) /\ (i \in Offered => i \in mem.request)
        BY <3>4 DEF Review!Untouched, Review!Items
      <4>2. config'[i] = IF mem.decisions[i] = "keep" THEN mem.base[i] ELSE Review!Good
        BY <1>8, <3>1, <3>4, <4>1 DEF Review!Publish, ReviewInv, PlanInv, Review!PlanOf
      <4>3. mem.decisions[i] = "keep" \/ config[i] = mem.base[i]
        <5>1. CASE i \in Keys
          BY <2>2, <4>1, <5>1 DEF Review!Stable, Review!ReviewAssumption
        <5>2. CASE i \in Markets \cup Offered
          BY <2>2, <3>4, <4>1, <5>2 DEF Review!Stable, Review!ReviewAssumption
        <5> QED
          BY <4>1, <5>1, <5>2
      <4>4. mem.base[i] \in Review!Theirs => mem.decisions[i] \in {"keep", "replace"}
        <5>1. mem.base[i] \in Review!Theirs => i \in Review!Reviewable
          BY <4>1 DEF Review!Reviewable, Review!Conflict
        <5>2. mem.base[i] \in Review!Theirs => Answered(i)
          BY <1>8, <5>1 DEF Review!Publish, ReviewInv, AnswersInv
        <5> QED
          BY <1>1, <4>1, <5>2, Unanswered, ChoicesAre
      <4> QED
        BY <1>10, <4>2, <4>3, <4>4 DEF Review!ReviewedItem, Review!Decision
    <3> QED
      BY <3>2, <3>3, <3>4
  <2> QED
    BY <1>8, <2>1, <2>2 DEF Review!Publish
<1> QED
  BY <1>5, <1>6, <1>7, <1>8

(* What they take back is what they have put there themselves. *)
LEMMA UndoesReviewed ==
    ASSUME Review!ReviewAssumption, ReviewInv,
           Review!List \/ Review!GiveBack \/ Review!Repair \/ Review!UndoValues \/ Review!UndoStrip
    PROVE  Review!Reviewed
<1> SUFFICES ASSUME NEW i \in Review!Items PROVE Review!ReviewedItem(i)
  BY DEF Review!Reviewed
<1>1. /\ Absent \notin Review!Theirs /\ Review!Good \notin Review!Theirs
      /\ ReviewTypes /\ Document(mem.base)
  BY DEF Review!ReviewAssumption, Review!Theirs, Review!Good, ReviewInv, ReviewTypes, Remembered
<1>2. ASSUME config[i] \notin Review!Theirs \/ config'[i] = config[i] PROVE Review!ReviewedItem(i)
  BY <1>2 DEF Review!ReviewedItem
<1>3. CASE Review!List \/ Review!GiveBack \/ Review!Repair
  <2>1. pc \in {"list", "back", "repair"}
    BY <1>3 DEF Review!List, Review!GiveBack, Review!Repair
  <2>2. UNCHANGED config \/ (config \in mem.temp /\ config' = mem.base)
    BY <1>3 DEF Review!List, Review!GiveBack, Review!Repair, Review!Restores
  <2>3. CASE config \in mem.temp /\ config' = mem.base
    <3>1. PICK t \in [Review!Items -> Review!Values] : mem.temp = {t} /\ \A j \in Review!Items : Hides(t, j)
      BY <2>1, <2>3 DEF ReviewInv, TextInv
    <3>2. config[i] = mem.base[i] \/ config[i] = Absent \/ config[i] = Review!Good
      BY <2>3, <3>1 DEF Hides
    <3> QED
      BY <1>1, <1>2, <2>3, <3>2
  <2> QED
    BY <1>2, <2>2, <2>3
<1>4. CASE Review!UndoValues
  <2> DEFINE back == [j \in Review!Items |->
            IF config[j] = mem.plan[j] /\ ~Review!Untouched(j) THEN mem.base[j] ELSE config[j]]
  <2>4. UNCHANGED config \/ config' = back
    BY <1>4 DEF Review!UndoValues, Review!TakenBack
  <2>1. config'[i] = config[i] \/ (config[i] = mem.plan[i] /\ config'[i] = mem.base[i])
    BY <2>4
  <2>2. mem.plan = Review!PlanOf(mem.decisions)
    BY <1>4 DEF Review!UndoValues, ReviewInv, PlanInv
  <2>3. mem.plan[i] = mem.base[i] \/ mem.plan[i] = Review!Good
    BY <2>2 DEF Review!PlanOf
  <2> QED
    BY <1>1, <1>2, <2>1, <2>3
<1>5. CASE Review!UndoStrip
  <2>1. \/ UNCHANGED config
        \/ /\ \A j \in Review!Taken(mem.base) : config[j] \in {Absent, mem.base[j]}
           /\ config' = [j \in Review!Items |-> IF j \in Review!Taken(mem.base) THEN mem.base[j] ELSE config[j]]
    BY <1>5 DEF Review!UndoStrip
  <2> QED
    BY <1>1, <1>2, <2>1
<1> QED
  BY <1>3, <1>4, <1>5

(***************************************************************************)
(* Review!OnlyReviewedReplaced (installer.ts:3022, 4138, 4806): a value of *)
(* the user goes only by a decision on this very value.                    *)
(***************************************************************************)
THEOREM ReplacesReviewed ==
    ASSUME Review!ReviewAssumption
    PROVE  Review!Spec => Review!OnlyReviewedReplaced
<1>1. ASSUME UNCHANGED config PROVE Review!Reviewed
  BY <1>1 DEF Review!Reviewed, Review!ReviewedItem
<1>2. ASSUME ReviewInv, ModeInv, Review!Next PROVE Review!Reviewed
  <2>1. CASE Review!Installer
    <3>1. CASE Review!Start \/ Review!Wizard \/ Review!Read \/ Review!Incomplete \/ Review!ReviewConflicts
                \/ Review!Decide \/ Review!Begin \/ Review!Finish
      BY <1>1, <3>1 DEF Review!Start, Review!Wizard, Review!Read, Review!Incomplete, Review!ReviewConflicts,
            Review!Decide, Review!Begin, Review!Finish, Review!Alone, Review!Unwritten
    <3> QED
      BY <1>2, <2>1, <3>1, WritesReviewed, UndoesReviewed DEF Review!Installer
  <2>2. ASSUME NEW i \in Review!Items, Review!Edit(i) PROVE Review!Reviewed
    <3>1. \A j \in Review!Items \ {i} : config'[j] = config[j]
      BY <1>2, <2>2 DEF Review!Edit, ReviewInv, ReviewTypes, Document
    <3> QED
      BY <2>2, <3>1 DEF Review!Reviewed, Review!ReviewedItem
  <2>3. CASE Review!User
    <3>1. ASSUME NEW i \in Review!Items, Review!Cycle(i) PROVE Review!Reviewed
      BY <1>1, <3>1 DEF Review!Cycle, Review!Alone, Review!Unwritten
    <3>2. ASSUME NEW decision, Review!SetAll(decision) PROVE Review!Reviewed
      BY <1>1, <3>2 DEF Review!SetAll, Review!Alone, Review!Unwritten
    <3>3. CASE Review!YesDecides \/ Review!Confirm \/ Review!Escape \/ Review!Interrupt
      BY <1>1, <3>3 DEF Review!YesDecides, Review!Confirm, Review!Escape, Review!Interrupt, Review!Alone, Review!Unwritten
    <3>4. CASE Review!Apply \/ Review!CancelReview \/ Review!ResolveAgain \/ Review!ChangeOptions
      BY <1>1, <3>4 DEF Review!Apply, Review!CancelReview, Review!ResolveAgain, Review!ChangeOptions,
            Review!Reviewing, Review!Unwritten
    <3> QED
      BY <2>2, <2>3, <3>1, <3>2, <3>3, <3>4 DEF Review!User
  <2> QED
    BY <1>2, <2>1, <2>3 DEF Review!Next
<1>3. ReviewInv /\ ModeInv /\ [Review!Next]_(Review!vars) => [Review!Reviewed]_(Review!vars)
  BY <1>2
<1> QED
  BY <1>3, ReviewInvariant, ModeInvariant, PTL DEF Review!Spec, Review!OnlyReviewedReplaced

-----------------------------------------------------------------------------
(***************************************************************************)
(* Codex's plugins.  What a call has changed of them is of its own plugin, *)
(* and what it remembers of the list before tells whether it has.          *)
(***************************************************************************)
AddingOps == {"add", "refresh", "restore"}
PluginFields == {"op", "p", "pc", "prior", "k", "tried", "seen", "target"}

AddingInv ==
    /\ PluginFields \subseteq DOMAIN call
    /\ call.op \in AddingOps /\ call.pc \in {"before", "adding", "check", "failed", "after"}
    /\ call.p \in Providers /\ call.k \in DOMAIN Candidates[call.p]
    /\ took = {} /\ \A i \in put : i \in Plugins!IdsOf(call.p) /\ Plugins!Installed(i)
    /\ call.tried \in BOOLEAN /\ (~call.tried => put = {})
    /\ call.pc = "before" => ~call.tried
    /\ call.pc \in {"adding", "check", "failed"} => call.tried
    /\ call.op = "add" /\ call.tried => ~Plugins!Has(call.seen)

TakingInv ==
    /\ PluginFields \subseteq DOMAIN call
    /\ call.op = "remove"
    /\ call.pc \in {"before", "resolve", "removing", "check_removed", "failed", "after"}
    /\ call.p \in Providers /\ put = {} /\ (call.pc \in {"before", "resolve"} => took = {})
    /\ call.pc \in {"removing", "check_removed"} => call.target \in Plugins!IdsOf(call.p)

MarketplaceInv ==
    /\ {"op", "pc", "listed", "names", "rebuilt"} \subseteq DOMAIN call
    /\ call.op = "marketplace" /\ call.pc \in {"list", "rebuild", "clear", "register", "readback"}
    /\ put = {} /\ took = {}
    /\ \A name \in call.names :
        name = Plugins!Holy \/ \E m \in call.listed : m.name = name /\ m.ours

BootstrapInv ==
    /\ {"op", "pc", "head", "stage", "done"} \subseteq DOMAIN call
    /\ call.op = "bootstrap"
    /\ call.pc \in {"look", "start", "poll", "close", "head", "reserve", "clone", "verify", "publish", "published"}
    /\ put = {} /\ took = {}

PluginsInv ==
    /\ live = [i \in Ids |-> live[i]]
    /\ call.pc = "end" \/ AddingInv \/ TakingInv \/ MarketplaceInv \/ BootstrapInv

(* The entry of a plugin is one of its identities, and it is installed if  *)
(* any of them is.                                                         *)
LEMMA EntryIs ==
    ASSUME Plugins!PluginAssumption, NEW p \in Providers
    PROVE  /\ Plugins!Has(Plugins!Look(p)) <=> \E i \in Plugins!IdsOf(p) : Plugins!Installed(i)
           /\ Plugins!Has(Plugins!Look(p)) => Plugins!Entry(p) \in Plugins!IdsOf(p)
           /\ Plugins!Has(Plugins!Look(p)) => Plugins!Look(p).state = live[Plugins!Entry(p)]
<1> DEFINE known == {i \in Plugins!IdsOf(p) : live[i] # "unknown"}
           there == {i \in known : Plugins!Installed(i)}
<1>1. ASSUME NEW S, S # {} PROVE Plugins!Preferred(p, S) \in S
  BY <1>1 DEF Plugins!Preferred
<1>2. Plugins!Entry(p) = IF there # {} THEN Plugins!Preferred(p, there)
                         ELSE IF known # {} THEN Plugins!Preferred(p, known) ELSE NoId
  BY DEF Plugins!Entry
<1>3. Plugins!Look(p).state = IF Plugins!Entry(p) = NoId THEN "unknown" ELSE live[Plugins!Entry(p)]
  BY DEF Plugins!Look
<1>4. NoId \notin Plugins!IdsOf(p)
  BY DEF Plugins!PluginAssumption
<1>5. there = {i \in Plugins!IdsOf(p) : Plugins!Installed(i)}
  BY DEF Plugins!Installed
<1>6. CASE there # {}
  <2>1. Plugins!Entry(p) \in there
    BY <1>1, <1>2, <1>6
  <2> QED
    BY <1>3, <1>4, <1>5, <2>1 DEF Plugins!Has, Plugins!Installed
<1>7. CASE there = {}
  <2>1. Plugins!Entry(p) = NoId \/ (Plugins!Entry(p) \in known /\ Plugins!Entry(p) \notin there)
    BY <1>1, <1>2, <1>7
  <2>2. ~Plugins!Has(Plugins!Look(p))
    BY <1>3, <2>1 DEF Plugins!Has, Plugins!Installed
  <2> QED
    BY <1>5, <1>7, <2>2
<1> QED
  BY <1>6, <1>7

(* A call ends, or goes on to another place. *)
LEMMA CallEnds ==
    ASSUME PluginsInv, UNCHANGED live, NEW ok, NEW report, Plugins!End(ok, report)
    PROVE  PluginsInv'
<1>1. call'.pc = "end"
  BY DEF Plugins!End, Plugins!Idle
<1> QED
  BY <1>1 DEF PluginsInv

LEMMA CallBegins ==
    ASSUME Plugins!PluginAssumption, PluginsInv, Plugins!Calls PROVE PluginsInv'
<1>1. UNCHANGED live /\ put' = {} /\ took' = {}
  BY DEF Plugins!Calls, Plugins!Begin, Plugins!BeginMarketplace, Plugins!BeginBootstrap, Plugins!NewCall, Plugins!codex
<1>2. ASSUME NEW op \in AddingOps \cup {"remove"}, NEW p \in Providers, NEW prior, Plugins!Begin(op, p, prior)
      PROVE  PluginsInv'
  <2>1. 1 \in DOMAIN Candidates[p]
    <3>1. Plugins!IdsOf(p) # {} /\ Candidates[p] \in Seq(Ids)
      BY DEF Plugins!PluginAssumption
    <3>2. Candidates[p] # <<>>
      BY <3>1 DEF Plugins!IdsOf
    <3> QED
      BY <3>1, <3>2
  <2>2. call' = [op |-> op, p |-> p, pc |-> "before", prior |-> prior, k |-> 1, tried |-> FALSE,
                 seen |-> [id |-> NoId, state |-> "unknown"], target |-> NoId]
    BY <1>2 DEF Plugins!Begin
  <2>3. AddingInv' \/ TakingInv'
    BY <1>1, <2>1, <2>2 DEF AddingInv, TakingInv, PluginFields, AddingOps
  <2> QED
    BY <1>1, <2>3 DEF PluginsInv
<1>3. CASE Plugins!BeginMarketplace
  <2>1. MarketplaceInv'
    BY <1>1, <1>3 DEF Plugins!BeginMarketplace, MarketplaceInv
  <2> QED
    BY <1>1, <2>1 DEF PluginsInv
<1>4. CASE Plugins!BeginBootstrap
  <2>1. BootstrapInv'
    BY <1>1, <1>4 DEF Plugins!BeginBootstrap, BootstrapInv
  <2> QED
    BY <1>1, <2>1 DEF PluginsInv
<1> QED
  BY <1>2, <1>3, <1>4 DEF Plugins!Calls, AddingOps

(* Where a step can be taken. *)
LEMMA Places ==
    ASSUME PluginsInv
    PROVE  /\ Plugins!Adding /\ call.pc # "end" => AddingInv
           /\ call.op = "remove" /\ call.pc # "end" => TakingInv
           /\ call.pc \in {"adding", "check"} => AddingInv
           /\ call.pc \in {"resolve", "removing", "check_removed"} => TakingInv
           /\ call.pc \in {"list", "rebuild", "clear", "register", "readback"} => MarketplaceInv
           /\ call.pc \in {"look", "start", "poll", "close", "head", "reserve", "clone", "verify", "publish", "published"} => BootstrapInv
BY DEF PluginsInv, AddingInv, TakingInv, MarketplaceInv, BootstrapInv, Plugins!Adding, AddingOps

(* An addition goes on. *)
LEMMA AddingStep ==
    ASSUME Plugins!PluginAssumption, PluginsInv,
           Plugins!ListBeforeAdd \/ Plugins!CheckAdded \/ Plugins!ListAfterFailure \/ Plugins!ListAfterAdd
    PROVE  PluginsInv'
<1>1. AddingInv /\ UNCHANGED <<live, put, took>>
  BY Places DEF Plugins!ListBeforeAdd, Plugins!CheckAdded, Plugins!ListAfterFailure, Plugins!ListAfterAdd,
                Plugins!At, Plugins!codex, Plugins!Quiet
<1>2. ASSUME NEW ok, NEW report, Plugins!End(ok, report) PROVE PluginsInv'
  BY <1>1, <1>2, CallEnds
<1>3. ASSUME NEW c, c \in {"failed", "after"}, Plugins!Go(c), call.pc = "check" PROVE PluginsInv'
  <2>1. /\ call' = [call EXCEPT !.pc = c]
    BY <1>3 DEF Plugins!Go
  <2>2. AddingInv'
    BY <1>1, <1>3, <2>1 DEF AddingInv, PluginFields, Plugins!IdsOf, Plugins!Installed
  <2> QED
    BY <1>1, <2>2 DEF PluginsInv
<1>4. CASE Plugins!ListBeforeAdd
  <2>1. call.pc = "before" /\ ~call.tried
    BY <1>1, <1>4 DEF Plugins!ListBeforeAdd, Plugins!At, AddingInv
  <2>2. ASSUME Plugins!Attempt, call.op = "add" => ~Plugins!Has(Plugins!Look(call.p)) PROVE PluginsInv'
    <3> DEFINE seen == Plugins!Look(call.p)
    <3>1. call' = [call EXCEPT !.pc = "adding", !.tried = TRUE, !.seen = seen]
      BY <2>2 DEF Plugins!Attempt
    <3>2. call.op = "add" => ~Plugins!Has(seen)
      BY <2>2
    <3> HIDE DEF seen
    <3>3. AddingInv'
      BY <1>1, <3>1, <3>2 DEF AddingInv, PluginFields, Plugins!IdsOf, Plugins!Installed, Plugins!Has
    <3> QED
      BY <1>1, <3>3 DEF PluginsInv
  <2>3. ASSUME NEW seen, call' = [call EXCEPT !.pc = "after", !.seen = seen] PROVE PluginsInv'
    <3>1. AddingInv'
      BY <1>1, <2>1, <2>3 DEF AddingInv, PluginFields, Plugins!IdsOf, Plugins!Installed
    <3> QED
      BY <1>1, <3>1 DEF PluginsInv
  <2>4. call.op \in AddingOps
    BY <1>1 DEF AddingInv
  <2> QED
    BY <1>2, <1>4, <2>2, <2>3, <2>4 DEF Plugins!ListBeforeAdd, Plugins!Has, AddingOps
<1>5. CASE Plugins!CheckAdded
  BY <1>3, <1>5 DEF Plugins!CheckAdded, Plugins!Failed, Plugins!At
<1> QED
  BY <1>2, <1>4, <1>5 DEF Plugins!ListAfterFailure, Plugins!ListAfterAdd

LEMMA CandidateIs ==
    ASSUME Plugins!PluginAssumption, AddingInv
    PROVE  Plugins!Candidate \in Plugins!IdsOf(call.p) /\ Plugins!Candidate \in Ids
BY DEF AddingInv, Plugins!Candidate, Plugins!IdsOf, Plugins!PluginAssumption

LEMMA CommandAddStep ==
    ASSUME Plugins!PluginAssumption, PluginsInv, Plugins!CommandAdd PROVE PluginsInv'
<1>1. AddingInv /\ call.pc = "adding" /\ UNCHANGED took
  BY Places DEF Plugins!CommandAdd, Plugins!At
<1> DEFINE one == Plugins!Candidate
<1>2. one \in Plugins!IdsOf(call.p) /\ one \in Ids
  BY <1>1, CandidateIs
<1>3. CASE Plugins!InstallCandidate /\ \E c \in {"check", "failed"} : Plugins!Go(c)
  <2>1. PICK c \in {"check", "failed"} : call' = [call EXCEPT !.pc = c]
    BY <1>3 DEF Plugins!Go
  <2>2. /\ live' = [live EXCEPT ![one] = IF @ = "disabled" THEN @ ELSE "enabled"]
        /\ put' \subseteq put \cup {one}
    BY <1>3 DEF Plugins!InstallCandidate
  <2> HIDE DEF one
  <2>3. live' = [i \in Ids |-> live'[i]] /\ live'[one] \in {"enabled", "disabled"}
        /\ \A i \in Ids \ {one} : live'[i] = live[i]
    BY <1>2, <2>2 DEF PluginsInv
  <2>4. \A i \in put : i \in Ids /\ i \in Plugins!IdsOf(call.p) /\ live[i] \in {"enabled", "disabled"}
    BY <1>1 DEF AddingInv, Plugins!Installed, Plugins!PluginAssumption
  <2>5. \A i \in put' : i \in Plugins!IdsOf(call.p) /\ live'[i] \in {"enabled", "disabled"}
    BY <1>2, <2>2, <2>3, <2>4
  <2>6. /\ call'.p = call.p /\ call'.pc = c /\ call'.op = call.op /\ call'.k = call.k /\ call'.tried = call.tried
        /\ call'.seen = call.seen /\ DOMAIN call' = DOMAIN call
    BY <1>1, <2>1 DEF AddingInv, PluginFields
  <2>7. AddingInv'
    BY <1>1, <2>5, <2>6 DEF AddingInv, Plugins!IdsOf, Plugins!Installed, Plugins!Has
  <2> QED
    BY <2>3, <2>7 DEF PluginsInv
<1>4. ASSUME UNCHANGED <<live, put>>, Plugins!Go("failed") PROVE PluginsInv'
  <2>1. AddingInv'
    BY <1>1, <1>4 DEF AddingInv, PluginFields, Plugins!Go, Plugins!IdsOf, Plugins!Installed, Plugins!Has
  <2> QED
    BY <1>4, <2>1 DEF PluginsInv
<1>5. ASSUME UNCHANGED <<live, put>>, call.k < Len(Candidates[call.p]), call' = [call EXCEPT !.k = @ + 1] PROVE PluginsInv'
  <2>1. Candidates[call.p] \in Seq(Ids)
    BY <1>1 DEF AddingInv, Plugins!PluginAssumption
  <2>2. call.k + 1 \in DOMAIN Candidates[call.p]
    BY <1>1, <1>5, <2>1 DEF AddingInv
  <2>3. AddingInv'
    BY <1>1, <1>5, <2>2 DEF AddingInv, PluginFields, Plugins!IdsOf, Plugins!Installed, Plugins!Has
  <2> QED
    BY <1>5, <2>3 DEF PluginsInv
<1> QED
  BY <1>3, <1>4, <1>5 DEF Plugins!CommandAdd, Plugins!Failed

(* A removal goes on. *)
LEMMA RemovalStep ==
    ASSUME Plugins!PluginAssumption, PluginsInv,
           Plugins!ListBeforeRemove \/ Plugins!Resolve \/ Plugins!CheckRemoved \/ Plugins!ListAfterRemove
    PROVE  PluginsInv'
<1>1. TakingInv /\ UNCHANGED <<live, put, took>>
  BY Places DEF Plugins!ListBeforeRemove, Plugins!Resolve, Plugins!CheckRemoved, Plugins!ListAfterRemove,
                Plugins!At, Plugins!codex, Plugins!Quiet
<1>2. ASSUME NEW ok, NEW report, Plugins!End(ok, report) PROVE PluginsInv'
  BY <1>1, <1>2, CallEnds
<1>3. ASSUME NEW c, c \in {"resolve", "failed", "after"}, Plugins!Go(c), c = "resolve" => call.pc = "before" PROVE PluginsInv'
  <2>1. TakingInv'
    BY <1>1, <1>3 DEF TakingInv, PluginFields, Plugins!Go, Plugins!IdsOf
  <2> QED
    BY <1>1, <2>1 DEF PluginsInv
<1>4. CASE Plugins!Resolve
  <2> DEFINE target == IF Plugins!Has(Plugins!Look(call.p)) THEN Plugins!Entry(call.p) ELSE Canonical[call.p]
  <2>1. target \in Plugins!IdsOf(call.p)
    BY <1>1, EntryIs DEF TakingInv, Plugins!PluginAssumption
  <2>2. CASE call' = [call EXCEPT !.pc = "removing", !.target = target]
    <3> HIDE DEF target
    <3>1. TakingInv'
      BY <1>1, <2>1, <2>2 DEF TakingInv, PluginFields, Plugins!IdsOf
    <3> QED
      BY <1>1, <3>1 DEF PluginsInv
  <2> QED
    BY <1>3, <1>4, <2>2 DEF Plugins!Resolve, Plugins!Failed
<1> QED
  BY <1>2, <1>3, <1>4 DEF Plugins!ListBeforeRemove, Plugins!CheckRemoved, Plugins!ListAfterRemove, Plugins!Failed, Plugins!At

LEMMA CommandRemoveStep ==
    ASSUME Plugins!PluginAssumption, PluginsInv, Plugins!CommandRemove PROVE PluginsInv'
<1>1. TakingInv /\ call.pc = "removing" /\ UNCHANGED put
  BY Places DEF Plugins!CommandRemove, Plugins!At
<1>2. PICK c \in {"check_removed", "failed"} : call' = [call EXCEPT !.pc = c]
  BY DEF Plugins!CommandRemove, Plugins!Go, Plugins!Failed
<1>3. TakingInv'
  BY <1>1, <1>2 DEF TakingInv, PluginFields, Plugins!IdsOf
<1>4. live' = live \/ \E v : live' = [live EXCEPT ![call.target] = v]
  BY DEF Plugins!CommandRemove
<1>5. live' = [i \in Ids |-> live'[i]]
  BY <1>4 DEF PluginsInv
<1> QED
  BY <1>3, <1>5 DEF PluginsInv

(* The marketplace and its bootstrap touch no plugin. *)
LEMMA MarketplaceStep ==
    ASSUME Plugins!PluginAssumption, PluginsInv, Plugins!Marketplace PROVE PluginsInv'
<1>1. MarketplaceInv /\ UNCHANGED <<live, put, took>>
  BY Places DEF Plugins!Marketplace, Plugins!ListMarketplaces, Plugins!RebuildMarketplace, Plugins!ClearConflict,
        Plugins!ListCleared, Plugins!RegisterMarketplace, Plugins!ReadMarketplaceBack, Plugins!At, Plugins!Quiet, Plugins!codex
<1>2. ASSUME NEW ok, NEW report, Plugins!End(ok, report) PROVE PluginsInv'
  BY <1>1, <1>2, CallEnds
<1>3. ASSUME MarketplaceInv' PROVE PluginsInv'
  BY <1>1, <1>3 DEF PluginsInv
<1>4. ASSUME NEW c \in {"rebuild", "register", "readback"}, Plugins!Go(c) PROVE PluginsInv'
  <2>1. MarketplaceInv'
    BY <1>1, <1>4 DEF MarketplaceInv, Plugins!Go
  <2> QED
    BY <1>3, <2>1
<1>5. CASE Plugins!ListMarketplaces
  <2> DEFINE listed == shop
             names == Plugins!ConflictNames
             next == IF Plugins!Conflict THEN "clear" ELSE "register"
  <2>1. \A name \in names : name = Plugins!Holy \/ \E m \in listed : m.name = name /\ m.ours
    BY DEF Plugins!ConflictNames
  <2>2. next \in {"clear", "register"}
    OBVIOUS
  <2>3. CASE call' = [call EXCEPT !.listed = listed, !.names = names, !.pc = next]
    <3> HIDE DEF listed, names, next
    <3>1. MarketplaceInv'
      BY <1>1, <2>1, <2>2, <2>3 DEF MarketplaceInv
    <3> QED
      BY <1>3, <3>1
  <2> QED
    BY <1>2, <1>4, <1>5, <2>3 DEF Plugins!ListMarketplaces
<1>6. CASE Plugins!RebuildMarketplace
  <2>1. CASE call' = [call EXCEPT !.pc = "list", !.rebuilt = TRUE]
    <3>1. MarketplaceInv'
      BY <1>1, <2>1 DEF MarketplaceInv
    <3> QED
      BY <1>3, <3>1
  <2> QED
    BY <1>2, <1>6, <2>1 DEF Plugins!RebuildMarketplace
<1>7. CASE Plugins!ClearConflict
  <2>1. ASSUME NEW name, call' = [call EXCEPT !.names = @ \ {name}] PROVE PluginsInv'
    <3>1. MarketplaceInv'
      BY <1>1, <2>1 DEF MarketplaceInv
    <3> QED
      BY <1>3, <3>1
  <2> QED
    BY <1>2, <1>7, <2>1 DEF Plugins!ClearConflict
<1>8. CASE Plugins!ListCleared
  BY <1>2, <1>4, <1>8 DEF Plugins!ListCleared
<1>9. CASE Plugins!RegisterMarketplace
  BY <1>2, <1>4, <1>9 DEF Plugins!RegisterMarketplace
<1>10. CASE Plugins!ReadMarketplaceBack
  BY <1>2, <1>10 DEF Plugins!ReadMarketplaceBack
<1> QED
  BY <1>5, <1>6, <1>7, <1>8, <1>9, <1>10 DEF Plugins!Marketplace

LEMMA BootstrapStep ==
    ASSUME Plugins!PluginAssumption, PluginsInv, Plugins!Bootstrap PROVE PluginsInv'
<1>1. BootstrapInv /\ UNCHANGED <<live, put, took>>
  BY Places DEF Plugins!Bootstrap, Plugins!LookAtSnapshot, Plugins!StartRuntime, Plugins!PollSnapshot, Plugins!CloseRuntime,
        Plugins!ResolveHead, Plugins!InspectReserved, Plugins!Clone, Plugins!VerifyStage, Plugins!Publish, Plugins!ReadPublished,
        Plugins!At, Plugins!Quiet, Plugins!codex
<1>2. ASSUME NEW ok, NEW report, Plugins!End(ok, report) PROVE PluginsInv'
  BY <1>1, <1>2, CallEnds
<1>3. ASSUME NEW c \in {"start", "poll", "head", "clone", "publish", "published"}, Plugins!Go(c) PROVE PluginsInv'
  <2>1. BootstrapInv'
    BY <1>1, <1>3 DEF BootstrapInv, Plugins!Go
  <2> QED
    BY <1>1, <2>1 DEF PluginsInv
<1>4. ASSUME NEW v, \/ call' = [call EXCEPT !.pc = "close", !.done = v]
                    \/ call' = [call EXCEPT !.pc = "reserve", !.head = v]
                    \/ call' = [call EXCEPT !.pc = "verify", !.stage = v]
      PROVE PluginsInv'
  <2>1. BootstrapInv'
    <3>1. CASE call' = [call EXCEPT !.pc = "close", !.done = v]
      BY <1>1, <3>1 DEF BootstrapInv
    <3>2. CASE call' = [call EXCEPT !.pc = "reserve", !.head = v]
      BY <1>1, <3>2 DEF BootstrapInv
    <3>3. CASE call' = [call EXCEPT !.pc = "verify", !.stage = v]
      BY <1>1, <3>3 DEF BootstrapInv
    <3> QED
      BY <1>4, <3>1, <3>2, <3>3
  <2> QED
    BY <1>1, <2>1 DEF PluginsInv
<1> QED
  BY <1>2, <1>3, <1>4 DEF Plugins!Bootstrap, Plugins!LookAtSnapshot, Plugins!StartRuntime, Plugins!PollSnapshot, Plugins!CloseRuntime,
        Plugins!ResolveHead, Plugins!InspectReserved, Plugins!Clone, Plugins!VerifyStage, Plugins!Publish, Plugins!ReadPublished

(* What others do to a plugin is no longer the call's. *)
LEMMA OthersStep ==
    ASSUME Plugins!PluginAssumption, PluginsInv, Plugins!Others PROVE PluginsInv'
<1>1. UNCHANGED call
  BY DEF Plugins!Others, Plugins!Toggle, Plugins!Reregister, Plugins!Populate, Plugins!RemoteMoves
<1>2. CASE UNCHANGED <<live, put, took>>
  BY <1>1, <1>2 DEF PluginsInv, AddingInv, TakingInv, MarketplaceInv, BootstrapInv, Plugins!IdsOf, Plugins!Installed, Plugins!Has
<1>3. ASSUME NEW i \in Ids, Plugins!Toggle(i) PROVE PluginsInv'
  <2>1. PICK state \in Plugins!Listed \ {live[i], "unknown"} :
            /\ live' = [live EXCEPT ![i] = state]
            /\ put' = IF state = "available" THEN put \ {i} ELSE put
            /\ took' = IF state = "available" THEN took ELSE took \ {i}
    BY <1>3 DEF Plugins!Toggle
  <2>2. /\ live' = [j \in Ids |-> live'[j]] /\ live'[i] = state
        /\ \A j \in Ids \ {i} : live'[j] = live[j]
    BY <2>1 DEF PluginsInv
  <2>3. AddingInv => AddingInv'
    <3> SUFFICES ASSUME AddingInv PROVE AddingInv'
      OBVIOUS
    <3>1. \A j \in put : j \in Ids /\ j \in Plugins!IdsOf(call.p) /\ live[j] \in {"enabled", "disabled"}
      BY DEF AddingInv, Plugins!Installed, Plugins!PluginAssumption
    <3>2. \A j \in put' : j \in Plugins!IdsOf(call.p) /\ live'[j] \in {"enabled", "disabled"}
      BY <2>1, <2>2, <3>1 DEF Plugins!Listed
    <3>3. (put = {} => put' = {}) /\ took' = {}
      BY <2>1 DEF AddingInv
    <3> QED
      BY <1>1, <3>2, <3>3 DEF AddingInv, Plugins!IdsOf, Plugins!Installed, Plugins!Has
  <2>4. TakingInv => TakingInv'
    BY <1>1, <2>1 DEF TakingInv, Plugins!IdsOf
  <2>5. (MarketplaceInv => MarketplaceInv') /\ (BootstrapInv => BootstrapInv')
    BY <1>1, <2>1 DEF MarketplaceInv, BootstrapInv
  <2> QED
    BY <1>1, <2>2, <2>3, <2>4, <2>5 DEF PluginsInv
<1> QED
  BY <1>2, <1>3 DEF Plugins!Others, Plugins!Reregister, Plugins!Populate, Plugins!RemoteMoves, Plugins!codex

LEMMA PluginsStay ==
    ASSUME Plugins!PluginAssumption, PluginsInv, [Plugins!Next]_(Plugins!vars) PROVE PluginsInv'
<1>1. CASE UNCHANGED Plugins!vars
  BY <1>1 DEF Plugins!vars, PluginsInv, AddingInv, TakingInv, MarketplaceInv, BootstrapInv, Plugins!IdsOf, Plugins!Installed, Plugins!Has
<1> QED
  BY <1>1, CallBegins, AddingStep, CommandAddStep, RemovalStep, CommandRemoveStep, MarketplaceStep, BootstrapStep, OthersStep
     DEF Plugins!Next, Plugins!Plugins

LEMMA PluginsInvariant ==
    ASSUME Plugins!PluginAssumption
    PROVE  Plugins!Spec => []PluginsInv
<1>1. Plugins!Init => PluginsInv
  BY DEF Plugins!Init, Plugins!PluginAssumption, Plugins!Idle, PluginsInv
<1>2. PluginsInv /\ [Plugins!Next]_(Plugins!vars) => PluginsInv'
  BY PluginsStay
<1> QED
  BY <1>1, <1>2, PTL DEF Plugins!Spec

(* A call that ends does so with what it says. *)
LEMMA EndSays ==
    ASSUME NEW ok, NEW report, Plugins!End(ok, report)
    PROVE  call'.report = report /\ call'.ok = ok /\ call'.pc = "end"
BY DEF Plugins!End, Plugins!Idle

(* What an addition says when it ends. *)
LEMMA AdditionTold ==
    ASSUME Plugins!PluginAssumption, PluginsInv, call.pc # "end",
           Plugins!ListBeforeAdd \/ Plugins!CheckAdded \/ Plugins!ListAfterFailure \/ Plugins!ListAfterAdd
    PROVE  Plugins!Told
<1>1. AddingInv
  BY Places DEF Plugins!ListBeforeAdd, Plugins!CheckAdded, Plugins!ListAfterFailure, Plugins!ListAfterAdd, Plugins!At
<1> DEFINE now == Plugins!Look(call.p)
<1>2. /\ Plugins!Has(now) <=> \E i \in Plugins!IdsOf(call.p) : Plugins!Installed(i)
      /\ Plugins!Has(now) => \E i \in Plugins!IdsOf(call.p) : live[i] = now.state
  BY <1>1, EntryIs DEF AddingInv
<1>3. ~Plugins!Has(now) => put = {}
  BY <1>1, <1>2 DEF AddingInv
<1>4. took = {} /\ call.op \in AddingOps /\ call.tried \in BOOLEAN /\ (~call.tried => put = {})
  BY <1>1 DEF AddingInv
<1> HIDE DEF now
<1>5. ASSUME NEW ok, NEW report \in {"none", "new", "uncertain"}, Plugins!End(ok, report),
             report = "none" => put = {} \/ call.op = "restore",
             report = "new" => ~Plugins!Has(call.seen),
             ok /\ call.op \in {"add", "refresh"} => \E i \in Plugins!IdsOf(call.p) : live[i] = "enabled"
      PROVE  Plugins!Told
  BY <1>4, <1>5, EndSays DEF Plugins!Told
<1>6. ASSUME NEW c, c # "end", call'.pc = c PROVE Plugins!Told
  BY <1>6 DEF Plugins!Told
<1>7. CASE Plugins!ListBeforeAdd
  <2>1. put = {}
    BY <1>1, <1>4, <1>7 DEF AddingInv, Plugins!ListBeforeAdd, Plugins!At
  <2>2. \/ call'.pc \in {"adding", "after"}
        \/ Plugins!End(FALSE, "none")
        \/ Plugins!End(TRUE, "none") /\ call.op = "restore"
    BY <1>1, <1>7 DEF AddingInv, PluginFields, Plugins!ListBeforeAdd, Plugins!Attempt
  <2> QED
    BY <1>5, <1>6, <2>1, <2>2
<1>8. CASE Plugins!CheckAdded
  <2>1. call'.pc \in {"failed", "after"}
    BY <1>1, <1>8 DEF AddingInv, PluginFields, Plugins!CheckAdded, Plugins!Failed, Plugins!Go
  <2> QED
    BY <1>6, <2>1
<1>9. CASE Plugins!ListAfterFailure
  <2>1. call.tried /\ (call.op = "add" => ~Plugins!Has(call.seen))
    BY <1>1, <1>9 DEF AddingInv, Plugins!ListAfterFailure, Plugins!At
  <2>2. PICK report \in {"none", "uncertain"} :
            /\ Plugins!End(FALSE, report)
            /\ report = "none" => call.op = "restore" \/ (call.op # "refresh" /\ call.seen = now)
    BY <1>9 DEF Plugins!ListAfterFailure, Plugins!Same, now
  <2>3. report = "none" => put = {} \/ call.op = "restore"
    BY <1>3, <1>4, <2>1, <2>2 DEF AddingOps
  <2> QED
    BY <1>5, <2>2, <2>3
<1>10. CASE Plugins!ListAfterAdd
  <2> DEFINE done == IF ~call.tried \/ call.op = "restore" THEN "none"
                     ELSE IF call.op = "refresh" THEN "uncertain" ELSE "new"
             unsure == IF done = "none" THEN "none" ELSE "uncertain"
  <2>1. /\ done = "none" => put = {} \/ call.op = "restore"
        /\ done = "new" => ~Plugins!Has(call.seen)
        /\ done \in {"none", "new", "uncertain"}
    BY <1>1, <1>4 DEF AddingInv, AddingOps
  <2>2. CASE Plugins!End(FALSE, unsure)
    BY <1>5, <2>1, <2>2
  <2>3. CASE /\ ~Plugins!Has(now)
             /\ Plugins!End(FALSE, IF call.op = "refresh" \/ ~Plugins!Same(call.seen, now) THEN unsure ELSE "none")
    <3>1. put = {}
      BY <1>3, <2>3
    <3> QED
      BY <1>5, <2>1, <2>3, <3>1
  <2>4. CASE /\ Plugins!Has(now)
             /\ Plugins!End(now.state = IF call.op = "restore" THEN Plugins!Expected ELSE "enabled", done)
    <3>1. call.op \in {"add", "refresh"} /\ now.state = "enabled" => \E i \in Plugins!IdsOf(call.p) : live[i] = "enabled"
      BY <1>2, <2>4
    <3> DEFINE good == now.state = IF call.op = "restore" THEN Plugins!Expected ELSE "enabled"
    <3>2. good /\ call.op \in {"add", "refresh"} => \E i \in Plugins!IdsOf(call.p) : live[i] = "enabled"
      BY <3>1
    <3>3. Plugins!End(good, done)
      BY <2>4
    <3> HIDE DEF good, done
    <3> QED
      BY <1>5, <2>1, <3>2, <3>3
  <2> QED
    BY <1>10, <2>2, <2>3, <2>4 DEF Plugins!ListAfterAdd, now
<1> QED
  BY <1>7, <1>8, <1>9, <1>10

(* What a removal says when it ends. *)
LEMMA RemovalTold ==
    ASSUME Plugins!PluginAssumption, PluginsInv, call.pc # "end",
           Plugins!ListBeforeRemove \/ Plugins!Resolve \/ Plugins!CheckRemoved \/ Plugins!ListAfterRemove
    PROVE  Plugins!Told
<1>1. TakingInv
  BY Places DEF Plugins!ListBeforeRemove, Plugins!Resolve, Plugins!CheckRemoved, Plugins!ListAfterRemove, Plugins!At
<1>2. Plugins!Has(Plugins!Look(call.p)) <=> Plugins!Some(call.p)
  BY <1>1, EntryIs DEF TakingInv, Plugins!Some
<1>3. put = {} /\ call.op = "remove"
  BY <1>1 DEF TakingInv
<1>4. ASSUME NEW ok, NEW report \in {"absent", "removed", "uncertain"}, Plugins!End(ok, report),
             report = "absent" => took = {}, report # "uncertain" => ~Plugins!Some(call.p)
      PROVE  Plugins!Told
  BY <1>3, <1>4, EndSays DEF Plugins!Told
<1>5. ASSUME NEW c, c # "end", call'.pc = c PROVE Plugins!Told
  BY <1>5 DEF Plugins!Told
<1>6. CASE Plugins!ListBeforeRemove
  <2>1. took = {}
    BY <1>1, <1>6 DEF TakingInv, Plugins!ListBeforeRemove, Plugins!At
  <2>2. \/ Plugins!End(FALSE, "uncertain")
        \/ ~Plugins!Has(Plugins!Look(call.p)) /\ Plugins!End(TRUE, "absent")
        \/ call'.pc = "resolve"
    BY <1>1, <1>6 DEF TakingInv, PluginFields, Plugins!ListBeforeRemove, Plugins!Go
  <2> QED
    BY <1>2, <1>4, <1>5, <2>1, <2>2
<1>7. CASE Plugins!Resolve \/ Plugins!CheckRemoved
  <2>1. call'.pc \in {"failed", "removing", "after"}
    BY <1>1, <1>7 DEF TakingInv, PluginFields, Plugins!Resolve, Plugins!CheckRemoved, Plugins!Failed, Plugins!Go
  <2> QED
    BY <1>5, <2>1
<1>8. CASE Plugins!ListAfterRemove
  <2>1. \/ Plugins!End(FALSE, "uncertain")
        \/ ~Plugins!Has(Plugins!Look(call.p)) /\ Plugins!End(Plugins!At("after"), "removed")
    BY <1>8 DEF Plugins!ListAfterRemove, Plugins!Remains
  <2> QED
    BY <1>2, <1>4, <2>1
<1> QED
  BY <1>6, <1>7, <1>8

(* The other calls say nothing of plugins, and have changed none. *)
LEMMA OthersTold ==
    ASSUME Plugins!PluginAssumption, PluginsInv, Plugins!Marketplace \/ Plugins!Bootstrap
    PROVE  Plugins!Told
<1>1. MarketplaceInv \/ BootstrapInv
  BY Places DEF Plugins!Marketplace, Plugins!ListMarketplaces, Plugins!RebuildMarketplace, Plugins!ClearConflict,
        Plugins!ListCleared, Plugins!RegisterMarketplace, Plugins!ReadMarketplaceBack, Plugins!At,
        Plugins!Bootstrap, Plugins!LookAtSnapshot, Plugins!StartRuntime, Plugins!PollSnapshot, Plugins!CloseRuntime,
        Plugins!ResolveHead, Plugins!InspectReserved, Plugins!Clone, Plugins!VerifyStage, Plugins!Publish, Plugins!ReadPublished
<1>2. put = {} /\ took = {} /\ call.op \notin {"add", "refresh"} /\ "pc" \in DOMAIN call
  BY <1>1 DEF MarketplaceInv, BootstrapInv
<1>3. ASSUME NEW ok, Plugins!End(ok, "none") PROVE Plugins!Told
  BY <1>2, <1>3, EndSays DEF Plugins!Told
<1>4. ASSUME NEW c, c # "end", call'.pc = c PROVE Plugins!Told
  BY <1>4 DEF Plugins!Told
<1>5. CASE Plugins!Marketplace
  <2>1. \/ \E ok : Plugins!End(ok, "none")
        \/ call'.pc \in {"rebuild", "clear", "register", "list", "readback"}
    <3>1. CASE Plugins!ListMarketplaces
      BY <1>2, <3>1 DEF Plugins!ListMarketplaces, Plugins!Go
    <3>2. CASE Plugins!RebuildMarketplace
      BY <1>2, <3>2 DEF Plugins!RebuildMarketplace
    <3>3. CASE Plugins!ClearConflict
      BY <1>2, <3>3 DEF Plugins!ClearConflict, Plugins!At
    <3>4. CASE Plugins!ListCleared \/ Plugins!RegisterMarketplace \/ Plugins!ReadMarketplaceBack
      BY <1>2, <3>4 DEF Plugins!ListCleared, Plugins!RegisterMarketplace, Plugins!ReadMarketplaceBack, Plugins!Go
    <3> QED
      BY <1>5, <3>1, <3>2, <3>3, <3>4 DEF Plugins!Marketplace
  <2> QED
    BY <1>3, <1>4, <2>1
<1>6. CASE Plugins!Bootstrap
  <2>1. \/ \E ok : Plugins!End(ok, "none")
        \/ call'.pc \in {"start", "poll", "head", "close", "reserve", "clone", "verify", "publish", "published"}
    BY <1>2, <1>6 DEF Plugins!Bootstrap, Plugins!LookAtSnapshot, Plugins!StartRuntime, Plugins!PollSnapshot,
       Plugins!CloseRuntime, Plugins!ResolveHead, Plugins!InspectReserved, Plugins!Clone, Plugins!VerifyStage,
       Plugins!Publish, Plugins!ReadPublished, Plugins!Go
  <2> QED
    BY <1>3, <1>4, <2>1
<1> QED
  BY <1>5, <1>6

LEMMA StepTold ==
    ASSUME Plugins!PluginAssumption, PluginsInv, [Plugins!Next]_(Plugins!vars) PROVE Plugins!Told
<1> SUFFICES ASSUME call.pc # "end" PROVE Plugins!Told
  BY DEF Plugins!Told
<1>1. CASE UNCHANGED call
  BY <1>1 DEF Plugins!Told
<1>2. CASE Plugins!CommandAdd \/ Plugins!CommandRemove
  <2>1. "pc" \in DOMAIN call
    BY <1>2, Places DEF Plugins!CommandAdd, Plugins!CommandRemove, Plugins!At, AddingInv, TakingInv, PluginFields
  <2>2. call'.pc \in {"adding", "check", "failed", "check_removed"}
    BY <1>2, <2>1 DEF Plugins!CommandAdd, Plugins!CommandRemove, Plugins!Failed, Plugins!Go, Plugins!At
  <2> QED
    BY <2>2 DEF Plugins!Told
<1>3. ~Plugins!Calls
  BY DEF Plugins!Calls, Plugins!Begin, Plugins!BeginMarketplace, Plugins!BeginBootstrap, Plugins!NewCall
<1>4. Plugins!Others => UNCHANGED call
  BY DEF Plugins!Others, Plugins!Toggle, Plugins!Reregister, Plugins!Populate, Plugins!RemoteMoves
<1> QED
  BY <1>1, <1>2, <1>3, <1>4, AdditionTold, RemovalTold, OthersTold DEF Plugins!Next, Plugins!Plugins, Plugins!vars

(* A step of the installer's changes what is its own to change. *)
LEMMA StepSpares ==
    ASSUME Plugins!PluginAssumption, PluginsInv, [Plugins!Next]_(Plugins!vars) PROVE Plugins!LeavesOthers
<1>1. ASSUME UNCHANGED <<live, shop, snap>> PROVE Plugins!LeavesOthers
  BY <1>1 DEF Plugins!LeavesOthers, Plugins!Spared
<1>2. CASE Plugins!CommandAdd
  <2>1. AddingInv
    BY <1>2, Places DEF Plugins!CommandAdd, Plugins!At
  <2>2. Plugins!Candidate \in Plugins!IdsOf(call.p) /\ UNCHANGED <<shop, snap>>
    BY <1>2, <2>1, CandidateIs DEF Plugins!CommandAdd, Plugins!reserved
  <2>3. live' = live \/ \E v : live' = [live EXCEPT ![Plugins!Candidate] = v]
    BY <1>2 DEF Plugins!CommandAdd, Plugins!InstallCandidate
  <2>4. \A i \in Ids : live'[i] # live[i] => i = Plugins!Candidate
    BY <2>3 DEF PluginsInv
  <2> QED
    BY <2>2, <2>4 DEF Plugins!LeavesOthers, Plugins!Spared
<1>3. CASE Plugins!CommandRemove
  <2>1. call.target \in Plugins!IdsOf(call.p) /\ UNCHANGED <<shop, snap>>
    BY <1>3, Places DEF Plugins!CommandRemove, Plugins!At, TakingInv, Plugins!reserved
  <2>2. live' = live \/ \E v : live' = [live EXCEPT ![call.target] = v]
    BY <1>3 DEF Plugins!CommandRemove
  <2>3. \A i \in Ids : live'[i] # live[i] => i = call.target
    BY <2>2 DEF PluginsInv
  <2> QED
    BY <2>1, <2>3 DEF Plugins!LeavesOthers, Plugins!Spared
<1>4. CASE Plugins!RebuildMarketplace \/ Plugins!RegisterMarketplace
  <2>1. UNCHANGED <<live, snap>> /\ \A m \in shop \ shop' : m.name = Plugins!Holy
    BY <1>4 DEF Plugins!RebuildMarketplace, Plugins!RegisterMarketplace, Plugins!Register, Plugins!reserved
  <2> QED
    BY <2>1 DEF Plugins!LeavesOthers, Plugins!Spared
<1>5. CASE Plugins!ClearConflict
  <2>1. MarketplaceInv
    BY <1>5, Places DEF Plugins!ClearConflict, Plugins!At
  <2>2. PICK name \in call.names : shop' = shop \/ shop' = {m \in shop : m.name # name}
    BY <1>5 DEF Plugins!ClearConflict
  <2>3. UNCHANGED <<live, snap>> /\ \A m \in shop \ shop' : m.name = name
    BY <1>5, <2>2 DEF Plugins!ClearConflict, Plugins!reserved
  <2>4. \A m \in shop \ shop' : m.name = Plugins!Holy \/ \E n \in call.listed : n.name = m.name /\ n.ours
    BY <2>1, <2>2, <2>3 DEF MarketplaceInv
  <2> QED
    BY <2>3, <2>4 DEF Plugins!LeavesOthers, Plugins!Spared
<1>6. CASE Plugins!Publish
  <2>1. UNCHANGED <<live, shop>> /\ (snap' # snap => snap \in {"none", "empty"} /\ snap' = "ours")
    BY <1>6 DEF Plugins!Publish, Plugins!Replaceable, Plugins!codex
  <2> QED
    BY <2>1 DEF Plugins!LeavesOthers, Plugins!Spared
<1>7. CASE \/ UNCHANGED Plugins!vars \/ Plugins!Calls
           \/ Plugins!ListBeforeAdd \/ Plugins!CheckAdded \/ Plugins!ListAfterFailure \/ Plugins!ListAfterAdd
           \/ Plugins!ListBeforeRemove \/ Plugins!Resolve \/ Plugins!CheckRemoved \/ Plugins!ListAfterRemove
  <2>1. UNCHANGED <<live, shop, snap>>
    BY <1>7 DEF Plugins!vars, Plugins!Calls, Plugins!Begin, Plugins!BeginMarketplace, Plugins!BeginBootstrap,
       Plugins!ListBeforeAdd, Plugins!CheckAdded, Plugins!ListAfterFailure, Plugins!ListAfterAdd,
       Plugins!ListBeforeRemove, Plugins!Resolve, Plugins!CheckRemoved, Plugins!ListAfterRemove,
       Plugins!codex, Plugins!reserved
  <2> QED
    BY <1>1, <2>1
<1>8. CASE \/ Plugins!ListMarketplaces \/ Plugins!ListCleared \/ Plugins!ReadMarketplaceBack
           \/ Plugins!LookAtSnapshot \/ Plugins!StartRuntime \/ Plugins!PollSnapshot \/ Plugins!CloseRuntime
           \/ Plugins!ResolveHead \/ Plugins!InspectReserved \/ Plugins!Clone \/ Plugins!VerifyStage
           \/ Plugins!ReadPublished
  <2>1. UNCHANGED <<live, shop, snap>>
    BY <1>8 DEF Plugins!ListMarketplaces, Plugins!ListCleared, Plugins!ReadMarketplaceBack,
       Plugins!LookAtSnapshot, Plugins!StartRuntime, Plugins!PollSnapshot, Plugins!CloseRuntime,
       Plugins!ResolveHead, Plugins!InspectReserved, Plugins!Clone, Plugins!VerifyStage,
       Plugins!ReadPublished, Plugins!codex, Plugins!reserved
  <2> QED
    BY <1>1, <2>1
<1>9. CASE Plugins!Others
  BY <1>9 DEF Plugins!LeavesOthers
<1> QED
  BY <1>2, <1>3, <1>4, <1>5, <1>6, <1>7, <1>8, <1>9
     DEF Plugins!Next, Plugins!Plugins, Plugins!Marketplace, Plugins!Bootstrap

(* Whatever a call has added or removed, it says so when it ends. *)
THEOREM CallsReported ==
    ASSUME Plugins!PluginAssumption
    PROVE  Plugins!Spec => Plugins!EffectsReported
<1>1. PluginsInv /\ [Plugins!Next]_(Plugins!vars) => [Plugins!Told]_(Plugins!vars)
  BY StepTold
<1> QED
  BY <1>1, PluginsInvariant, PTL DEF Plugins!Spec, Plugins!EffectsReported

(* What others have of plugins, marketplaces and directories stays theirs. *)
THEOREM CallsSpare ==
    ASSUME Plugins!PluginAssumption
    PROVE  Plugins!Spec => Plugins!OthersSpared
<1>1. PluginsInv /\ [Plugins!Next]_(Plugins!vars) => [Plugins!LeavesOthers]_(Plugins!vars)
  BY StepSpares
<1> QED
  BY <1>1, PluginsInvariant, PTL DEF Plugins!Spec, Plugins!OthersSpared

-----------------------------------------------------------------------------
(***************************************************************************)
(* The parts together: a behaviour of one part is one of its component.    *)
(***************************************************************************)
LEMMA PartStays ==
    ASSUME [Next]_vars
    PROVE  part' = part
BY DEF Next, vars

LEMMA BindingsAlone ==
    ASSUME part = "bindings"
    PROVE  /\ Init => Bindings!Init
           /\ [Next]_vars => [Bindings!Next]_(Bindings!vars)
BY DEF Init, Next, vars, OfBindings, Bindings!vars

LEMMA ResetAlone ==
    ASSUME part = "reset"
    PROVE  /\ Init => Reset!Init
           /\ [Next]_vars => [Reset!Next]_(Reset!vars)
BY DEF Init, Next, vars, OfReset, Reset!vars, Reset!account

LEMMA ToolsAlone ==
    ASSUME part = "tools"
    PROVE  /\ Init => Tools!Init
           /\ [Next]_vars => [Tools!Next]_(Tools!vars)
BY DEF Init, Next, vars, OfTools, Tools!vars, Tools!world

LEMMA ChoiceAlone ==
    ASSUME part = "choice"
    PROVE  /\ Init => Choice!Init
           /\ [Next]_vars => [Choice!Next]_(Choice!vars)
BY DEF Init, Next, vars, OfChoice, Choice!vars

LEMMA ReviewAlone ==
    ASSUME part = "review"
    PROVE  /\ Init => Review!Init
           /\ [Next]_vars => [Review!Next]_(Review!vars)
BY DEF Init, Next, vars, OfReview, Review!vars

LEMMA PluginsAlone ==
    ASSUME part = "plugins"
    PROVE  /\ Init => Plugins!Init
           /\ [Next]_vars => [Plugins!Next]_(Plugins!vars)
BY DEF Init, Next, vars, OfPlugins, Plugins!vars

(* What Parts says of the bindings. *)
THEOREM WholeTrees == Spec => []WholeTreeReturned
<1>1. part = "bindings" /\ Init => Bindings!Init
  BY BindingsAlone
<1>2. part = "bindings" /\ [Next]_vars => (part = "bindings")' /\ [Bindings!Next]_(Bindings!vars)
  BY BindingsAlone, PartStays
<1>3. ~(part = "bindings") /\ [Next]_vars => (~(part = "bindings"))'
  BY PartStays
<1>4. Bindings!Spec => []Bindings!WholeTreeReturned
  BY PartsAssumption, UndisturbedTree
<1> QED
  BY <1>1, <1>2, <1>3, <1>4, PTL DEF Spec, Bindings!Spec, WholeTreeReturned

(* What Parts says of ctx7: every one HolyCodex has installed is told. *)
THEOREM ToolsRecorded == Spec => []ToolsTold
<1>1. part = "tools" /\ Init => Tools!Init
  BY ToolsAlone
<1>2. part = "tools" /\ [Next]_vars => (part = "tools")' /\ [Tools!Next]_(Tools!vars)
  BY ToolsAlone, PartStays
<1>3. ~(part = "tools") /\ [Next]_vars => (~(part = "tools"))'
  BY PartStays
<1>4. Tools!Spec => []Tools!ToolsTold
  BY PartsAssumption, ToolsAreTold
<1> QED
  BY <1>1, <1>2, <1>3, <1>4, PTL DEF Spec, Tools!Spec, ToolsTold

(* What Parts says of ctx7: none of the user's is touched. *)
THEOREM ToolsSpared == Spec => UserToolsStay
<1>1. part = "tools" /\ Init => Tools!Init
  BY ToolsAlone
<1>2. part = "tools" /\ [Next]_vars => (part = "tools")' /\ [Tools!Next]_(Tools!vars)
  BY ToolsAlone, PartStays
<1>3. ~(part = "tools") /\ [Next]_vars => (~(part = "tools"))'
  BY PartStays
<1>4. Tools!Spec => [][Tools!Spares]_(Tools!vars)
  BY PartsAssumption, UserToolsSpared DEF Tools!UserToolsStay
<1>5. part = "tools" /\ [Next]_vars /\ [Tools!Spares]_(Tools!vars) => [part = "tools" => Tools!Spares]_vars
  <2>1. UNCHANGED Tools!vars => Tools!Spares
    BY DEF Tools!vars, Tools!world, Tools!Spares, Tools!SparesUser
  <2> QED
    BY <2>1
<1>6. ~(part = "tools") => [part = "tools" => Tools!Spares]_vars
  OBVIOUS
<1> QED
  BY <1>1, <1>2, <1>3, <1>4, <1>5, <1>6, PTL DEF Spec, Tools!Spec, UserToolsStay

(* The same module twice: as Parts has it, and as its own theorems do.     *)
Released == INSTANCE ReleaseProofs WITH Limits <- ReleaseLimits
Stored == INSTANCE WorkStateRecordsProofs WITH None <- Nothing

LEMMA ReleaseAlone ==
    ASSUME part = "publishing"
    PROVE  /\ Init => Released!Init
           /\ [Next]_vars => [Released!Next]_(Released!vars)
<1>1. Init => Released!Init
  BY DEF Init, Publishing!Init, Released!Init
<1>2. [Next]_vars => [Publishing!Next]_(Publishing!vars)
  BY DEF Next, vars, OfPublishing, Publishing!vars
<1>3. Publishing!Next => Released!Next
  BY DEF Publishing!At, Publishing!Begin, Publishing!Cancel, Publishing!CheckGitHub,
       Publishing!CheckNpm, Publishing!CreateRelease, Publishing!DeleteDraft,
       Publishing!Downloads, Publishing!Fails, Publishing!Goes, Publishing!Identity,
       Publishing!Job, Publishing!JobOf, Publishing!Lawful, Publishing!MatchesGitHub,
       Publishing!MatchesNpm, Publishing!MatchesStamp, Publishing!MayRelease,
       Publishing!MoveTag, Publishing!Next, Publishing!Notes, Publishing!OnGitHub,
       Publishing!OnNpm, Publishing!Package, Publishing!Packed, Publishing!PaysFor,
       Publishing!Prepare, Publishing!Prerelease, Publishing!PublishNpm,
       Publishing!PublishRelease, Publishing!Published, Publishing!ReRun, Publishing!Running,
       Publishing!Spend, Publishing!Trigger, Publishing!Validate, Publishing!Verified,
       Publishing!VersionOf, Publishing!vars, Released!At, Released!Begin, Released!Cancel,
       Released!CheckGitHub, Released!CheckNpm, Released!CreateRelease, Released!DeleteDraft,
       Released!Downloads, Released!Fails, Released!Goes, Released!Identity, Released!Job,
       Released!JobOf, Released!Lawful, Released!MatchesGitHub, Released!MatchesNpm,
       Released!MatchesStamp, Released!MayRelease, Released!MoveTag, Released!Next,
       Released!Notes, Released!OnGitHub, Released!OnNpm, Released!Package, Released!Packed,
       Released!PaysFor, Released!Prepare, Released!Prerelease, Released!PublishNpm,
       Released!PublishRelease, Released!Published, Released!ReRun, Released!Running,
       Released!Spend, Released!Trigger, Released!Validate, Released!Verified,
       Released!VersionOf, Released!vars
<1>4. UNCHANGED Publishing!vars => UNCHANGED Released!vars
  BY DEF Publishing!vars, Released!vars
<1> QED
  BY <1>1, <1>2, <1>3, <1>4

LEMMA RecordsAssumed == Stored!WorkStateRecordsAssumption
BY PartsAssumption DEF Records!WorkStateRecordsAssumption, Stored!WorkStateRecordsAssumption

LEMMA RecordsAlone ==
    ASSUME part = "records"
    PROVE  /\ Init => Stored!Init
           /\ [Next]_vars => [Stored!Next]_(Stored!vars)
<1>1. Init => Stored!Init
  BY DEF Init, Records!Init, Stored!Init, Records!Idle, Stored!Idle, Records!Directories,
         Stored!Directories, Records!Places, Stored!Places, Records!Root, Stored!Root
<1>2. [Next]_vars => [Records!Next]_(Records!vars)
  BY DEF Next, vars, OfRecords, Records!vars, Records!files
<1>3. Records!Next => Stored!Next
  BY DEF Records!Begin, Records!Die, Records!Directories, Records!End, Records!Enter,
       Records!EnterRoot, Records!Fault, Records!FillArchive, Records!Finish, Records!Free,
       Records!Go, Records!Idle, Records!Keep, Records!Leave, Records!Legacy, Records!Locate,
       Records!Max, Records!Migrate, Records!Migrated, Records!NamePlan, Records!NewDirectory,
       Records!NewPlan, Records!Next, Records!NextIndex, Records!NoArchive, Records!OpenArchive,
       Records!OpenTemp, Records!Place, Records!Places, Records!Point, Records!Read,
       Records!Recovered, Records!Rename, Records!RenameFails, Records!Reread, Records!Revised,
       Records!Root, Records!Step, Records!Sweep, Records!Taken, Records!WriteFails,
       Records!WritePlan, Records!Writing, Records!files, Records!vars, Stored!Begin,
       Stored!Die, Stored!Directories, Stored!End, Stored!Enter, Stored!EnterRoot, Stored!Fault,
       Stored!FillArchive, Stored!Finish, Stored!Free, Stored!Go, Stored!Idle, Stored!Keep,
       Stored!Leave, Stored!Legacy, Stored!Locate, Stored!Max, Stored!Migrate, Stored!Migrated,
       Stored!NamePlan, Stored!NewDirectory, Stored!NewPlan, Stored!Next, Stored!NextIndex,
       Stored!NoArchive, Stored!OpenArchive, Stored!OpenTemp, Stored!Place, Stored!Places,
       Stored!Point, Stored!Read, Stored!Recovered, Stored!Rename, Stored!RenameFails,
       Stored!Reread, Stored!Revised, Stored!Root, Stored!Step, Stored!Sweep, Stored!Taken,
       Stored!WriteFails, Stored!WritePlan, Stored!Writing, Stored!files, Stored!vars
<1>4. UNCHANGED Records!vars => UNCHANGED Stored!vars
  BY DEF Records!vars, Stored!vars, Records!files, Stored!files
<1> QED
  BY <1>1, <1>2, <1>3, <1>4

(* What Parts says of the workflow of a release. The same bytes on npm and *)
(* on GitHub, under each version.                                          *)
THEOREM Artifacts == Spec => []OneArtifactPerVersion
<1>1. part = "publishing" /\ Init => Released!Init
  BY ReleaseAlone
<1>2. part = "publishing" /\ [Next]_vars => (part = "publishing")' /\ [Released!Next]_(Released!vars)
  BY ReleaseAlone, PartStays
<1>3. ~(part = "publishing") /\ [Next]_vars => (~(part = "publishing"))'
  BY PartStays
<1>4. Released!Spec => []Released!OneArtifactPerVersion
  BY Released!ReleaseIsPackage
<1>5. Released!OneArtifactPerVersion => Publishing!OneArtifactPerVersion
  BY DEF Released!OneArtifactPerVersion, Publishing!OneArtifactPerVersion
<1> QED
  BY <1>1, <1>2, <1>3, <1>4, <1>5, PTL DEF Spec, Released!Spec, OneArtifactPerVersion

(* What Parts says of Plans: each is kept, as plan.toon or archived.      *)
THEOREM PlansStand == Spec => []PlansKept
<1>1. part = "records" /\ Init => Stored!Init
  BY RecordsAlone
<1>2. part = "records" /\ [Next]_vars => (part = "records")' /\ [Stored!Next]_(Stored!vars)
  BY RecordsAlone, PartStays
<1>3. ~(part = "records") /\ [Next]_vars => (~(part = "records"))'
  BY PartStays
<1>4. Stored!Spec => []Stored!PlansKept
  BY RecordsAssumed, Stored!PlansStay
<1>5. Stored!PlansKept => Records!PlansKept
  BY DEF Stored!PlansKept, Records!PlansKept, Stored!Archived, Records!Archived, Stored!Directories, Records!Directories
<1> QED
  BY <1>1, <1>2, <1>3, <1>4, <1>5, PTL DEF Spec, Stored!Spec, PlansKept

(* What Parts says of the temporary files of writes under a lock. *)
THEOREM WritesUnderLocks == Spec => []LockedWritesStand
<1>1. part = "records" /\ Init => Stored!Init
  BY RecordsAlone
<1>2. part = "records" /\ [Next]_vars => (part = "records")' /\ [Stored!Next]_(Stored!vars)
  BY RecordsAlone, PartStays
<1>3. ~(part = "records") /\ [Next]_vars => (~(part = "records"))'
  BY PartStays
<1>4. Stored!Spec => []Stored!LockedWritesStand
  BY RecordsAssumed, Stored!LockedWrites
<1>5. Stored!LockedWritesStand => Records!LockedWritesStand
  BY DEF Stored!LockedWritesStand, Records!LockedWritesStand, Stored!Place, Records!Place, Stored!Root, Records!Root
<1> QED
  BY <1>1, <1>2, <1>3, <1>4, <1>5, PTL DEF Spec, Stored!Spec, LockedWritesStand

(* What Parts says of the revisions of Intents: only a migration without   *)
(* the lock replaces a record by one that is not based on it.              *)
THEOREM OnlyMigrationLoses == Spec => LostOnlyToMigration
<1>1. part = "records" /\ Init => Stored!Init
  BY RecordsAlone
<1>2. part = "records" /\ [Next]_vars => (part = "records")' /\ [Stored!Next]_(Stored!vars)
  BY RecordsAlone, PartStays
<1>3. ~(part = "records") /\ [Next]_vars => (~(part = "records"))'
  BY PartStays
<1>4. Stored!Spec => [][Stored!Supersedes]_(Stored!vars)
  BY RecordsAssumed, Stored!LostToMigration DEF Stored!LostOnlyToMigration
<1>5. part = "records" /\ [Next]_vars /\ [Stored!Supersedes]_(Stored!vars)
        => [part = "records" => Records!Supersedes]_vars
  <2>1. UNCHANGED Stored!vars => Stored!Supersedes
    BY DEF Stored!vars, Stored!files, Stored!Supersedes
  <2>2. Stored!Supersedes => Records!Supersedes
    BY DEF Stored!Supersedes, Records!Supersedes, Stored!UnlockedMigration, Records!UnlockedMigration,
           Stored!Directories, Records!Directories, Stored!Legacy, Records!Legacy
  <2> QED
    BY <2>1, <2>2
<1>6. ~(part = "records") => [part = "records" => Records!Supersedes]_vars
  OBVIOUS
<1> QED
  BY <1>1, <1>2, <1>3, <1>4, <1>5, <1>6, PTL DEF Spec, Stored!Spec, LostOnlyToMigration

(* What Parts says of banked resets, with one Root. *)
THEOREM ResetsWarranted ==
    ASSUME OneRoot
    PROVE  Spec => SpentOnlyWhenLow
<1>1. part = "reset" /\ Init => Reset!Init
  BY ResetAlone
<1>2. part = "reset" /\ [Next]_vars => (part = "reset")' /\ [Reset!Next]_(Reset!vars)
  BY ResetAlone, PartStays
<1>3. ~(part = "reset") /\ [Next]_vars => (~(part = "reset"))'
  BY PartStays
<1>4. Reset!Spec => [][Reset!Spends]_(Reset!vars)
  BY PartsAssumption, ResetWarranted DEF Reset!SpentOnlyWhenLow
<1>5. part = "reset" /\ [Next]_vars /\ [Reset!Spends]_(Reset!vars) => [part = "reset" => Reset!Spends]_vars
  <2>1. UNCHANGED Reset!vars => Reset!Spends
    BY DEF Reset!vars, Reset!account, Reset!Spends
  <2> QED
    BY <2>1
<1>6. ~(part = "reset") => [part = "reset" => Reset!Spends]_vars
  OBVIOUS
<1> QED
  BY <1>1, <1>2, <1>3, <1>4, <1>5, <1>6, PTL DEF Spec, Reset!Spec, SpentOnlyWhenLow

(* What Parts says of an install's choices: what was asked is done. *)
THEOREM SelectionsMade == Spec => []ChoicesFollowed
<1>1. part = "choice" /\ Init => Choice!Init
  BY ChoiceAlone
<1>2. part = "choice" /\ [Next]_vars => (part = "choice")' /\ [Choice!Next]_(Choice!vars)
  BY ChoiceAlone, PartStays
<1>3. ~(part = "choice") /\ [Next]_vars => (~(part = "choice"))'
  BY PartStays
<1>4. Choice!Spec => []Choice!ChoicesFollowed
  BY PartsAssumption, SelectionsFollowed
<1> QED
  BY <1>1, <1>2, <1>3, <1>4, PTL DEF Spec, Choice!Spec, ChoicesFollowed

(* What Parts says of install.toml: it says what the active record says. *)
THEOREM OptionsAgreed == Spec => []OptionsMatchRecord
<1>1. part = "choice" /\ Init => Choice!Init
  BY ChoiceAlone
<1>2. part = "choice" /\ [Next]_vars => (part = "choice")' /\ [Choice!Next]_(Choice!vars)
  BY ChoiceAlone, PartStays
<1>3. ~(part = "choice") /\ [Next]_vars => (~(part = "choice"))'
  BY PartStays
<1>4. Choice!Spec => []Choice!OptionsMatchRecord
  BY PartsAssumption, OptionsAgree
<1> QED
  BY <1>1, <1>2, <1>3, <1>4, PTL DEF Spec, Choice!Spec, OptionsMatchRecord

(* What Parts says of config.toml when an install has not gone through.    *)
THEOREM TextsAsFound == Spec => []EndsAsFound
<1>1. part = "review" /\ Init => Review!Init
  BY ReviewAlone
<1>2. part = "review" /\ [Next]_vars => (part = "review")' /\ [Review!Next]_(Review!vars)
  BY ReviewAlone, PartStays
<1>3. ~(part = "review") /\ [Next]_vars => (~(part = "review"))'
  BY PartStays
<1>4. Review!Spec => []Review!EndsAsFound
  BY PartsAssumption, EndsAsLeft
<1> QED
  BY <1>1, <1>2, <1>3, <1>4, PTL DEF Spec, Review!Spec, EndsAsFound

(* What Parts says of the user's values: they go by a decision on them.    *)
THEOREM ReviewedReplaced == Spec => OnlyReviewedReplaced
<1>1. part = "review" /\ Init => Review!Init
  BY ReviewAlone
<1>2. part = "review" /\ [Next]_vars => (part = "review")' /\ [Review!Next]_(Review!vars)
  BY ReviewAlone, PartStays
<1>3. ~(part = "review") /\ [Next]_vars => (~(part = "review"))'
  BY PartStays
<1>4. Review!Spec => [][Review!Reviewed]_(Review!vars)
  BY PartsAssumption, ReplacesReviewed DEF Review!OnlyReviewedReplaced
<1>5. part = "review" /\ [Next]_vars /\ [Review!Reviewed]_(Review!vars) => [part = "review" => Review!Reviewed]_vars
  <2>1. UNCHANGED Review!vars => Review!Reviewed
    BY DEF Review!vars, Review!Reviewed, Review!ReviewedItem
  <2> QED
    BY <2>1
<1>6. ~(part = "review") => [part = "review" => Review!Reviewed]_vars
  OBVIOUS
<1> QED
  BY <1>1, <1>2, <1>3, <1>4, <1>5, <1>6, PTL DEF Spec, Review!Spec, OnlyReviewedReplaced

(* What Parts says of the calls that change Codex's plugins.               *)
THEOREM PluginsReported == Spec => EffectsReported
<1>1. part = "plugins" /\ Init => Plugins!Init
  BY PluginsAlone
<1>2. part = "plugins" /\ [Next]_vars => (part = "plugins")' /\ [Plugins!Next]_(Plugins!vars)
  BY PluginsAlone, PartStays
<1>3. ~(part = "plugins") /\ [Next]_vars => (~(part = "plugins"))'
  BY PartStays
<1>4. Plugins!Spec => [][Plugins!Told]_(Plugins!vars)
  BY PartsAssumption, CallsReported DEF Plugins!EffectsReported
<1>5. part = "plugins" /\ [Next]_vars /\ [Plugins!Told]_(Plugins!vars) => [part = "plugins" => Plugins!Told]_vars
  <2>1. UNCHANGED Plugins!vars => Plugins!Told
    BY DEF Plugins!vars, Plugins!Told
  <2> QED
    BY <2>1
<1>6. ~(part = "plugins") => [part = "plugins" => Plugins!Told]_vars
  OBVIOUS
<1> QED
  BY <1>1, <1>2, <1>3, <1>4, <1>5, <1>6, PTL DEF Spec, Plugins!Spec, EffectsReported

(* What Parts says of the plugins, marketplaces and directories of others. *)
THEOREM PluginsSpared == Spec => OthersSpared
<1>1. part = "plugins" /\ Init => Plugins!Init
  BY PluginsAlone
<1>2. part = "plugins" /\ [Next]_vars => (part = "plugins")' /\ [Plugins!Next]_(Plugins!vars)
  BY PluginsAlone, PartStays
<1>3. ~(part = "plugins") /\ [Next]_vars => (~(part = "plugins"))'
  BY PartStays
<1>4. Plugins!Spec => [][Plugins!LeavesOthers]_(Plugins!vars)
  BY PartsAssumption, CallsSpare DEF Plugins!OthersSpared
<1>5. part = "plugins" /\ [Next]_vars /\ [Plugins!LeavesOthers]_(Plugins!vars)
      => [part = "plugins" => Plugins!LeavesOthers]_vars
  <2>1. UNCHANGED Plugins!vars => Plugins!LeavesOthers
    BY DEF Plugins!vars, Plugins!LeavesOthers, Plugins!Spared
  <2> QED
    BY <2>1
<1>6. ~(part = "plugins") => [part = "plugins" => Plugins!LeavesOthers]_vars
  OBVIOUS
<1> QED
  BY <1>1, <1>2, <1>3, <1>4, <1>5, <1>6, PTL DEF Spec, Plugins!Spec, OthersSpared
=============================================================================
