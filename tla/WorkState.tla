------------------------------ MODULE WorkState ------------------------------
(***************************************************************************)
(* The lifecycle of one Intent and its Assignments: the operations of       *)
(* IntentStore in packages/core/src/work-state.ts, next to a repository     *)
(* that anyone may edit or commit to at any time.                           *)
(*                                                                         *)
(* An operation runs under the directory lock and its writes are atomic     *)
(* (WorkStateLock, WorkStateJournal), so here it is one step.  A call that  *)
(* is refused changes nothing and is not a step.  The revision a caller     *)
(* passes is assumed to be current: a stale one is such a refusal.          *)
(***************************************************************************)
EXTENDS Integers, Sequences

CONSTANTS
    Paths,        \* repository paths
    Contents,     \* what a path may hold
    Absent,       \* ... and that it does not exist
    Authority,    \* path -> the paths a scope holding it may be expanded with
    Assignments,  \* Assignment ids
    Operations,   \* those owned by Worker.operations
    Nobody,       \* no Assignment
    None,         \* an optional field that is undefined
    Needs,        \* the sets of gates a new Intent may require
    Suspensions,  \* the targets callers suspend an Intent with
    Questions,    \* the Plans callers write: with open questions or settled
    Results,      \* the verdicts callers record
    Declarations, \* what Root declares together of acceptance and readiness
    Items,        \* what Root records as evidence: none, some, or a successful check
    Reports,      \* what callers add to a result: evidence of it, a blocker
    MaxCommits,   \* bound: commits made in the repository
    MaxEdits,     \* bound: edits of a path
    MaxStarts     \* bound: invocations of each Assignment

ASSUME WorkStateAssumption ==
    /\ Absent \in Contents
    /\ Authority \in [Paths -> SUBSET Paths]
    /\ Operations \subseteq Assignments
    /\ Nobody \notin Assignments
    /\ Needs \subseteq SUBSET {"verification", "review"}
    /\ Suspensions \subseteq {"blocked", "needs_root_input"}
    /\ Questions \subseteq {"open", "settled"}
    /\ Results \subseteq {"passed", "failed", "accepted", "rejected"}
    /\ None \notin {"passed", "failed", "accepted", "rejected"}
    /\ None \notin {"scoping", "ready", "executing", "verifying", "reviewing"}
    /\ Declarations \subseteq SUBSET {"acceptance_met", "root_readiness"}
    /\ Items \subseteq {"none", "plain", "meaningful"}
    /\ Reports \subseteq SUBSET {"evidence", "blocker"}
    /\ None \notin {"completed", "blocked", "needs_root_input", "failed"}
    /\ {MaxCommits, MaxEdits, MaxStarts} \subseteq Nat

VARIABLES
    intent,       \* the record intent.toon
    assignments,  \* Assignment id -> the record assignments/{id}.toon
    head,         \* the commit HEAD names; commit n + 1 has the parent n
    trees,        \* commit -> the contents of its tree
    text,         \* the contents of the worktree
    edits,        \* edits so far (bounded by MaxEdits)
    proof         \* history: the commit and contents each gate was granted on

repo == <<head, trees, text, edits>>
vars == <<intent, assignments, repo, proof>>

Suspended == {"blocked", "needs_root_input"}
Terminal == {"complete", "abandoned"}
Running == {"scoping", "ready", "executing", "verifying", "reviewing"}
Gates == {"verification", "review"}
Tree == [Paths -> Contents]
NoCommit == -1
Unstarted == 0

(***************************************************************************)
(* What a snapshot of the repository sees: HEAD, and for every path the     *)
(* letter of git status, not its contents.                                  *)
(***************************************************************************)
Letters == {"clean", "added", "removed", "modified"}

Letter(now, then) ==
    IF now = then THEN "clean"
    ELSE IF then = Absent THEN "added"
    ELSE IF now = Absent THEN "removed" ELSE "modified"

Status == [p \in Paths |-> Letter(text[p], trees[head][p])]

Changed(status) == {p \in Paths : status[p] # "clean"}

Baselines ==
    [head : 0..MaxCommits, status : [Paths -> Letters],
     integrated : (0..MaxCommits) \cup {NoCommit}]

(* baselineFromSnapshot *)
Baseline(integrated) == [head |-> head, status |-> Status, integrated |-> integrated]

(* #assertNoDrift.  A changed path inside the scope is let through, and     *)
(* with it any difference between the letters of the paths that changed.    *)
NoDrift(scope) ==
    LET allowed == Changed(Status) \cap scope
    IN  /\ head = intent.baseline.head
        /\ Changed(intent.baseline.status) \cup allowed = Changed(Status)
        /\ Status = intent.baseline.status \/ allowed # {}

(***************************************************************************)
(* Records.                                                                *)
(***************************************************************************)
(* The status of a gate nothing has been recorded for. *)
Cleared(needs, gate) == IF gate \in needs THEN "missing" ELSE "not_required"

(* resetGate on both gates, and what Root has declared is withdrawn. *)
Withdraw(i) ==
    [i EXCEPT !.verification = Cleared(i.needs, "verification"),
              !.review = Cleared(i.needs, "review"),
              !.declared = {}]

Passed(i) == "verification" \in i.needs => i.verification = "passed"
Accepted(i) == "review" \in i.needs => i.review = "accepted"
Granted(i, gate) ==
    IF gate = "verification" THEN i.verification = "passed" ELSE i.review = "accepted"

(* Mutant: an abandoned Intent can still be written. *)
MutableUnlessComplete == intent.state # "complete"

(* assertIntentMutable *)
Mutable == intent.state \notin Terminal

Finished == {"completed", "superseded"}
Outcomes == {"completed", "blocked", "needs_root_input", "failed"}
Statuses == Outcomes \cup {"absent", "pending", "executing", "superseded"}
Existing == {a \in Assignments : assignments[a].status # "absent"}
Superseded == {a \in Assignments : assignments[a].status = "superseded"}

(* expandAssignmentScope *)
Expansions(scope) ==
    {s \in SUBSET Paths :
        scope \subseteq s /\ \A p \in s \ scope : \E q \in scope : p \in Authority[q]}

Scopes == (SUBSET Paths) \ {{}}

(* Of the results in the log only the last is told in full: its outcome,    *)
(* and whether it brought evidence.                                        *)
Assignment(status, scope) ==
    [status |-> status, scope |-> scope, by |-> Nobody, of |-> Nobody, reason |-> Nobody,
     active |-> Unstarted, issued |-> 0, log |-> <<>>, outcome |-> None, evidence |-> FALSE,
     blocker |-> FALSE]

(* createIntent: gates required or not, the repository as it then is. *)
Init ==
    /\ head = 0
    /\ trees \in [{0} -> Tree]
    /\ text \in Tree
    /\ edits = 0
    /\ \E needs \in Needs :
         intent = [state |-> "scoping", resume |-> None, blockers |-> FALSE, plan |-> None,
                   needs |-> needs, noted |-> FALSE, proven |-> FALSE, reviewed |-> FALSE,
                   verification |-> Cleared(needs, "verification"),
                   review |-> Cleared(needs, "review"),
                   declared |-> {},
                   baseline |-> Baseline(NoCommit)]
    /\ assignments = [a \in Assignments |-> Assignment("absent", {})]
    /\ proof = [g \in Gates |-> None]

(* The gates in "granted" have just been granted on this repository; what   *)
(* was granted before stays only while the record says so.                  *)
Witness(granted) ==
    proof' = [g \in Gates |->
                IF g \in granted THEN [head |-> head, text |-> text]
                ELSE IF Granted(intent', g) THEN proof[g] ELSE None]

(* An operation that writes the Intent, and the Assignments named. *)
Write(i, records) ==
    /\ intent' = i
    /\ assignments' = records
    /\ UNCHANGED repo

WriteIntent(i) == Write(i, assignments) /\ Witness({})

(***************************************************************************)
(* transitionIntent, abandonIntent.                                        *)
(***************************************************************************)
(* Mutant: a suspended Intent may be suspended again. *)
BlockAgain(target) ==
    /\ intent.state \notin Terminal
    /\ WriteIntent([intent EXCEPT !.state = target, !.blockers = TRUE,
                                  !.resume = intent.state])

Block(target) ==
    /\ intent.state \notin Terminal \cup Suspended
    /\ WriteIntent([intent EXCEPT !.state = target, !.blockers = TRUE,
                                  !.resume = intent.state])

Successors ==
    [scoping |-> {"ready"}, ready |-> {"executing"}, executing |-> {"verifying"},
     verifying |-> {"reviewing", "executing"}, reviewing |-> {"executing"}]

(* A suspended Intent may go on where it was once its blockers are cleared. *)
Follows(target) ==
    IF intent.state \in Suspended
      THEN target = intent.resume /\ ~intent.blockers
      ELSE intent.state \in DOMAIN Successors /\ target \in Successors[intent.state]

Admitted(target) ==
    CASE target = "ready" -> intent.plan # "open"
      [] target = "executing" -> intent.state = "ready" => NoDrift({})
      [] target = "reviewing" -> Passed(intent) /\ NoDrift({})
      [] OTHER -> TRUE

Transition(target) ==
    /\ Follows(target)
    /\ Admitted(target)
    /\ WriteIntent([intent EXCEPT !.state = target, !.resume = None])

(* Mutant: the blockers stay. *)
AbandonBlocked ==
    /\ Mutable
    /\ WriteIntent([intent EXCEPT !.state = "abandoned"])

Abandon ==
    /\ Mutable
    /\ WriteIntent([intent EXCEPT !.state = "abandoned", !.blockers = FALSE])

(***************************************************************************)
(* recordIntentEvidence, recordVcsIntegration, revisePlan, completeIntent.  *)
(***************************************************************************)
(* v and r are the verdicts of the call, if any; items is the evidence it   *)
(* brings: none, some, or among it a check, behavior or ci item with a      *)
(* successful result.  It is kept with the Intent (noted), and with the     *)
(* gate the call speaks of (proven: such an item for the verification;      *)
(* reviewed: any for the review); resetGate leaves it there.                *)
RecordEvidence(v, r, declared, clear, items) ==
    LET meaningful == items = "meaningful"
        some == items # "none"
    IN
    /\ Mutable
    /\ v # None \/ r # None => NoDrift({})
    /\ v # None => intent.state = "verifying"
    /\ v = "passed" => intent.proven \/ meaningful
    /\ r # None => intent.state = "reviewing"
    /\ Write([intent EXCEPT
                !.state = IF r = "rejected" THEN "executing" ELSE @,
                !.verification = IF v = None THEN @ ELSE v,
                !.review = IF r = None THEN @ ELSE r,
                !.noted = @ \/ some,
                !.proven = @ \/ (v # None /\ meaningful),
                !.reviewed = @ \/ (r # None /\ some),
                !.declared = declared,
                !.blockers = @ /\ ~clear], assignments)
    /\ Witness((IF v = "passed" THEN {"verification"} ELSE {})
                 \cup (IF r = "accepted" THEN {"review"} ELSE {}))

Verdicts(state) ==
    CASE state = "verifying" -> ({None} \cup (Results \cap {"passed", "failed"})) \X {None}
      [] state = "reviewing" -> {None} \X ({None} \cup (Results \cap {"accepted", "rejected"}))
      [] OTHER -> {<<None, None>>}

(* The paths a commit changes relative to its parent. *)
Committed(from, to) == {p \in Paths : trees[from][p] # trees[to][p]}

(* Mutant: the paths of the commit are not compared. *)
IntegrateAnyCommit ==
    /\ intent.state = "reviewing"
    /\ Accepted(intent)
    /\ Changed(Status) = {}
    /\ head = intent.baseline.head + 1
    /\ WriteIntent([intent EXCEPT !.baseline = Baseline(head), !.noted = TRUE])

Integrate ==
    /\ intent.state = "reviewing"
    /\ Accepted(intent)
    /\ Changed(Status) = {}
    /\ head = intent.baseline.head + 1
    /\ Committed(intent.baseline.head, head) = Changed(intent.baseline.status)
    /\ WriteIntent([intent EXCEPT !.baseline = Baseline(head), !.noted = TRUE])

(* Archiving the old Plan and writing the new one are not told apart from   *)
(* the write of the Intent here.                                            *)
RevisePlan(questions) ==
    /\ Mutable
    /\ NoDrift({})
    /\ WriteIntent([Withdraw(intent) EXCEPT !.plan = questions])

(* Mutant: only running work keeps an Intent from completing. *)
ResolvedUnlessRunning == \A a \in Existing : assignments[a].status # "executing"

Resolved == \A a \in Existing : assignments[a].status \in Finished

Complete ==
    /\ Mutable
    /\ NoDrift({})
    /\ intent.state = "reviewing"
    /\ ~intent.blockers
    /\ Existing # {}
    /\ Resolved
    /\ Passed(intent)
    /\ Accepted(intent)
    /\ intent.declared = {"acceptance_met", "root_readiness"}
    /\ WriteIntent([intent EXCEPT !.state = "complete"])

(***************************************************************************)
(* createAssignment, reviseAssignmentScope, supersedeAssignment.            *)
(***************************************************************************)
WriteAssignment(a, record) ==
    Write(intent, [assignments EXCEPT ![a] = record]) /\ UNCHANGED proof

CreateAssignment(a, scope) ==
    /\ assignments[a].status = "absent"
    /\ Mutable
    /\ NoDrift(scope)
    /\ a \in Operations => intent.baseline.integrated = intent.baseline.head
    /\ WriteAssignment(a, Assignment("pending", scope))

ReviseScope(a, scope) ==
    /\ Mutable
    /\ assignments[a].status \notin Finished \cup {"absent"}
    /\ WriteAssignment(a, [assignments[a] EXCEPT !.scope = scope])

(* The Intent after a supersession, which it keeps as evidence: it goes     *)
(* back to executing, unless it has blockers or has not come that far.      *)
AfterSupersession(i) ==
    [Withdraw(i) EXCEPT
        !.state = IF ~i.blockers /\ @ \in Suspended \cup {"verifying", "reviewing"}
                    THEN "executing" ELSE @,
        !.resume = IF i.blockers THEN @ ELSE None,
        !.noted = TRUE]

(* Mutant: one replacement for several predecessors. *)
ReplacementReused(b) ==
    /\ assignments[b].status \notin Finished \cup {"absent", "executing"}
    /\ assignments[b].by = Nobody

Replacement(b) ==
    /\ assignments[b].status \notin Finished \cup {"absent", "executing"}
    /\ assignments[b].of = Nobody /\ assignments[b].by = Nobody

(* b replaces a.  Both records get the reason of this supersession, named   *)
(* here for its predecessor.                                                *)
Supersede(a, b) ==
    /\ Mutable
    /\ intent.declared = {} /\ intent.review # "accepted"
    /\ a # b
    /\ assignments[a].status \notin Finished \cup {"absent", "executing"}
    /\ assignments[a].by = Nobody
    /\ Replacement(b)
    /\ assignments[a].scope \cap assignments[b].scope # {}
    /\ NoDrift(UNION {assignments[c].scope :
                        c \in {a, b} \cup {d \in Existing : assignments[d].status = "executing"}})
    /\ Write(AfterSupersession(intent),
             [assignments EXCEPT ![a].status = "superseded", ![a].by = b, ![a].reason = a,
                                 ![a].active = Unstarted, ![a].blocker = FALSE,
                                 ![b].of = a, ![b].reason = a])
    /\ Witness({})

(***************************************************************************)
(* startAssignment, the results of an invocation, its recovery.             *)
(***************************************************************************)
(* Each start issues a capability of its own, random in the code.           *)
Start(a, scope) ==
    /\ Mutable
    /\ assignments[a].status \notin Finished \cup {"absent", "executing"}
    /\ assignments[a].issued < MaxStarts
    /\ scope \in Expansions(assignments[a].scope)
    /\ NoDrift(scope)
    /\ WriteAssignment(a, [assignments[a] EXCEPT !.status = "executing", !.scope = scope,
                                                 !.issued = @ + 1, !.blocker = FALSE,
                                                 !.active = assignments[a].issued + 1])

(* Mutant: work that is not running counts too. *)
ConcurrentOrNot(a) ==
    Changed(Status) \cap UNION {assignments[b].scope : b \in Assignments \ {a}}

(* The paths that other executing Assignments answer for. *)
Concurrent(a) ==
    Changed(Status) \cap
      UNION {assignments[b].scope : b \in {c \in Assignments \ {a} :
                                             assignments[c].status = "executing"}}

(* Mutant: only HEAD is compared. *)
EvolvedHead == head # intent.baseline.head

(* Has the repository moved on since the baseline, as far as a snapshot     *)
(* shows?                                                                   *)
Evolved == head # intent.baseline.head \/ Status # intent.baseline.status

(* Every change is in the baseline, declared by the result, or in the scope *)
(* of another executing Assignment; and one such path is there to explain   *)
(* whatever moved.                                                          *)
Explained(a, declared) ==
    /\ Changed(Status) \subseteq Changed(intent.baseline.status) \cup declared \cup Concurrent(a)
    /\ Evolved => declared \cap Changed(Status) # {} \/ Concurrent(a) # {}

(* Mutant: changes on top of the integrated commit are not looked for. *)
IntegratedDirty ==
    /\ intent.baseline.integrated = intent.baseline.head
    /\ head = intent.baseline.head

(* The integrated commit survives in the baseline while it is HEAD and the  *)
(* worktree is clean.                                                       *)
Integrated ==
    /\ intent.baseline.integrated = intent.baseline.head
    /\ head = intent.baseline.head
    /\ Changed(Status) = {}

SuccessfulOperations(a, outcome) ==
    /\ a \in Operations
    /\ outcome = "completed"
    /\ Integrated
    /\ intent.state = "reviewing"
    /\ Passed(intent)
    /\ Accepted(intent)

(* The Intent after a result.  Gates are withdrawn when the repository has  *)
(* moved on or the work has failed; failed operations reopen the work.      *)
AfterResult(a, outcome, baseline) ==
    LET i == [intent EXCEPT !.baseline = baseline]
    IN  IF SuccessfulOperations(a, outcome) \/ ~(Evolved \/ outcome = "failed")
          THEN i
          ELSE IF a \in Operations /\ outcome = "failed"
                 THEN [Withdraw(i) EXCEPT !.state = "executing"]
                 ELSE Withdraw(i)

(* The Assignment after a result.                                           *)
Reported(a, capability, outcome, scope, report) ==
    [assignments[a] EXCEPT !.status = outcome, !.scope = scope, !.active = Unstarted,
                           !.log = Append(@, capability), !.outcome = outcome,
                           !.evidence = "evidence" \in report,
                           !.blocker = "blocker" \in report]

(* Mutant: a result is recorded whatever invocation it belongs to. *)
RecordAny(a, capability, outcome, scope, baseline, report) ==
    /\ Mutable
    /\ assignments[a].status = "executing"
    /\ Write(AfterResult(a, outcome, baseline),
             [assignments EXCEPT ![a] = Reported(a, capability, outcome, scope, report)])
    /\ Witness({})

(* A result is recorded for the invocation whose capability it carries.     *)
Record(a, capability, outcome, scope, baseline, report) ==
    /\ Mutable
    /\ assignments[a].status = "executing"
    /\ capability = assignments[a].active
    /\ Write(AfterResult(a, outcome, baseline),
             [assignments EXCEPT ![a] = Reported(a, capability, outcome, scope, report)])
    /\ Witness({})

(* Paths are declared as evidence, and blocked work names its blocker.      *)
Result(a, capability, outcome, scope, declared, report) ==
    /\ outcome \in Suspended => "blocker" \in report
    /\ scope \in Expansions(assignments[a].scope)
    /\ declared \subseteq scope
    /\ declared # {} => "evidence" \in report
    /\ Explained(a, declared)
    /\ Record(a, capability, outcome, scope,
              Baseline(IF Integrated THEN intent.baseline.integrated ELSE NoCommit), report)

(* recoverInterruptedAssignment: Root records the failure, drift or not,    *)
(* with evidence of its own.                                               *)
Recover(a, capability) ==
    Record(a, capability, "failed", assignments[a].scope, intent.baseline, {"evidence"})

(***************************************************************************)
(* The repository, in the hands of specialists, Root and anyone else.       *)
(***************************************************************************)
Edit(p, c) ==
    /\ edits < MaxEdits
    /\ text[p] # c
    /\ text' = [text EXCEPT ![p] = c]
    /\ edits' = edits + 1
    /\ UNCHANGED <<intent, assignments, head, trees, proof>>

Commit(S) ==
    /\ head < MaxCommits
    /\ head' = head + 1
    /\ trees' = [c \in 0..head + 1 |->
                   IF c <= head THEN trees[c]
                   ELSE [p \in Paths |-> IF p \in S THEN text[p] ELSE trees[head][p]]]
    /\ UNCHANGED <<intent, assignments, text, edits, proof>>

Lifecycle ==
    \/ \E target \in Suspensions : Block(target)
    \/ \E target \in Running : Transition(target)
    \/ Abandon
    \/ \E vr \in Verdicts(intent.state), declared \in Declarations \cup {intent.declared},
          clear \in BOOLEAN, items \in Items :
         RecordEvidence(vr[1], vr[2], declared, clear, items)
    \/ Integrate
    \/ \E questions \in Questions : RevisePlan(questions)
    \/ Complete

Work(a) ==
    \/ \E scope \in Scopes :
         \/ CreateAssignment(a, scope)
         \/ ReviseScope(a, scope)
         \/ Start(a, scope)
         \/ \E outcome \in Outcomes, declared \in SUBSET scope,
               capability \in 1..assignments[a].issued, report \in Reports :
              Result(a, capability, outcome, scope, declared, report)
    \/ \E capability \in 1..assignments[a].issued : Recover(a, capability)
    \/ \E b \in Assignments : Supersede(a, b)

Repository ==
    \/ \E p \in Paths, c \in Contents : Edit(p, c)
    \/ \E S \in SUBSET Changed(Status) : Commit(S)

Next == Lifecycle \/ (\E a \in Assignments : Work(a)) \/ Repository

Spec == Init /\ [][Next]_vars

(***************************************************************************)
(* Properties.                                                             *)
(***************************************************************************)

(* IntentSchema and AssignmentSchema, as far as they are modelled. *)
IntentRecords ==
    [state : Running \cup Suspended \cup Terminal, resume : Running \cup {None},
     blockers : BOOLEAN, plan : {None, "open", "settled"},
     needs : SUBSET Gates, noted : BOOLEAN, proven : BOOLEAN, reviewed : BOOLEAN,
     verification : {"not_required", "missing", "passed", "failed"},
     review : {"not_required", "missing", "accepted", "rejected"},
     declared : SUBSET {"acceptance_met", "root_readiness"},
     baseline : Baselines]

AssignmentRecords ==
    [status : Statuses, scope : SUBSET Paths, by : Assignments \cup {Nobody},
     of : Assignments \cup {Nobody}, reason : Assignments \cup {Nobody},
     active : 0..MaxStarts, issued : 0..MaxStarts, log : Seq(1..MaxStarts),
     outcome : Outcomes \cup {None}, evidence : BOOLEAN, blocker : BOOLEAN]

TypeOK ==
    /\ intent \in IntentRecords
    /\ assignments \in [Assignments -> AssignmentRecords]
    /\ head \in 0..MaxCommits
    /\ trees \in [0..head -> Tree]
    /\ text \in Tree
    /\ edits \in 0..MaxEdits

(* Each capability a start has issued is spent on one result: the log of an *)
(* Assignment holds every invocation once and in order, except the running  *)
(* one, however late, often or out of order results are delivered and       *)
(* recoveries attempted.                                                    *)
InvocationsAccounted ==
    \A a \in Assignments :
        LET r == assignments[a]
            recorded == IF r.status = "executing" THEN r.issued - 1 ELSE r.issued
        IN  /\ r.log = [n \in 1..recorded |-> n]
            /\ r.active = IF r.status = "executing" THEN r.issued ELSE Unstarted

(* A supersession is recorded on both Assignments, and following the        *)
(* replacements always leads out of the superseded Assignments.             *)
Linked ==
    \A a \in Assignments :
        /\ assignments[a].by # Nobody <=> assignments[a].status = "superseded"
        /\ assignments[a].by # Nobody =>
             assignments[a].by \in Existing /\ assignments[assignments[a].by].of = a
        /\ assignments[a].of # Nobody => assignments[assignments[a].of].by = a

LeadsOut == \A S \in (SUBSET Superseded) \ {{}} : \E a \in S : assignments[a].by \notin S

SupersessionSound == Linked /\ LeadsOut

(* A completed Intent stands on completed work: replacing Assignments by    *)
(* one another cannot stand in for doing them, and nothing that happens     *)
(* later to an Assignment reopens it.                                       *)
CompletionSound ==
    intent.state = "complete" =>
        /\ \A a \in Existing : assignments[a].status \in Finished
        /\ \E a \in Existing : assignments[a].status = "completed"
        /\ Passed(intent) /\ Accepted(intent)
        /\ ~intent.blockers

(* What a gate was granted on still is what the repository holds, as far as *)
(* a snapshot shows, whenever the store says the gate is passed and sees no *)
(* drift: the paths that differ from the commit of then are the same.       *)
EvidenceCovers ==
    \A g \in Gates :
        Granted(intent, g) /\ NoDrift({}) =>
            {p \in Paths : text[p] # trees[proof[g].head][p]}
              = {p \in Paths : proof[g].text[p] # trees[proof[g].head][p]}

(* An integrated commit in the baseline is the expected HEAD, with nothing  *)
(* changed on top of it.  (Hence successful operations never meet withdrawn *)
(* gates: the repository cannot have moved on.)                             *)
IntegratedBaseline ==
    intent.baseline.integrated # NoCommit =>
        /\ intent.baseline.integrated = intent.baseline.head
        /\ Changed(intent.baseline.status) = {}

(* A path enters the baseline only from the scope of an Assignment that was *)
(* executing: no other change of the repository is ever taken for work.     *)
BaselineAttributed ==
    [][\A p \in Changed(intent'.baseline.status) \ Changed(intent.baseline.status) :
          \E a \in Assignments :
             /\ assignments[a].status = "executing"
             /\ p \in assignments[a].scope \cup assignments'[a].scope]_vars

(* "Terminal Intents cannot be mutated", and neither can their Assignments. *)
TerminalFrozen ==
    [][intent.state \in Terminal => UNCHANGED <<intent, assignments>>]_vars
============================================================================
