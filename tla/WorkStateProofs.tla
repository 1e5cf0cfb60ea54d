--------------------------- MODULE WorkStateProofs ---------------------------
(***************************************************************************)
(* Proofs about WorkState, and about what a diagnosis reports of its        *)
(* records (WorkStateReport), for every set of paths, contents, scopes and  *)
(* Assignments, every kind of call and every bound.                         *)
(***************************************************************************)
EXTENDS WorkStateReport, TLAPS

(* The bounds are numbers, and the inputs are of the kinds they name. *)
LEMMA Constants ==
    /\ MaxCommits \in Nat /\ MaxEdits \in Nat /\ MaxStarts \in Nat
    /\ Nobody \notin Assignments
    /\ Needs \subseteq SUBSET Gates
    /\ Suspensions \subseteq Suspended
    /\ Questions \subseteq {"open", "settled"}
    /\ Declarations \subseteq SUBSET {"acceptance_met", "root_readiness"}
    /\ Reports \subseteq SUBSET {"evidence", "blocker"}
BY WorkStateAssumption DEF Gates, Suspended

(***************************************************************************)
(* Types.                                                                  *)
(***************************************************************************)
RepoType ==
    /\ head \in 0..MaxCommits
    /\ trees \in [0..head -> Tree]
    /\ text \in Tree
    /\ edits \in 0..MaxEdits

IntentType == intent \in IntentRecords
WorkType == assignments \in [Assignments -> AssignmentRecords]

(* The type invariant, by the part of the system it speaks of. *)
LEMMA TypeParts ==
    /\ TypeOK <=> IntentType /\ WorkType /\ RepoType
    /\ TypeOK' <=> IntentType' /\ WorkType' /\ RepoType'
BY DEF TypeOK, IntentType, WorkType, RepoType

(* git status shows one letter for each path. *)
LEMMA StatusType == Status \in [Paths -> Letters]
BY DEF Status, Letter, Letters

(* A baseline taken from a snapshot has the shape of a baseline. *)
LEMMA BaselineType ==
    ASSUME RepoType, NEW c \in (0..MaxCommits) \cup {NoCommit}
    PROVE  Baseline(c) \in Baselines
BY StatusType DEF Baseline, Baselines, RepoType

(* Withdrawing the gates touches nothing else, and no gate stays granted. *)
LEMMA WithdrawType ==
    ASSUME NEW i \in IntentRecords
    PROVE  /\ Withdraw(i) \in IntentRecords
           /\ Withdraw(i).state = i.state
           /\ Withdraw(i).baseline = i.baseline
           /\ Withdraw(i).blockers = i.blockers
           /\ Withdraw(i).needs = i.needs
           /\ \A g \in Gates : ~Granted(Withdraw(i), g)
BY DEF Withdraw, IntentRecords, Cleared, Granted, Gates

(* A result rebases the Intent, which stays where it is or reopens. *)
LEMMA AfterResultType ==
    ASSUME IntentType, NEW a, NEW outcome, NEW b \in Baselines
    PROVE  /\ AfterResult(a, outcome, b) \in IntentRecords
           /\ AfterResult(a, outcome, b).baseline = b
           /\ AfterResult(a, outcome, b).state \in {intent.state, "executing"}
<1> DEFINE i == [intent EXCEPT !.baseline = b]
<1>1. i \in IntentRecords /\ i.baseline = b /\ i.state = intent.state
  BY DEF IntentType, IntentRecords
<1>2. Withdraw(i) \in IntentRecords /\ Withdraw(i).baseline = b /\ Withdraw(i).state = intent.state
  BY <1>1, WithdrawType
<1>3. LET j == [Withdraw(i) EXCEPT !.state = "executing"]
      IN  j \in IntentRecords /\ j.baseline = b /\ j.state = "executing"
  BY <1>2 DEF IntentRecords, Running
<1> QED
  BY <1>1, <1>2, <1>3 DEF AfterResult

(* A new Intent has its type. *)
LEMMA InitType ==
    ASSUME Init
    PROVE  TypeOK
<1>1. RepoType
  BY Constants DEF Init, RepoType
<1>2. Baseline(NoCommit) \in Baselines
  BY <1>1, BaselineType
<1>3. IntentType
  <2>1. PICK needs \in Needs :
         intent = [state |-> "scoping", resume |-> None, blockers |-> FALSE, plan |-> None,
                   needs |-> needs, noted |-> FALSE, proven |-> FALSE, reviewed |-> FALSE,
                   verification |-> Cleared(needs, "verification"),
                   review |-> Cleared(needs, "review"),
                   declared |-> {},
                   baseline |-> Baseline(NoCommit)]
    BY DEF Init
  <2>2. needs \in SUBSET Gates
    BY Constants
  <2> QED
    BY <1>2, <2>1, <2>2 DEF IntentType, IntentRecords, Cleared, Running
<1>4. WorkType
  <2>1. <<>> \in Seq(1..MaxStarts)
    OBVIOUS
  <2>2. Assignment("absent", {}) \in AssignmentRecords
    BY <2>1, Constants DEF Assignment, AssignmentRecords, Statuses, Unstarted
  <2> QED
    BY <2>2 DEF Init, WorkType
<1> QED
  BY <1>1, <1>3, <1>4, TypeParts

(* A write of the Intent alone keeps the type if the record has its own. *)
LEMMA IntentWritten ==
    ASSUME TypeOK, NEW i \in IntentRecords, Write(i, assignments)
    PROVE  TypeOK'
BY TypeParts DEF Write, repo, IntentType, WorkType, RepoType

(* The flags of the Intent, on their own: they are truth values. *)
LEMMA FlagsType ==
    ASSUME NEW i \in IntentRecords, NEW noted \in BOOLEAN, NEW proven \in BOOLEAN,
           NEW reviewed \in BOOLEAN, NEW blockers \in BOOLEAN
    PROVE  [i EXCEPT !.noted = noted, !.proven = proven, !.reviewed = reviewed,
                     !.blockers = blockers] \in IntentRecords
BY DEF IntentRecords

(* The Intent after each of its own operations. *)
LEMMA LifecycleType ==
    ASSUME TypeOK, Lifecycle
    PROVE  TypeOK'
<1> USE TypeParts, IntentWritten DEF WriteIntent
<1>0. intent \in IntentRecords
  BY DEF IntentType
<1>1. ASSUME NEW target \in Suspensions, Block(target) PROVE TypeOK'
  <2>1. target \in Suspended /\ intent.state \in Running
    BY <1>0, <1>1, Constants DEF Block, IntentRecords
  <2>2. [intent EXCEPT !.state = target, !.blockers = TRUE, !.resume = intent.state] \in IntentRecords
    BY <1>0, <2>1 DEF IntentRecords
  <2> QED
    BY <1>1, <2>2 DEF Block
<1>2. ASSUME NEW target \in Running, Transition(target) PROVE TypeOK'
  <2>1. [intent EXCEPT !.state = target, !.resume = None] \in IntentRecords
    BY <1>0 DEF IntentRecords
  <2> QED
    BY <1>2, <2>1 DEF Transition
<1>3. CASE Abandon
  <2>1. [intent EXCEPT !.state = "abandoned", !.blockers = FALSE] \in IntentRecords
    BY <1>0 DEF IntentRecords, Terminal
  <2> QED
    BY <1>3, <2>1 DEF Abandon
<1>4. ASSUME NEW vr \in Verdicts(intent.state), NEW declared \in Declarations \cup {intent.declared},
             NEW clear \in BOOLEAN, NEW items \in Items,
             RecordEvidence(vr[1], vr[2], declared, clear, items)
      PROVE  TypeOK'
  <2>1. /\ vr[1] \in {None, "passed", "failed"}
        /\ vr[2] \in {None, "accepted", "rejected"}
    BY DEF Verdicts
  <2>2. declared \in SUBSET {"acceptance_met", "root_readiness"}
    BY <1>0, Constants DEF IntentRecords
  <2> DEFINE noted == intent.noted \/ items # "none"
             proven == intent.proven \/ (vr[1] # None /\ items = "meaningful")
             reviewed == intent.reviewed \/ (vr[2] # None /\ items # "none")
             blockers == intent.blockers /\ ~clear
             state == IF vr[2] = "rejected" THEN "executing" ELSE intent.state
             verification == IF vr[1] = None THEN intent.verification ELSE vr[1]
             review == IF vr[2] = None THEN intent.review ELSE vr[2]
  <2>3. noted \in BOOLEAN /\ proven \in BOOLEAN /\ reviewed \in BOOLEAN /\ blockers \in BOOLEAN
    BY <1>0 DEF IntentRecords
  <2>4. /\ state \in Running \cup Suspended \cup Terminal
        /\ verification \in {"not_required", "missing", "passed", "failed"}
        /\ review \in {"not_required", "missing", "accepted", "rejected"}
    BY <1>0, <2>1 DEF IntentRecords, Running
  <2>5. Write([intent EXCEPT !.state = state, !.verification = verification, !.review = review,
                             !.noted = noted, !.proven = proven, !.reviewed = reviewed,
                             !.declared = declared, !.blockers = blockers], assignments)
    BY <1>4 DEF RecordEvidence
  <2> HIDE DEF noted, proven, reviewed, blockers, state, verification, review
  <2>6. [intent EXCEPT !.state = state, !.verification = verification, !.review = review,
                       !.noted = noted, !.proven = proven, !.reviewed = reviewed,
                       !.declared = declared, !.blockers = blockers] \in IntentRecords
    <3> DEFINE i == [intent EXCEPT !.state = state, !.verification = verification,
                                   !.review = review, !.declared = declared]
    <3>1. i \in IntentRecords
      BY <1>0, <2>2, <2>4 DEF IntentRecords
    <3>2. [i EXCEPT !.noted = noted, !.proven = proven, !.reviewed = reviewed,
                    !.blockers = blockers] \in IntentRecords
      BY <2>3, <3>1, FlagsType
    <3>3. [i EXCEPT !.noted = noted, !.proven = proven, !.reviewed = reviewed,
                    !.blockers = blockers]
            = [intent EXCEPT !.state = state, !.verification = verification, !.review = review,
                             !.noted = noted, !.proven = proven, !.reviewed = reviewed,
                             !.declared = declared, !.blockers = blockers]
      BY <1>0 DEF IntentRecords
    <3> QED
      BY <3>2, <3>3
  <2> QED
    BY <2>5, <2>6
<1>5. CASE Integrate
  <2>1. Baseline(head) \in Baselines
    BY BaselineType DEF RepoType
  <2>2. [intent EXCEPT !.baseline = Baseline(head), !.noted = TRUE] \in IntentRecords
    BY <1>0, <2>1 DEF IntentRecords
  <2> QED
    BY <1>5, <2>2 DEF Integrate
<1>6. ASSUME NEW questions \in Questions, RevisePlan(questions) PROVE TypeOK'
  <2>1. Withdraw(intent) \in IntentRecords
    BY <1>0, WithdrawType
  <2>2. questions \in {"open", "settled"}
    BY Constants
  <2>3. [Withdraw(intent) EXCEPT !.plan = questions] \in IntentRecords
    BY <2>1, <2>2 DEF IntentRecords
  <2> QED
    BY <1>6, <2>3 DEF RevisePlan
<1>7. CASE Complete
  <2>1. [intent EXCEPT !.state = "complete"] \in IntentRecords
    BY <1>0 DEF IntentRecords, Terminal
  <2> QED
    BY <1>7, <2>1 DEF Complete
<1> QED
  BY <1>1, <1>2, <1>3, <1>4, <1>5, <1>6, <1>7 DEF Lifecycle

(* An Assignment after a result: nothing but what the result speaks of. *)
LEMMA ReportedType ==
    ASSUME NEW a, assignments[a] \in AssignmentRecords,
           NEW capability \in 1..assignments[a].issued, NEW outcome \in Outcomes,
           NEW scope \in SUBSET Paths, NEW report
    PROVE  Reported(a, capability, outcome, scope, report) \in AssignmentRecords
<1>1. capability \in 1..MaxStarts
  BY Constants DEF AssignmentRecords
<1>2. Append(assignments[a].log, capability) \in Seq(1..MaxStarts)
  BY <1>1 DEF AssignmentRecords
<1>3. outcome \in Statuses /\ Unstarted \in 0..MaxStarts
  BY Constants DEF Statuses, Unstarted
<1> DEFINE evidence == "evidence" \in report
           blocker == "blocker" \in report
<1>4. Reported(a, capability, outcome, scope, report)
        = [assignments[a] EXCEPT !.status = outcome, !.scope = scope, !.active = Unstarted,
                                 !.log = Append(assignments[a].log, capability),
                                 !.outcome = outcome, !.evidence = evidence, !.blocker = blocker]
  BY DEF Reported, AssignmentRecords
<1>5. evidence \in BOOLEAN /\ blocker \in BOOLEAN
  OBVIOUS
<1> HIDE DEF evidence, blocker
<1> QED
  BY <1>2, <1>3, <1>4, <1>5 DEF AssignmentRecords

LEMMA ReportedFields ==
    ASSUME NEW a, assignments[a] \in AssignmentRecords,
           NEW capability, NEW outcome, NEW scope, NEW report
    PROVE  LET r == Reported(a, capability, outcome, scope, report)
           IN  /\ r.status = outcome /\ r.scope = scope /\ r.active = Unstarted
               /\ r.log = Append(assignments[a].log, capability) /\ r.outcome = outcome
               /\ r.evidence = ("evidence" \in report) /\ r.blocker = ("blocker" \in report)
               /\ r.issued = assignments[a].issued
               /\ r.by = assignments[a].by /\ r.of = assignments[a].of
               /\ r.reason = assignments[a].reason
BY DEF Reported, AssignmentRecords

(* The operations on an Assignment. *)
LEMMA WorkStepType ==
    ASSUME TypeOK, NEW a \in Assignments, Work(a)
    PROVE  TypeOK'
<1> USE TypeParts
<1>0. assignments[a] \in AssignmentRecords
  BY DEF WorkType
<1>1. RepoType'
  <2>1. UNCHANGED repo
    BY DEF Work, CreateAssignment, ReviseScope, Start, Result, Recover, Record, Supersede,
           WriteAssignment, Write
  <2> QED
    BY <2>1 DEF repo, RepoType
<1>2. ASSUME NEW scope \in Scopes, CreateAssignment(a, scope) PROVE TypeOK'
  <2>1. Assignment("pending", scope) \in AssignmentRecords
    BY Constants DEF Assignment, AssignmentRecords, Statuses, Scopes, Unstarted
  <2> QED
    BY <1>1, <1>2, <2>1 DEF CreateAssignment, WriteAssignment, Write, IntentType, WorkType
<1>3. ASSUME NEW scope \in Scopes, ReviseScope(a, scope) PROVE TypeOK'
  <2>1. [assignments[a] EXCEPT !.scope = scope] \in AssignmentRecords
    BY DEF WorkType, AssignmentRecords, Scopes
  <2> QED
    BY <1>1, <1>3, <2>1 DEF ReviseScope, WriteAssignment, Write, IntentType, WorkType
<1>4. ASSUME NEW scope \in Scopes, Start(a, scope) PROVE TypeOK'
  <2>1. [assignments[a] EXCEPT !.status = "executing", !.scope = scope, !.issued = @ + 1,
                               !.blocker = FALSE,
                               !.active = assignments[a].issued + 1] \in AssignmentRecords
    <3>1. assignments[a].issued + 1 \in 0..MaxStarts
      BY <1>0, <1>4, Constants DEF Start, AssignmentRecords
    <3>2. "executing" \in Statuses /\ scope \in SUBSET Paths
      BY DEF Statuses, Scopes
    <3> QED
      BY <1>0, <3>1, <3>2 DEF AssignmentRecords
  <2> QED
    BY <1>1, <1>4, <2>1 DEF Start, WriteAssignment, Write, IntentType, WorkType
<1>5. ASSUME NEW capability \in 1..assignments[a].issued, NEW outcome \in Outcomes,
             NEW scope \in SUBSET Paths, NEW baseline \in Baselines,
             NEW report, Record(a, capability, outcome, scope, baseline, report)
      PROVE  TypeOK'
  <2>1. Reported(a, capability, outcome, scope, report) \in AssignmentRecords
    BY <1>0, ReportedType
  <2>2. AfterResult(a, outcome, baseline) \in IntentRecords
    BY AfterResultType
  <2>3. IntentType'
    BY <1>5, <2>2 DEF Record, Write, IntentType
  <2>4. WorkType'
    BY <1>5, <2>1 DEF Record, Write, WorkType
  <2> QED
    BY <1>1, <2>3, <2>4
<1>6. ASSUME NEW scope \in Scopes, NEW outcome \in Outcomes, NEW declared \in SUBSET scope,
             NEW capability \in 1..assignments[a].issued, NEW report \in Reports,
             Result(a, capability, outcome, scope, declared, report)
      PROVE  TypeOK'
  <2>1. (IF Integrated THEN intent.baseline.integrated ELSE NoCommit) \in (0..MaxCommits) \cup {NoCommit}
    BY DEF IntentType, IntentRecords, Baselines
  <2>2. Baseline(IF Integrated THEN intent.baseline.integrated ELSE NoCommit) \in Baselines
    BY <2>1, BaselineType
  <2> QED
    BY <1>5, <1>6, <2>2 DEF Result, Scopes
<1>7. ASSUME NEW capability \in 1..assignments[a].issued, Recover(a, capability) PROVE TypeOK'
  <2>1. intent.baseline \in Baselines /\ assignments[a].scope \in SUBSET Paths
    BY DEF IntentType, IntentRecords, WorkType, AssignmentRecords
  <2> QED
    BY <1>5, <1>7, <2>1 DEF Recover, Outcomes
<1>8. ASSUME NEW b \in Assignments, Supersede(a, b) PROVE TypeOK'
  <2>1. Withdraw(intent) \in IntentRecords
    BY WithdrawType DEF IntentType
  <2>2. AfterSupersession(intent) \in IntentRecords
    <3> DEFINE i == Withdraw(intent)
               state == IF ~intent.blockers /\ i.state \in Suspended \cup {"verifying", "reviewing"}
                          THEN "executing" ELSE i.state
               resume == IF intent.blockers THEN i.resume ELSE None
    <3>1. state \in Running \cup Suspended \cup Terminal /\ resume \in Running \cup {None}
      BY <2>1 DEF IntentRecords, Running
    <3>2. AfterSupersession(intent) = [i EXCEPT !.state = state, !.resume = resume, !.noted = TRUE]
      BY <2>1 DEF AfterSupersession, IntentRecords
    <3> HIDE DEF i, state, resume
    <3>3. i \in IntentRecords
      BY <2>1 DEF i
    <3> QED
      BY <3>1, <3>2, <3>3 DEF IntentRecords
  <2>3. a # b
    BY <1>8 DEF Supersede
  <2>4. [assignments[a] EXCEPT !.status = "superseded", !.by = b, !.reason = a,
                               !.active = Unstarted, !.blocker = FALSE] \in AssignmentRecords
    <3>1. "superseded" \in Statuses /\ Unstarted \in 0..MaxStarts
      BY Constants DEF Statuses, Unstarted
    <3> QED
      BY <1>0, <3>1 DEF AssignmentRecords
  <2>5. [assignments[b] EXCEPT !.of = a, !.reason = a] \in AssignmentRecords
    BY DEF WorkType, AssignmentRecords
  <2>6. assignments' = [c \in Assignments |->
                          IF c = a THEN [assignments[a] EXCEPT !.status = "superseded", !.by = b,
                                                              !.reason = a, !.active = Unstarted,
                                                              !.blocker = FALSE]
                          ELSE IF c = b THEN [assignments[b] EXCEPT !.of = a, !.reason = a]
                          ELSE assignments[c]]
    BY <1>8, <2>3 DEF Supersede, Write, WorkType, AssignmentRecords
  <2>7. WorkType'
    BY <2>4, <2>5, <2>6 DEF WorkType
  <2>8. IntentType'
    BY <1>8, <2>2 DEF Supersede, Write, IntentType
  <2> QED
    BY <1>1, <2>7, <2>8
<1> QED
  BY <1>2, <1>3, <1>4, <1>6, <1>7, <1>8 DEF Work

(* What happens to the repository. *)
LEMMA RepositoryType ==
    ASSUME TypeOK, Repository
    PROVE  TypeOK'
<1> USE TypeParts
<1>1. IntentType' /\ WorkType'
  BY DEF Repository, Edit, Commit, IntentType, WorkType
<1>2. ASSUME NEW p \in Paths, NEW c \in Contents, Edit(p, c) PROVE RepoType'
  BY <1>2, Constants DEF Edit, RepoType, Tree
<1>3. ASSUME NEW S \in SUBSET Changed(Status), Commit(S) PROVE RepoType'
  <2>1. head' = head + 1 /\ head' \in 0..MaxCommits /\ UNCHANGED <<text, edits>>
    BY <1>3, Constants DEF Commit, RepoType
  <2>2. [p \in Paths |-> IF p \in S THEN text[p] ELSE trees[head][p]] \in Tree
    BY DEF RepoType, Tree
  <2>3. trees' \in [0..head + 1 -> Tree]
    BY <1>3, <2>2 DEF Commit, RepoType
  <2> QED
    BY <2>1, <2>3 DEF RepoType
<1> QED
  BY <1>1, <1>2, <1>3 DEF Repository

(* Every record and the repository keep their types. *)
THEOREM TypeCorrect == Spec => []TypeOK
<1>1. Init => TypeOK
  BY InitType
<1>2. TypeOK /\ [Next]_vars => TypeOK'
  <2>1. TypeOK /\ UNCHANGED vars => TypeOK'
    BY DEF vars, repo, TypeOK
  <2> QED
    BY <2>1, LifecycleType, WorkStepType, RepositoryType DEF Next
<1> QED
  BY <1>1, <1>2, PTL DEF Spec

(***************************************************************************)
(* Terminal Intents.                                                       *)
(***************************************************************************)

(* Every operation refuses a terminal Intent. *)
LEMMA FrozenStep ==
    ASSUME intent.state \in Terminal, [Next]_vars
    PROVE  UNCHANGED <<intent, assignments>>
<1>1. ~Mutable /\ intent.state \notin Suspended /\ intent.state \notin DOMAIN Successors
      /\ intent.state # "reviewing"
  BY DEF Mutable, Terminal, Suspended, Successors
<1>2. ~Lifecycle
  BY <1>1 DEF Lifecycle, Block, Transition, Follows, Abandon, RecordEvidence, Integrate, RevisePlan,
              Complete
<1>3. ASSUME NEW a \in Assignments PROVE ~Work(a)
  BY <1>1 DEF Work, CreateAssignment, ReviseScope, Start, Result, Recover, Record, Supersede
<1>4. Repository => UNCHANGED <<intent, assignments>>
  BY DEF Repository, Edit, Commit
<1> QED
  BY <1>2, <1>3, <1>4 DEF Next, vars

(* Nothing is written to a completed or abandoned Intent or its Assignments. *)
THEOREM Frozen == Spec => TerminalFrozen
<1>1. [Next]_vars => [intent.state \in Terminal => UNCHANGED <<intent, assignments>>]_vars
  BY FrozenStep
<1> QED
  BY <1>1, PTL DEF Spec, TerminalFrozen

(***************************************************************************)
(* Supersession.                                                           *)
(***************************************************************************)

(* Assignment a is written, but not superseded. *)
Revised(a) ==
    /\ \A b \in Assignments \ {a} : assignments'[b] = assignments[b]
    /\ assignments[a].status # "superseded"
    /\ assignments'[a].status \notin {"superseded", "absent"}
    /\ assignments'[a].by = assignments[a].by
    /\ assignments'[a].of = assignments[a].of

(* An Assignment that does not exist has replaced nothing. *)
LEMMA AbsentUnlinked ==
    ASSUME TypeOK, Linked, NEW a \in Assignments, assignments[a].status = "absent"
    PROVE  assignments[a].by = Nobody /\ assignments[a].of = Nobody
<1>1. assignments[a].by = Nobody
  BY DEF Linked
<1>2. ASSUME assignments[a].of # Nobody PROVE FALSE
  <2>1. assignments[a].of \in Assignments /\ assignments[assignments[a].of].by = a
    BY <1>2 DEF Linked, TypeOK, AssignmentRecords
  <2>2. a \in Existing
    BY <2>1, Constants DEF Linked
  <2> QED
    BY <2>2 DEF Existing
<1> QED
  BY <1>1, <1>2

(* What a step does to the Assignments. *)
LEMMA WorkKinds ==
    ASSUME TypeOK, Linked, [Next]_vars
    PROVE  \/ UNCHANGED assignments
           \/ \E a \in Assignments : Revised(a)
           \/ \E a, b \in Assignments : Supersede(a, b)
<1>0. assignments \in [Assignments -> AssignmentRecords]
  BY DEF TypeOK
<1>1. Lifecycle => UNCHANGED assignments
  BY DEF Lifecycle, Block, Transition, Abandon, RecordEvidence, Integrate, RevisePlan, Complete,
         WriteIntent, Write
<1>2. Repository => UNCHANGED assignments
  BY DEF Repository, Edit, Commit
<1>3. ASSUME NEW a \in Assignments, NEW scope \in Scopes, CreateAssignment(a, scope) PROVE Revised(a)
  <2>1. assignments[a].by = Nobody /\ assignments[a].of = Nobody
    BY <1>3, AbsentUnlinked DEF CreateAssignment
  <2> QED
    BY <1>0, <1>3, <2>1 DEF CreateAssignment, WriteAssignment, Write, Assignment, Revised
<1>4. ASSUME NEW a \in Assignments, NEW scope \in Scopes, ReviseScope(a, scope) PROVE Revised(a)
  BY <1>0, <1>4 DEF ReviseScope, WriteAssignment, Write, Finished, Revised, AssignmentRecords
<1>5. ASSUME NEW a \in Assignments, NEW scope \in Scopes, Start(a, scope) PROVE Revised(a)
  BY <1>0, <1>5 DEF Start, WriteAssignment, Write, Finished, Revised, AssignmentRecords
<1>6. ASSUME NEW a \in Assignments, NEW capability, NEW outcome \in Outcomes, NEW scope, NEW baseline,
             NEW report, Record(a, capability, outcome, scope, baseline, report)
      PROVE  Revised(a)
  <2>1. assignments' = [assignments EXCEPT ![a] = Reported(a, capability, outcome, scope, report)]
        /\ assignments[a].status = "executing"
    BY <1>6 DEF Record, Write
  <2> QED
    BY <1>0, <2>1, ReportedFields DEF Outcomes, Revised
<1>7. ASSUME NEW a \in Assignments, Work(a)
      PROVE  Revised(a) \/ \E b \in Assignments : Supersede(a, b)
  BY <1>3, <1>4, <1>5, <1>6, <1>7 DEF Work, Result, Recover, Outcomes
<1> QED
  BY <1>1, <1>2, <1>7 DEF Next, vars

(* The records after b has replaced a. *)
LEMMA Superseding ==
    ASSUME TypeOK, NEW a \in Assignments, NEW b \in Assignments, Supersede(a, b)
    PROVE  /\ a # b
           /\ assignments[a].status \notin {"superseded", "absent"} /\ assignments[a].by = Nobody
           /\ assignments[b].status \notin {"superseded", "absent"} /\ assignments[b].by = Nobody
           /\ assignments[b].of = Nobody
           /\ assignments'[a].status = "superseded" /\ assignments'[a].by = b
           /\ assignments'[a].of = assignments[a].of
           /\ assignments'[b].status = assignments[b].status
           /\ assignments'[b].by = Nobody /\ assignments'[b].of = a
           /\ \A c \in Assignments \ {a, b} : assignments'[c] = assignments[c]
<1>1. assignments \in [Assignments -> AssignmentRecords]
  BY DEF TypeOK
<1>2. a # b
  BY DEF Supersede
<1>3. assignments' = [assignments EXCEPT ![a].status = "superseded", ![a].by = b, ![a].reason = a,
                                         ![a].active = Unstarted, ![a].blocker = FALSE,
                                         ![b].of = a, ![b].reason = a]
  BY DEF Supersede, Write
<1>4. /\ assignments[a].status \notin {"superseded", "absent"} /\ assignments[a].by = Nobody
      /\ assignments[b].status \notin {"superseded", "absent"} /\ assignments[b].by = Nobody
      /\ assignments[b].of = Nobody
  BY DEF Supersede, Replacement, Finished
<1> QED
  BY <1>1, <1>2, <1>3, <1>4 DEF AssignmentRecords

(* A supersession leads from a to b, which is not superseded itself. *)
LEMMA SupersessionStep ==
    ASSUME TypeOK, SupersessionSound, [Next]_vars
    PROVE  SupersessionSound'
<1>0. Linked /\ LeadsOut
  BY DEF SupersessionSound
<1>a. assignments \in [Assignments -> AssignmentRecords]
  BY DEF TypeOK
<1>1. CASE UNCHANGED assignments
  BY <1>1 DEF SupersessionSound, Linked, LeadsOut, Existing, Superseded
<1>2. ASSUME NEW a \in Assignments, Revised(a) PROVE SupersessionSound'
  <2>1. \A c \in Assignments : /\ assignments'[c].by = assignments[c].by
                               /\ assignments'[c].of = assignments[c].of
                               /\ assignments'[c].status = "superseded"
                                    <=> assignments[c].status = "superseded"
                               /\ c \in Existing => c \in Existing'
    BY <1>2 DEF Revised, Existing
  <2>2. Linked'
    <3> SUFFICES ASSUME NEW c \in Assignments
                 PROVE  /\ assignments'[c].by # Nobody <=> assignments'[c].status = "superseded"
                        /\ assignments'[c].by # Nobody =>
                             assignments'[c].by \in Existing' /\ assignments'[assignments'[c].by].of = c
                        /\ assignments'[c].of # Nobody => assignments'[assignments'[c].of].by = c
      BY DEF Linked
    <3>1. /\ assignments[c].by # Nobody <=> assignments[c].status = "superseded"
          /\ assignments[c].by # Nobody =>
               assignments[c].by \in Existing /\ assignments[assignments[c].by].of = c
          /\ assignments[c].of # Nobody =>
               assignments[c].of \in Assignments /\ assignments[assignments[c].of].by = c
      BY <1>0, <1>a DEF Linked, AssignmentRecords
    <3>2. Existing \subseteq Assignments
      BY DEF Existing
    <3> QED
      BY <2>1, <3>1, <3>2
  <2>3. Superseded' = Superseded
    BY <2>1 DEF Superseded
  <2>4. LeadsOut'
    BY <1>0, <2>1, <2>3 DEF LeadsOut, Superseded
  <2> QED
    BY <2>2, <2>4 DEF SupersessionSound
<1>3. ASSUME NEW a \in Assignments, NEW b \in Assignments, Supersede(a, b) PROVE SupersessionSound'
  <2>1. Linked'
    <3> SUFFICES ASSUME NEW c \in Assignments
                 PROVE  /\ assignments'[c].by # Nobody <=> assignments'[c].status = "superseded"
                        /\ assignments'[c].by # Nobody =>
                             assignments'[c].by \in Existing' /\ assignments'[assignments'[c].by].of = c
                        /\ assignments'[c].of # Nobody => assignments'[assignments'[c].of].by = c
      BY DEF Linked
    <3>1. /\ assignments[c].by # Nobody <=> assignments[c].status = "superseded"
          /\ assignments[c].by # Nobody =>
               /\ assignments[c].by \in Assignments /\ assignments[c].by \in Existing
               /\ assignments[assignments[c].by].of = c
          /\ assignments[c].of # Nobody =>
               assignments[c].of \in Assignments /\ assignments[assignments[c].of].by = c
      BY <1>0, <1>a DEF Linked, AssignmentRecords, Existing
    <3>2. Existing \subseteq Existing' /\ b \in Existing'
      BY <1>3, Superseding DEF Existing
    <3>3. CASE c = a
      BY <1>3, <3>1, <3>2, <3>3, Superseding, Constants
    <3>4. CASE c = b
      BY <1>3, <3>1, <3>2, <3>4, Superseding, Constants
    <3>5. CASE c \notin {a, b}
      BY <1>3, <3>1, <3>2, <3>5, Superseding, Constants
    <3> QED
      BY <3>3, <3>4, <3>5
  <2>2. Superseded' = Superseded \cup {a}
    BY <1>3, Superseding DEF Superseded
  <2>3. LeadsOut'
    <3> SUFFICES ASSUME NEW S \in SUBSET Superseded', S # {}
                 PROVE  \E c \in S : assignments'[c].by \notin S
      BY DEF LeadsOut
    <3>1. CASE a \in S
      <4>1. b \notin Superseded'
        BY <1>3, <2>2, Superseding DEF Superseded
      <4> QED
        BY <1>3, <3>1, <4>1, Superseding
    <3>2. CASE a \notin S
      <4>1. PICK c \in S : assignments[c].by \notin S
        BY <1>0, <2>2, <3>2 DEF LeadsOut
      <4>2. c \in Superseded /\ c \notin {a, b}
        BY <1>3, <2>2, <3>2, Superseding DEF Superseded
      <4> QED
        BY <1>3, <4>1, <4>2, Superseding DEF Superseded
    <3> QED
      BY <3>1, <3>2
  <2> QED
    BY <2>1, <2>3 DEF SupersessionSound
<1> QED
  BY <1>0, <1>1, <1>2, <1>3, WorkKinds

(* Supersessions are recorded on both sides and never form a cycle. *)
THEOREM Supersession == Spec => []SupersessionSound
<1>1. Init => SupersessionSound
  BY Constants DEF Init, Assignment, SupersessionSound, Linked, LeadsOut, Superseded, Existing
<1> QED
  BY <1>1, SupersessionStep, TypeCorrect, PTL DEF Spec

(***************************************************************************)
(* Completion.                                                             *)
(***************************************************************************)

(* What the completion predicate has found.                                *)
CompletedInv ==
    intent.state = "complete" =>
        Existing # {} /\ Resolved /\ Passed(intent) /\ Accepted(intent) /\ ~intent.blockers

(* Only completeIntent completes an Intent. *)
LEMMA OnlyComplete ==
    ASSUME TypeOK, [Next]_vars, intent.state # "complete", intent'.state = "complete"
    PROVE  Complete
<1>0. intent \in IntentRecords
  BY DEF TypeOK
<1>1. ASSUME NEW target \in Suspensions PROVE ~Block(target)
  BY <1>0, Constants DEF Block, WriteIntent, Write, IntentRecords, Suspended
<1>2. ASSUME NEW target \in Running PROVE ~Transition(target)
  BY <1>0 DEF Transition, WriteIntent, Write, IntentRecords, Running
<1>3. ~Abandon
  BY <1>0 DEF Abandon, WriteIntent, Write, IntentRecords
<1>4. ASSUME NEW v, NEW r, NEW declared, NEW clear, NEW items
      PROVE  ~RecordEvidence(v, r, declared, clear, items)
  BY <1>0 DEF RecordEvidence, Write, IntentRecords
<1>5. ~Integrate
  BY <1>0 DEF Integrate, WriteIntent, Write, IntentRecords
<1>6. ASSUME NEW questions \in Questions PROVE ~RevisePlan(questions)
  BY <1>0, WithdrawType DEF RevisePlan, WriteIntent, Write, IntentRecords
<1>7. ASSUME NEW a \in Assignments, NEW capability, NEW outcome, NEW scope, NEW baseline \in Baselines,
             NEW report
      PROVE  ~Record(a, capability, outcome, scope, baseline, report)
  BY AfterResultType DEF Record, Write, TypeOK, IntentType
<1>8. ASSUME NEW a \in Assignments, NEW b \in Assignments PROVE ~Supersede(a, b)
  <2>1. Withdraw(intent) \in IntentRecords /\ Withdraw(intent).state = intent.state
    BY <1>0, WithdrawType
  <2>2. AfterSupersession(intent).state \in {"executing", intent.state}
    BY <2>1 DEF AfterSupersession, IntentRecords
  <2> QED
    BY <2>2 DEF Supersede, Write
<1>9. ASSUME NEW a \in Assignments PROVE ~Work(a)
  <2>1. ASSUME NEW scope, NEW outcome, NEW declared, NEW capability, NEW report
        PROVE  ~Result(a, capability, outcome, scope, declared, report)
    <3>1. (IF Integrated THEN intent.baseline.integrated ELSE NoCommit)
            \in (0..MaxCommits) \cup {NoCommit}
      BY <1>0 DEF IntentRecords, Baselines
    <3>2. Baseline(IF Integrated THEN intent.baseline.integrated ELSE NoCommit) \in Baselines
      BY <3>1, BaselineType DEF TypeOK, RepoType
    <3> QED
      BY <1>7, <3>2 DEF Result
  <2>2. ASSUME NEW capability PROVE ~Recover(a, capability)
    BY <1>0, <1>7 DEF Recover, IntentRecords
  <2>3. ASSUME NEW scope PROVE ~CreateAssignment(a, scope) /\ ~ReviseScope(a, scope) /\ ~Start(a, scope)
    BY DEF CreateAssignment, ReviseScope, Start, WriteAssignment, Write
  <2> QED
    BY <1>8, <2>1, <2>2, <2>3 DEF Work
<1>10. ~Repository
  BY DEF Repository, Edit, Commit
<1>11. Lifecycle
  BY <1>9, <1>10 DEF Next, vars
<1> QED
  BY <1>1, <1>2, <1>3, <1>4, <1>5, <1>6, <1>11 DEF Lifecycle

(* What the completion predicate has found stays true. *)
LEMMA CompletedStep ==
    ASSUME TypeOK, CompletedInv, [Next]_vars
    PROVE  CompletedInv'
<1>1. CASE intent'.state # "complete"
  BY <1>1 DEF CompletedInv
<1>2. CASE intent.state = "complete" /\ intent'.state = "complete"
  <2>1. UNCHANGED <<intent, assignments>>
    BY <1>2, FrozenStep DEF Terminal
  <2> QED
    BY <2>1 DEF CompletedInv, Resolved, Existing, Passed, Accepted
<1>3. CASE intent.state # "complete" /\ intent'.state = "complete"
  <2>1. Complete
    BY <1>3, OnlyComplete
  <2>2. /\ intent' = [intent EXCEPT !.state = "complete"]
        /\ UNCHANGED assignments
    BY <2>1 DEF Complete, WriteIntent, Write
  <2>3. Existing # {} /\ Resolved /\ Passed(intent) /\ Accepted(intent) /\ ~intent.blockers
    BY <2>1 DEF Complete
  <2>4. Passed(intent') /\ Accepted(intent') /\ ~intent'.blockers
    BY <2>2, <2>3 DEF TypeOK, IntentRecords, Passed, Accepted
  <2> QED
    BY <2>2, <2>3, <2>4 DEF CompletedInv, Resolved, Existing, Passed, Accepted
<1> QED
  BY <1>1, <1>2, <1>3

(* If all Assignments are finished and there are any, one is completed:    *)
(* replacements lead out of the superseded ones.                           *)
LEMMA CompletionFollows ==
    ASSUME TypeOK, SupersessionSound, CompletedInv
    PROVE  CompletionSound
<1> SUFFICES ASSUME intent.state = "complete"
             PROVE  /\ \A a \in Existing : assignments[a].status \in Finished
                    /\ \E a \in Existing : assignments[a].status = "completed"
                    /\ Passed(intent) /\ Accepted(intent)
                    /\ ~intent.blockers
  BY DEF CompletionSound
<1>1. Existing # {} /\ Resolved /\ Passed(intent) /\ Accepted(intent) /\ ~intent.blockers
  BY DEF CompletedInv
<1>2. \E a \in Existing : assignments[a].status = "completed"
  <2> SUFFICES ASSUME \A a \in Existing : assignments[a].status # "completed"
               PROVE  FALSE
    OBVIOUS
  <2>1. Superseded = Existing
    BY <1>1 DEF Resolved, Finished, Superseded, Existing
  <2>2. PICK a \in Superseded : assignments[a].by \notin Superseded
    BY <1>1, <2>1 DEF SupersessionSound, LeadsOut
  <2>3. assignments[a].by \in Existing
    BY <2>2 DEF SupersessionSound, Linked, Superseded
  <2> QED
    BY <2>1, <2>2, <2>3
<1> QED
  BY <1>1, <1>2 DEF Resolved

(* A completed Intent stands on completed work and stays completed.        *)
THEOREM Completion == Spec => []CompletionSound
<1>1. Init => CompletedInv
  BY DEF Init, CompletedInv
<1>2. Spec => []CompletedInv
  BY <1>1, CompletedStep, TypeCorrect, PTL DEF Spec
<1> QED
  BY <1>2, CompletionFollows, TypeCorrect, Supersession, PTL

(***************************************************************************)
(* The baseline.                                                           *)
(***************************************************************************)

(* The integrated commit a result leaves in the baseline. *)
Survivor == IF Integrated THEN intent.baseline.integrated ELSE NoCommit

(* A result that does more than leave the baseline as it was. *)
Rebased ==
    \E a \in Assignments, scope \in Scopes :
        /\ assignments[a].status = "executing"
        /\ assignments'[a].scope = scope
        /\ \E outcome \in Outcomes, declared \in SUBSET scope :
             /\ Explained(a, declared)
             /\ intent' = AfterResult(a, outcome, Baseline(Survivor))
        /\ intent'.baseline = Baseline(Survivor)
        /\ UNCHANGED repo

(* A step leaves the baseline alone, integrates a commit, or rebases it. *)
LEMMA BaselineKinds ==
    ASSUME TypeOK, [Next]_vars
    PROVE  \/ intent'.baseline = intent.baseline
           \/ Integrate
           \/ Rebased
<1>0. intent \in IntentRecords
  BY DEF TypeOK
<1>1. ASSUME NEW target, Block(target) \/ Transition(target) \/ Abandon \/ Complete
      PROVE  intent'.baseline = intent.baseline
  BY <1>0, <1>1 DEF Block, Transition, Abandon, Complete, WriteIntent, Write, IntentRecords
<1>2. ASSUME NEW v, NEW r, NEW declared, NEW clear, NEW items,
             RecordEvidence(v, r, declared, clear, items)
      PROVE  intent'.baseline = intent.baseline
  BY <1>0, <1>2 DEF RecordEvidence, Write, IntentRecords
<1>3. ASSUME NEW questions, RevisePlan(questions) PROVE intent'.baseline = intent.baseline
  BY <1>0, <1>3, WithdrawType DEF RevisePlan, WriteIntent, Write, IntentRecords
<1>4. Lifecycle => intent'.baseline = intent.baseline \/ Integrate
  BY <1>1, <1>2, <1>3 DEF Lifecycle
<1>5. ASSUME NEW a \in Assignments, NEW scope \in Scopes, NEW outcome \in Outcomes,
             NEW declared \in SUBSET scope, NEW capability, NEW report,
             Result(a, capability, outcome, scope, declared, report)
      PROVE  Rebased
  <2>1. Survivor \in (0..MaxCommits) \cup {NoCommit}
    BY <1>0 DEF Survivor, IntentRecords, Baselines
  <2>2. Baseline(Survivor) \in Baselines
    BY <2>1, BaselineType DEF TypeOK, RepoType
  <2>3. /\ assignments[a].status = "executing"
        /\ intent' = AfterResult(a, outcome, Baseline(Survivor))
        /\ Explained(a, declared)
        /\ UNCHANGED repo
    BY <1>5 DEF Result, Record, Write, Survivor
  <2>4. intent'.baseline = Baseline(Survivor)
    BY <2>2, <2>3, AfterResultType DEF TypeOK, IntentType
  <2>5. assignments'[a].scope = scope
    <3>1. assignments' = [assignments EXCEPT
                            ![a] = Reported(a, capability, outcome, scope, report)]
      BY <1>5 DEF Result, Record, Write
    <3>2. assignments \in [Assignments -> AssignmentRecords]
      BY DEF TypeOK
    <3> QED
      BY <3>1, <3>2, ReportedFields
  <2> QED
    BY <2>3, <2>4, <2>5 DEF Rebased
<1>6. ASSUME NEW a \in Assignments, NEW capability, Recover(a, capability)
      PROVE  intent'.baseline = intent.baseline
  <2>1. intent.baseline \in Baselines
    BY <1>0 DEF IntentRecords
  <2> QED
    BY <1>6, <2>1, AfterResultType DEF Recover, Record, Write, TypeOK, IntentType
<1>7. ASSUME NEW a, NEW b, Supersede(a, b) PROVE intent'.baseline = intent.baseline
  <2>1. Withdraw(intent) \in IntentRecords /\ Withdraw(intent).baseline = intent.baseline
    BY <1>0, WithdrawType
  <2>2. AfterSupersession(intent).baseline = intent.baseline
    BY <2>1 DEF AfterSupersession, IntentRecords
  <2> QED
    BY <1>7, <2>2 DEF Supersede, Write
<1>8. ASSUME NEW a, NEW scope, CreateAssignment(a, scope) \/ ReviseScope(a, scope) \/ Start(a, scope)
      PROVE  intent'.baseline = intent.baseline
  BY <1>8 DEF CreateAssignment, ReviseScope, Start, WriteAssignment, Write
<1>9. ASSUME NEW a \in Assignments, Work(a)
      PROVE  intent'.baseline = intent.baseline \/ Rebased
  BY <1>5, <1>6, <1>7, <1>8, <1>9 DEF Work
<1>10. Repository => intent'.baseline = intent.baseline
  BY DEF Repository, Edit, Commit
<1> QED
  BY <1>4, <1>9, <1>10 DEF Next, vars

(* Integration and results leave an integrated commit only at a clean HEAD. *)
LEMMA IntegratedStep ==
    ASSUME TypeOK, IntegratedBaseline, [Next]_vars
    PROVE  IntegratedBaseline'
<1>1. CASE intent'.baseline = intent.baseline
  BY <1>1 DEF IntegratedBaseline, Changed
<1>2. CASE Integrate
  <2>1. intent'.baseline = Baseline(head) /\ Changed(Status) = {}
    BY <1>2 DEF Integrate, WriteIntent, Write, TypeOK, IntentRecords
  <2> QED
    BY <2>1 DEF IntegratedBaseline, Baseline, Changed
<1>3. CASE Rebased
  <2>1. intent'.baseline = Baseline(Survivor)
    BY <1>3 DEF Rebased
  <2> QED
    BY <2>1 DEF IntegratedBaseline, Baseline, Changed, Survivor, Integrated
<1> QED
  BY <1>1, <1>2, <1>3, BaselineKinds

(* An integrated commit is the expected HEAD of a clean worktree. *)
THEOREM IntegratedIsHead == Spec => []IntegratedBaseline
<1>1. Init => IntegratedBaseline
  BY DEF Init, IntegratedBaseline, Baseline
<1> QED
  BY <1>1, IntegratedStep, TypeCorrect, PTL DEF Spec

(* A path new in the baseline was explained by a result. *)
LEMMA AttributedStep ==
    ASSUME TypeOK, [Next]_vars, NEW p \in Changed(intent'.baseline.status),
           p \notin Changed(intent.baseline.status)
    PROVE  \E a \in Assignments :
             /\ assignments[a].status = "executing"
             /\ p \in assignments[a].scope \cup assignments'[a].scope
<1>1. CASE intent'.baseline = intent.baseline
  BY <1>1
<1>2. CASE Integrate
  <2>1. intent'.baseline = Baseline(head) /\ Changed(Status) = {}
    BY <1>2 DEF Integrate, WriteIntent, Write, TypeOK, IntentRecords
  <2> QED
    BY <2>1 DEF Baseline, Changed
<1>3. CASE Rebased
  <2>1. PICK a \in Assignments, scope \in Scopes :
          /\ assignments[a].status = "executing"
          /\ assignments'[a].scope = scope
          /\ \E outcome \in Outcomes, declared \in SUBSET scope :
               /\ Explained(a, declared)
               /\ intent' = AfterResult(a, outcome, Baseline(Survivor))
          /\ intent'.baseline = Baseline(Survivor)
          /\ UNCHANGED repo
    BY <1>3 DEF Rebased
  <2>2. PICK declared \in SUBSET scope : Explained(a, declared)
    BY <2>1
  <2>3. p \in Changed(Status)
    BY <2>1 DEF Baseline
  <2>4. p \in declared \/ p \in Concurrent(a)
    BY <2>2, <2>3 DEF Explained
  <2> QED
    BY <2>1, <2>4 DEF Concurrent
<1> QED
  BY <1>1, <1>2, <1>3, BaselineKinds

(* No change of the repository is taken for work but from the scope of an  *)
(* executing Assignment.                                                   *)
THEOREM Attribution == Spec => BaselineAttributed
<1>1. TypeOK /\ [Next]_vars =>
        [\A p \in Changed(intent'.baseline.status) \ Changed(intent.baseline.status) :
           \E a \in Assignments :
              /\ assignments[a].status = "executing"
              /\ p \in assignments[a].scope \cup assignments'[a].scope]_vars
  BY AttributedStep
<1> QED
  BY <1>1, TypeCorrect, PTL DEF Spec, BaselineAttributed

(***************************************************************************)
(* Invocations.                                                            *)
(***************************************************************************)

(* The log of an Assignment holds 1, 2, ... up to the last result. *)
LEMMA AppendNext ==
    ASSUME NEW k \in Nat \ {0}
    PROVE  Append([n \in 1..k - 1 |-> n], k) = [n \in 1..k |-> n]
<1> DEFINE s == [n \in 1..k - 1 |-> n]
<1>1. s \in Seq(Nat) /\ Len(s) = k - 1
  OBVIOUS
<1>2. Append(s, k) = [n \in 1..Len(s) + 1 |-> IF n = Len(s) + 1 THEN k ELSE s[n]]
  BY <1>1
<1> QED
  BY <1>1, <1>2

Accounted(r) ==
    LET recorded == IF r.status = "executing" THEN r.issued - 1 ELSE r.issued
    IN  /\ r.log = [n \in 1..recorded |-> n]
        /\ r.active = IF r.status = "executing" THEN r.issued ELSE Unstarted

(* A running Assignment has been started. *)
InvocationsInv ==
    \A a \in Assignments : /\ Accounted(assignments[a])
                           /\ assignments[a].status = "executing" => assignments[a].issued > 0

(* Every operation on an Assignment keeps its account. *)
LEMMA InvocationsStep ==
    ASSUME TypeOK, InvocationsInv, [Next]_vars
    PROVE  InvocationsInv'
<1> USE DEF Unstarted
<1>0. assignments \in [Assignments -> AssignmentRecords]
  BY DEF TypeOK
<1>1. CASE UNCHANGED assignments
  BY <1>1 DEF InvocationsInv
<1>2. ASSUME NEW a \in Assignments, NEW r,
             assignments' = [assignments EXCEPT ![a] = r],
             Accounted(r), r.status = "executing" => r.issued > 0
      PROVE  InvocationsInv'
  BY <1>0, <1>2 DEF InvocationsInv
<1>3. ASSUME NEW a \in Assignments, NEW scope, CreateAssignment(a, scope) PROVE InvocationsInv'
  <2>1. Accounted(Assignment("pending", scope)) /\ Assignment("pending", scope).status = "pending"
    BY DEF Accounted, Assignment
  <2> QED
    BY <1>2, <1>3, <2>1 DEF CreateAssignment, WriteAssignment, Write
<1>4. ASSUME NEW a \in Assignments, NEW scope, ReviseScope(a, scope) PROVE InvocationsInv'
  <2> DEFINE r == [assignments[a] EXCEPT !.scope = scope]
  <2>1. r.status = assignments[a].status /\ r.issued = assignments[a].issued
        /\ r.active = assignments[a].active /\ r.log = assignments[a].log
    BY <1>0 DEF AssignmentRecords
  <2>2. Accounted(r) /\ (r.status = "executing" => r.issued > 0)
    BY <2>1 DEF InvocationsInv, Accounted
  <2> QED
    BY <1>2, <1>4, <2>2 DEF ReviseScope, WriteAssignment, Write
<1>5. ASSUME NEW a \in Assignments, NEW scope, Start(a, scope) PROVE InvocationsInv'
  <2> DEFINE r == [assignments[a] EXCEPT !.status = "executing", !.scope = scope,
                                         !.issued = @ + 1, !.blocker = FALSE,
                                         !.active = assignments[a].issued + 1]
  <2>1. /\ r.status = "executing" /\ r.issued = assignments[a].issued + 1
        /\ r.active = assignments[a].issued + 1 /\ r.log = assignments[a].log
        /\ assignments[a].issued \in Nat
    BY <1>0, Constants DEF AssignmentRecords
  <2>2. assignments[a].status # "executing" /\ assignments' = [assignments EXCEPT ![a] = r]
    BY <1>5 DEF Start, WriteAssignment, Write
  <2>3. Accounted(r) /\ r.issued > 0
    <3> HIDE DEF r
    <3>1. assignments[a].log = [n \in 1..assignments[a].issued |-> n]
      BY <2>2 DEF InvocationsInv, Accounted
    <3>2. r.issued - 1 = assignments[a].issued
      BY <2>1
    <3> QED
      BY <2>1, <3>1, <3>2 DEF Accounted
  <2> QED
    BY <1>2, <2>1, <2>2, <2>3
<1>6. ASSUME NEW a \in Assignments, NEW capability, NEW outcome \in Outcomes, NEW scope, NEW baseline,
             NEW report, Record(a, capability, outcome, scope, baseline, report)
      PROVE  InvocationsInv'
  <2> DEFINE r == Reported(a, capability, outcome, scope, report)
  <2>1. /\ r.status = outcome /\ r.issued = assignments[a].issued /\ r.active = Unstarted
        /\ r.log = Append(assignments[a].log, capability)
        /\ assignments[a].issued \in Nat
    BY <1>0, ReportedFields, Constants DEF AssignmentRecords
  <2>2. /\ assignments[a].status = "executing" /\ capability = assignments[a].active
        /\ assignments' = [assignments EXCEPT ![a] = r]
    BY <1>6 DEF Record, Write
  <2>3. /\ assignments[a].issued > 0 /\ capability = assignments[a].issued
        /\ assignments[a].log = [n \in 1..assignments[a].issued - 1 |-> n]
    BY <2>2 DEF InvocationsInv, Accounted
  <2>4. Append(assignments[a].log, capability) = [n \in 1..assignments[a].issued |-> n]
    BY <2>1, <2>3, AppendNext
  <2>5. outcome # "executing"
    BY DEF Outcomes
  <2> HIDE DEF r
  <2>6. Accounted(r)
    BY <2>1, <2>4, <2>5 DEF Accounted
  <2> QED
    BY <1>2, <2>1, <2>2, <2>5, <2>6
<1>7. ASSUME NEW a \in Assignments, NEW b \in Assignments, Supersede(a, b) PROVE InvocationsInv'
  <2>1. /\ a # b
        /\ assignments[a].status # "executing"
        /\ assignments[b].status # "executing"
        /\ assignments' = [assignments EXCEPT
                             ![a].status = "superseded", ![a].by = b, ![a].reason = a,
                             ![a].active = Unstarted, ![a].blocker = FALSE,
                             ![b].of = a, ![b].reason = a]
    BY <1>7 DEF Supersede, Replacement, Finished, Write
  <2>2. /\ assignments'[a].status = "superseded" /\ assignments'[a].active = Unstarted
        /\ assignments'[a].issued = assignments[a].issued
        /\ assignments'[a].log = assignments[a].log
    BY <1>0, <2>1 DEF AssignmentRecords
  <2>3. /\ assignments'[b].status = assignments[b].status
        /\ assignments'[b].active = assignments[b].active
        /\ assignments'[b].issued = assignments[b].issued
        /\ assignments'[b].log = assignments[b].log
    BY <1>0, <2>1 DEF AssignmentRecords
  <2>4. \A c \in Assignments \ {a, b} : assignments'[c] = assignments[c]
    BY <1>0, <2>1
  <2>5. Accounted(assignments'[a]) /\ assignments'[a].status # "executing"
    BY <2>1, <2>2 DEF InvocationsInv, Accounted
  <2>6. Accounted(assignments'[b]) /\ assignments'[b].status # "executing"
    BY <2>1, <2>3 DEF InvocationsInv, Accounted
  <2> QED
    BY <2>4, <2>5, <2>6 DEF InvocationsInv
<1>8. ASSUME NEW a \in Assignments, Work(a) PROVE InvocationsInv'
  BY <1>3, <1>4, <1>5, <1>6, <1>7, <1>8 DEF Work, Result, Recover, Outcomes
<1>9. Lifecycle \/ Repository => UNCHANGED assignments
  BY DEF Lifecycle, Block, Transition, Abandon, RecordEvidence, Integrate, RevisePlan, Complete,
         WriteIntent, Write, Repository, Edit, Commit
<1> QED
  BY <1>1, <1>8, <1>9 DEF Next, vars

(* No Assignment exists, none has been started. *)
LEMMA InvocationsInit == Init => InvocationsInv
<1>1. <<>> = [n \in 1..0 |-> n]
  OBVIOUS
<1>2. Accounted(Assignment("absent", {})) /\ Assignment("absent", {}).status = "absent"
  BY <1>1 DEF Accounted, Assignment, Unstarted
<1> QED
  BY <1>2 DEF Init, InvocationsInv

(* Each invocation started is settled by exactly one result, in order. *)
THEOREM InvocationsSettled == Spec => []InvocationsAccounted
<1>1. InvocationsInv => InvocationsAccounted
  BY DEF InvocationsInv, Accounted, InvocationsAccounted
<1> QED
  BY InvocationsInit, <1>1, InvocationsStep, TypeCorrect, PTL DEF Spec

(***************************************************************************)
(* Evidence.                                                               *)
(***************************************************************************)

(* The paths that differed from their commit when the gate was granted. *)
Differing(g) == {p \in Paths : proof[g].text[p] # trees[proof[g].head][p]}

(* The baseline stands for what the gate was granted on: it is that change, *)
(* uncommitted, or a clean worktree whose commits amount to it.             *)
Founded(g) ==
    /\ proof[g] \in [head : 0..head, text : Tree]
    /\ \/ /\ intent.baseline.head = proof[g].head
          /\ Changed(intent.baseline.status) = Differing(g)
       \/ /\ Changed(intent.baseline.status) = {}
          /\ Committed(proof[g].head, intent.baseline.head) = Differing(g)

EvidenceInv ==
    /\ intent.baseline.head \in 0..head
    /\ \A g \in Gates : Granted(intent, g) => Founded(g)

(* The gate was granted before the step, on what is still on record. *)
Kept(g) == Granted(intent', g) => Granted(intent, g) /\ proof'[g] = proof[g]

(* A snapshot shows the paths whose contents are not those of HEAD. *)
LEMMA StatusShows == Changed(Status) = {p \in Paths : text[p] # trees[head][p]}
BY DEF Changed, Status, Letter

(* Without drift, what founds a gate is what the repository holds. *)
LEMMA EvidenceFollows ==
    ASSUME TypeOK, EvidenceInv
    PROVE  EvidenceCovers
<1> SUFFICES ASSUME NEW g \in Gates, Granted(intent, g), NoDrift({})
             PROVE  {p \in Paths : text[p] # trees[proof[g].head][p]} = Differing(g)
  BY DEF EvidenceCovers, Differing
<1>1. head = intent.baseline.head /\ Changed(intent.baseline.status) = Changed(Status)
  BY DEF NoDrift
<1>2. Founded(g)
  BY DEF EvidenceInv
<1>3. CASE intent.baseline.head = proof[g].head /\ Changed(intent.baseline.status) = Differing(g)
  BY <1>1, <1>3, StatusShows
<1>4. CASE /\ Changed(intent.baseline.status) = {}
           /\ Committed(proof[g].head, intent.baseline.head) = Differing(g)
  BY <1>1, <1>4, StatusShows DEF Committed
<1> QED
  BY <1>2, <1>3, <1>4 DEF Founded

(* A gate that survives a step with its baseline stays founded. *)
LEMMA KeptFounded ==
    ASSUME EvidenceInv, NEW g \in Gates, Kept(g), Granted(intent', g), UNCHANGED repo,
           intent'.baseline = intent.baseline
    PROVE  Founded(g)'
BY DEF EvidenceInv, Kept, Founded, Differing, Committed, Changed, repo

(* What a verdict does to the gates. *)
LEMMA EvidenceRecorded ==
    ASSUME TypeOK, EvidenceInv, NEW v, NEW r, NEW declared, NEW clear, NEW items,
           RecordEvidence(v, r, declared, clear, items)
    PROVE  EvidenceInv'
<1> DEFINE granted == (IF v = "passed" THEN {"verification"} ELSE {})
                        \cup (IF r = "accepted" THEN {"review"} ELSE {})
<1>1. /\ intent'.baseline = intent.baseline
      /\ intent'.verification = IF v = None THEN intent.verification ELSE v
      /\ intent'.review = IF r = None THEN intent.review ELSE r
      /\ UNCHANGED repo
  BY DEF RecordEvidence, Write, TypeOK, IntentRecords
<1>2. \A g \in Gates : proof'[g] = IF g \in granted THEN [head |-> head, text |-> text]
                                   ELSE IF Granted(intent', g) THEN proof[g] ELSE None
  BY DEF RecordEvidence, Witness
<1>3. ASSUME NEW g \in Gates, g \in granted PROVE Founded(g)'
  <2>1. NoDrift({})
    BY <1>3, WorkStateAssumption DEF RecordEvidence
  <2>2. head = intent.baseline.head /\ Changed(intent.baseline.status) = Changed(Status)
    BY <2>1 DEF NoDrift
  <2>3. proof'[g] = [head |-> head, text |-> text]
    BY <1>2, <1>3
  <2>4. proof'[g] \in [head : 0..head, text : Tree]
    BY <2>3 DEF TypeOK
  <2>5. Differing(g)' = Changed(Status)
    BY <1>1, <2>3, StatusShows DEF Differing, repo
  <2> QED
    BY <1>1, <2>2, <2>3, <2>4, <2>5 DEF Founded, Changed, repo
<1>4. ASSUME NEW g \in Gates, g \notin granted, Granted(intent', g) PROVE Founded(g)'
  <2>1. Granted(intent, g)
    BY <1>1, <1>4 DEF Granted, Gates
  <2>2. proof'[g] = proof[g]
    BY <1>2, <1>4
  <2> QED
    BY <1>1, <1>4, <2>1, <2>2, KeptFounded DEF Kept
<1> QED
  BY <1>1, <1>3, <1>4 DEF EvidenceInv, repo

(* The commit of exactly the changes in the baseline takes their place. *)
LEMMA EvidenceIntegrated ==
    ASSUME TypeOK, EvidenceInv, Integrate
    PROVE  EvidenceInv'
<1>1. /\ intent' = [intent EXCEPT !.baseline = Baseline(head), !.noted = TRUE]
      /\ Changed(Status) = {}
      /\ Committed(intent.baseline.head, head) = Changed(intent.baseline.status)
      /\ UNCHANGED repo
      /\ Witness({})
  BY DEF Integrate, WriteIntent, Write
<1>2. /\ intent'.baseline.head = head /\ Changed(intent'.baseline.status) = {}
      /\ \A g \in Gates : Granted(intent', g) <=> Granted(intent, g)
  BY <1>1 DEF Baseline, TypeOK, IntentRecords, Granted, Changed
<1>3. ASSUME NEW g \in Gates, Granted(intent', g) PROVE Founded(g)'
  <2>1. Founded(g) /\ proof'[g] = proof[g]
    BY <1>1, <1>2, <1>3 DEF EvidenceInv, Witness
  <2>2. Committed(proof[g].head, head) = Differing(g)
    <3>1. CASE intent.baseline.head = proof[g].head /\ Changed(intent.baseline.status) = Differing(g)
      BY <1>1, <3>1
    <3>2. CASE /\ Changed(intent.baseline.status) = {}
               /\ Committed(proof[g].head, intent.baseline.head) = Differing(g)
      <4>1. \A p \in Paths : trees[intent.baseline.head][p] = trees[head][p]
        BY <1>1, <3>2 DEF Committed
      <4> QED
        BY <3>2, <4>1 DEF Committed
    <3> QED
      BY <2>1, <3>1, <3>2 DEF Founded
  <2> QED
    BY <1>1, <1>2, <2>1, <2>2 DEF Founded, Differing, Committed, repo
<1>4. intent'.baseline.head \in 0..head'
  BY <1>1, <1>2 DEF repo, TypeOK
<1> QED
  BY <1>3, <1>4 DEF EvidenceInv

(* A result keeps a gate only if the repository is as the baseline says. *)
LEMMA EvidenceRebased ==
    ASSUME TypeOK, EvidenceInv, IntegratedBaseline, NEW a \in Assignments, NEW capability,
           NEW outcome, NEW scope, NEW report,
           Record(a, capability, outcome, scope, Baseline(Survivor), report)
    PROVE  EvidenceInv'
<1> DEFINE i == [intent EXCEPT !.baseline = Baseline(Survivor)]
<1>0. intent \in IntentRecords
  BY DEF TypeOK
<1>1. Baseline(Survivor) \in Baselines
  <2>1. Survivor \in (0..MaxCommits) \cup {NoCommit}
    BY <1>0 DEF Survivor, IntentRecords, Baselines
  <2> QED
    BY <2>1, BaselineType DEF TypeOK, RepoType
<1>2. /\ intent' = AfterResult(a, outcome, Baseline(Survivor))
      /\ UNCHANGED repo
      /\ Witness({})
  BY DEF Record, Write
<1>3. intent'.baseline = Baseline(Survivor)
  BY <1>1, <1>2, AfterResultType DEF TypeOK, IntentType
<1>4. /\ i \in IntentRecords
      /\ \A g \in Gates : Granted(i, g) <=> Granted(intent, g)
  BY <1>0, <1>1 DEF IntentRecords, Granted
<1>5. ASSUME NEW g \in Gates, Granted(intent', g)
      PROVE  /\ SuccessfulOperations(a, outcome) \/ ~Evolved
             /\ Granted(intent, g)
  <2>1. ~Granted(Withdraw(i), g)
    BY <1>4, WithdrawType
  <2>2. ~Granted([Withdraw(i) EXCEPT !.state = "executing"], g)
    <3>1. Withdraw(i) \in IntentRecords
      BY <1>4, WithdrawType
    <3> QED
      BY <2>1, <3>1 DEF Granted, IntentRecords
  <2>3. intent' = IF SuccessfulOperations(a, outcome) \/ ~(Evolved \/ outcome = "failed")
                    THEN i
                    ELSE IF a \in Operations /\ outcome = "failed"
                           THEN [Withdraw(i) EXCEPT !.state = "executing"]
                           ELSE Withdraw(i)
    BY <1>2 DEF AfterResult
  <2> HIDE DEF i
  <2> QED
    BY <1>4, <1>5, <2>1, <2>2, <2>3
<1>6. ASSUME NEW g \in Gates, Granted(intent', g) PROVE Founded(g)'
  <2>1. Founded(g) /\ proof'[g] = proof[g]
    BY <1>2, <1>5, <1>6 DEF EvidenceInv, Witness
  <2>2. /\ intent'.baseline.head = intent.baseline.head
        /\ Changed(intent'.baseline.status) = Changed(intent.baseline.status)
    <3>1. CASE ~Evolved
      BY <1>3, <3>1 DEF Evolved, Baseline
    <3>2. CASE SuccessfulOperations(a, outcome)
      <4>1. Integrated
        BY <3>2 DEF SuccessfulOperations
      <4>2. Changed(Status) = {} /\ head = intent.baseline.head
            /\ intent.baseline.integrated = intent.baseline.head
        BY <4>1 DEF Integrated
      <4>3. intent.baseline.integrated # NoCommit
        BY <1>0, <4>2 DEF IntentRecords, Baselines, NoCommit
      <4>4. Changed(intent.baseline.status) = {}
        BY <4>3 DEF IntegratedBaseline
      <4> QED
        BY <1>3, <4>2, <4>4 DEF Baseline
    <3> QED
      BY <1>5, <1>6, <3>1, <3>2
  <2> QED
    BY <1>2, <2>1, <2>2 DEF Founded, Differing, Committed, repo
<1>7. intent'.baseline.head \in 0..head'
  BY <1>2, <1>3 DEF Baseline, repo, TypeOK
<1> QED
  BY <1>6, <1>7 DEF EvidenceInv

(* The repository moves on; the commits there were stay. *)
LEMMA EvidenceOutlasts ==
    ASSUME TypeOK, EvidenceInv, Repository
    PROVE  EvidenceInv'
<1>1. UNCHANGED <<intent, proof>>
  BY DEF Repository, Edit, Commit
<1>2. head' \in Nat /\ head <= head' /\ \A c \in 0..head : trees'[c] = trees[c]
  BY DEF Repository, Edit, Commit, TypeOK
<1>3. head \in Nat /\ intent.baseline.head \in 0..head
  BY DEF TypeOK, EvidenceInv
<1>4. ASSUME NEW g \in Gates, Granted(intent', g) PROVE Founded(g)'
  <2>1. Founded(g)
    BY <1>1, <1>4 DEF EvidenceInv
  <2>2. proof[g].head \in 0..head /\ proof[g].text \in Tree
    BY <2>1 DEF Founded
  <2>3. proof'[g] \in [head : 0..head', text : Tree]
    <3>1. proof[g] \in [head : 0..head, text : Tree]
      BY <2>1 DEF Founded
    <3> QED
      BY <1>1, <1>2, <1>3, <3>1
  <2>4. trees'[proof[g].head] = trees[proof[g].head]
        /\ trees'[intent.baseline.head] = trees[intent.baseline.head]
    BY <1>2, <1>3, <2>2
  <2>5. Differing(g)' = Differing(g)
    BY <1>1, <2>4 DEF Differing
  <2>6. Committed(proof[g].head, intent.baseline.head)'
          = Committed(proof[g].head, intent.baseline.head)
    BY <1>1, <2>4 DEF Committed
  <2>7. Changed(intent.baseline.status)' = Changed(intent.baseline.status)
    BY <1>1 DEF Changed
  <2> QED
    BY <1>1, <2>1, <2>3, <2>5, <2>6, <2>7 DEF Founded
<1>5. intent'.baseline.head \in 0..head'
  BY <1>1, <1>2, <1>3
<1> QED
  BY <1>4, <1>5 DEF EvidenceInv

(* Every other operation leaves the baseline and grants nothing. *)
LEMMA EvidenceKept ==
    ASSUME TypeOK, EvidenceInv, UNCHANGED repo, intent'.baseline = intent.baseline,
           \A g \in Gates : Kept(g)
    PROVE  EvidenceInv'
<1>1. \A g \in Gates : Granted(intent', g) => Founded(g)'
  BY KeptFounded
<1>2. intent'.baseline.head \in 0..head'
  BY DEF EvidenceInv, repo
<1> QED
  BY <1>1, <1>2 DEF EvidenceInv

(* An operation that grants nothing keeps the witnesses of the gates it keeps. *)
LEMMA KeptWitness ==
    ASSUME Witness({}), NEW g \in Gates, Granted(intent', g) => Granted(intent, g)
    PROVE  Kept(g)
BY DEF Witness, Kept

(* One step of the lifecycle keeps every granted gate founded. *)
LEMMA EvidenceStep ==
    ASSUME TypeOK, EvidenceInv, IntegratedBaseline, [Next]_vars
    PROVE  EvidenceInv'
<1>0. intent \in IntentRecords
  BY DEF TypeOK
<1>1. CASE UNCHANGED vars
  BY <1>1, EvidenceKept DEF vars, repo, Kept, Granted
<1>2. ASSUME NEW target, Block(target) \/ Transition(target) \/ Abandon \/ Complete
      PROVE  EvidenceInv'
  <2>1. /\ intent'.baseline = intent.baseline
        /\ intent'.verification = intent.verification /\ intent'.review = intent.review
        /\ UNCHANGED repo /\ Witness({})
    BY <1>0, <1>2 DEF Block, Transition, Abandon, Complete, WriteIntent, Write, IntentRecords
  <2>2. \A g \in Gates : Kept(g)
    BY <2>1, KeptWitness DEF Granted
  <2> QED
    BY <2>1, <2>2, EvidenceKept
<1>3. ASSUME NEW questions \in Questions, RevisePlan(questions) PROVE EvidenceInv'
  <2>1. /\ Withdraw(intent) \in IntentRecords
        /\ Withdraw(intent).baseline = intent.baseline
        /\ \A g \in Gates : ~Granted(Withdraw(intent), g)
    BY <1>0, WithdrawType
  <2>2. intent' = [Withdraw(intent) EXCEPT !.plan = questions] /\ UNCHANGED repo /\ Witness({})
    BY <1>3 DEF RevisePlan, WriteIntent, Write
  <2>3. intent'.baseline = intent.baseline /\ \A g \in Gates : ~Granted(intent', g)
    BY <2>1, <2>2 DEF IntentRecords, Granted
  <2> QED
    BY <2>2, <2>3, EvidenceKept DEF Kept
<1>4. ASSUME NEW a, NEW scope, CreateAssignment(a, scope) \/ ReviseScope(a, scope) \/ Start(a, scope)
      PROVE  EvidenceInv'
  <2>1. UNCHANGED <<intent, repo, proof>>
    BY <1>4 DEF CreateAssignment, ReviseScope, Start, WriteAssignment, Write
  <2>2. \A g \in Gates : Kept(g)
    BY <2>1 DEF Kept, Granted
  <2> QED
    BY <2>1, <2>2, EvidenceKept
<1>5. ASSUME NEW a, NEW b, Supersede(a, b) PROVE EvidenceInv'
  <2>1. /\ Withdraw(intent) \in IntentRecords
        /\ Withdraw(intent).baseline = intent.baseline
        /\ \A g \in Gates : ~Granted(Withdraw(intent), g)
    BY <1>0, WithdrawType
  <2>2. intent' = AfterSupersession(intent) /\ UNCHANGED repo /\ Witness({})
    BY <1>5 DEF Supersede, Write
  <2>3. intent'.baseline = intent.baseline /\ \A g \in Gates : ~Granted(intent', g)
    BY <2>1, <2>2 DEF AfterSupersession, IntentRecords, Granted
  <2> QED
    BY <2>2, <2>3, EvidenceKept DEF Kept
<1>6. ASSUME NEW a \in Assignments, NEW capability, Recover(a, capability) PROVE EvidenceInv'
  <2>1. /\ intent' = AfterResult(a, "failed", intent.baseline)
        /\ UNCHANGED repo /\ Witness({})
    BY <1>6 DEF Recover, Record, Write
  <2>2. intent'.baseline = intent.baseline
    BY <1>0, <2>1, AfterResultType DEF TypeOK, IntentType, IntentRecords
  <2>3. \A g \in Gates : Granted(intent', g) => Granted(intent, g)
    <3>1. [intent EXCEPT !.baseline = intent.baseline] = intent
      BY <1>0 DEF IntentRecords
    <3>2. /\ Withdraw(intent) \in IntentRecords
          /\ \A g \in Gates : ~Granted(Withdraw(intent), g)
      BY <1>0, WithdrawType
    <3>3. \A g \in Gates : ~Granted([Withdraw(intent) EXCEPT !.state = "executing"], g)
      BY <3>2 DEF Granted, IntentRecords
    <3> QED
      BY <2>1, <3>1, <3>2, <3>3 DEF AfterResult
  <2> QED
    BY <2>1, <2>2, <2>3, KeptWitness, EvidenceKept
<1>7. ASSUME NEW a \in Assignments, NEW scope, NEW outcome, NEW declared, NEW capability,
             NEW report, Result(a, capability, outcome, scope, declared, report)
      PROVE  EvidenceInv'
  BY <1>7, EvidenceRebased DEF Result, Survivor
<1>8. Lifecycle => EvidenceInv'
  BY <1>2, <1>3, EvidenceRecorded, EvidenceIntegrated DEF Lifecycle
<1>9. ASSUME NEW a \in Assignments, Work(a) PROVE EvidenceInv'
  BY <1>4, <1>5, <1>6, <1>7, <1>9 DEF Work
<1> QED
  BY <1>1, <1>8, <1>9, EvidenceOutlasts DEF Next

(* A granted gate speaks of what the repository holds unless it has drifted. *)
THEOREM Evidence == Spec => []EvidenceCovers
<1>1. Init => EvidenceInv
  BY DEF Init, EvidenceInv, Baseline, Granted, Cleared, Gates
<1> QED
  BY <1>1, EvidenceStep, EvidenceFollows, TypeCorrect, IntegratedIsHead, PTL DEF Spec

(***************************************************************************)
(* What a diagnosis reports.                                               *)
(***************************************************************************)

(* What the operations keep true of the Intent record alone: blockers and  *)
(* resume target belong to its state, a pass rests on evidence, which is   *)
(* also the Intent's, and completion on the declarations.                  *)
SoundIntent(i) ==
    /\ i.state \in Terminal => ~i.blockers
    /\ i.state \in Suspended => i.resume # None
    /\ i.state \notin Suspended \cup {"abandoned", "executing"} => i.resume = None
    /\ i.verification = "passed" => i.proven
    /\ i.proven \/ i.reviewed => i.noted
    /\ i.state = "complete" => i.declared = {"acceptance_met", "root_readiness"}

(* ... and of an Assignment record: the supersession its reason is of, and *)
(* what its status says of the invocations before.                         *)
SoundWork(a, r) ==
    /\ r.status = "superseded" => r.reason = a
    /\ r.status # "superseded" /\ r.of # Nobody => r.reason = r.of
    /\ r.status \in {"absent", "pending"} => r.issued = 0
    /\ r.status \in Outcomes \cup {"executing"} => r.issued > 0
    /\ r.status \in Outcomes => r.outcome = r.status
    /\ r.status \in Suspended => r.blocker

(* ... and of both: a supersession is noted in the Intent, and a resume     *)
(* target left in an executing Intent is the doing of operations.           *)
SoundTogether ==
    /\ Superseded # {} => intent.noted
    /\ intent.state = "executing" /\ intent.resume # None => OperationsRan

(* Optional fields: None is no state and no verdict. *)
LEMMA Undefined ==
    /\ None \notin Running
    /\ None \notin {"passed", "failed", "accepted", "rejected"}
BY WorkStateAssumption DEF Running

(* An Intent whose gates are withdrawn, and that is not complete. *)
LEMMA SoundWithdrawn ==
    ASSUME NEW i \in IntentRecords, SoundIntent(i), i.state \notin Terminal
    PROVE  /\ Withdraw(i) \in IntentRecords
           /\ SoundIntent(Withdraw(i))
           /\ Withdraw(i).state = i.state /\ Withdraw(i).resume = i.resume
           /\ Withdraw(i).blockers = i.blockers /\ Withdraw(i).noted = i.noted
           /\ Withdraw(i).verification # "passed"
<1>1. Withdraw(i) \in IntentRecords
  BY WithdrawType
<1>2. /\ Withdraw(i).state = i.state /\ Withdraw(i).resume = i.resume
      /\ Withdraw(i).blockers = i.blockers /\ Withdraw(i).noted = i.noted
      /\ Withdraw(i).proven = i.proven /\ Withdraw(i).reviewed = i.reviewed
      /\ Withdraw(i).verification # "passed"
  BY DEF Withdraw, IntentRecords, Cleared
<1> QED
  BY <1>1, <1>2 DEF SoundIntent, Terminal

(* The operations on the Intent itself. *)
LEMMA SoundLifecycle ==
    ASSUME TypeOK, SoundIntent(intent), Lifecycle
    PROVE  SoundIntent(intent')
<1>0. intent \in IntentRecords
  BY DEF TypeOK
<1> USE DEF WriteIntent, Write, Mutable, Terminal, Suspended
<1>1. ASSUME NEW target \in Suspensions, Block(target) PROVE SoundIntent(intent')
  <2>1. intent.state \in Running /\ target \in Suspended
    BY <1>0, <1>1, Constants DEF Block, IntentRecords
  <2>2. intent.state # None
    BY <2>1, Undefined
  <2>3. intent' = [intent EXCEPT !.state = target, !.blockers = TRUE, !.resume = intent.state]
    BY <1>1 DEF Block
  <2>4. /\ intent'.state = target /\ intent'.resume = intent.state
        /\ intent'.verification = intent.verification /\ intent'.proven = intent.proven
        /\ intent'.noted = intent.noted /\ intent'.reviewed = intent.reviewed
    BY <1>0, <2>3 DEF IntentRecords
  <2> QED
    BY <2>1, <2>2, <2>4 DEF SoundIntent
<1>2. ASSUME NEW target \in Running, Transition(target) PROVE SoundIntent(intent')
  <2>1. intent' = [intent EXCEPT !.state = target, !.resume = None]
    BY <1>2 DEF Transition
  <2>2. /\ intent'.state = target /\ intent'.resume = None
        /\ intent'.verification = intent.verification /\ intent'.proven = intent.proven
        /\ intent'.noted = intent.noted /\ intent'.reviewed = intent.reviewed
    BY <1>0, <2>1 DEF IntentRecords
  <2> QED
    BY <2>2 DEF SoundIntent, Running
<1>3. CASE Abandon
  BY <1>0, <1>3 DEF Abandon, IntentRecords, SoundIntent
<1>4. ASSUME NEW vr \in Verdicts(intent.state), NEW declared, NEW clear \in BOOLEAN,
             NEW items, RecordEvidence(vr[1], vr[2], declared, clear, items)
      PROVE  SoundIntent(intent')
  <2>1. /\ vr[1] \in {None, "passed", "failed"}
        /\ vr[2] \in {None, "accepted", "rejected"}
    BY DEF Verdicts
  <2>2. intent.state \notin Terminal /\ (vr[2] # None => intent.state = "reviewing")
    BY <1>4 DEF RecordEvidence
  <2>3. /\ vr[1] = "passed" => intent.proven \/ items = "meaningful"
        /\ vr[2] = "rejected" => vr[2] # None
        /\ vr[1] = "passed" => vr[1] # None
    BY <1>4, Undefined DEF RecordEvidence
  <2> DEFINE noted == intent.noted \/ items # "none"
             proven == intent.proven \/ (vr[1] # None /\ items = "meaningful")
             reviewed == intent.reviewed \/ (vr[2] # None /\ items # "none")
             blockers == intent.blockers /\ ~clear
             state == IF vr[2] = "rejected" THEN "executing" ELSE intent.state
             verification == IF vr[1] = None THEN intent.verification ELSE vr[1]
             review == IF vr[2] = None THEN intent.review ELSE vr[2]
  <2>4. intent' = [intent EXCEPT !.state = state, !.verification = verification, !.review = review,
                                 !.noted = noted, !.proven = proven, !.reviewed = reviewed,
                                 !.declared = declared, !.blockers = blockers]
    BY <1>4 DEF RecordEvidence
  <2>5. verification = "passed" => proven
    BY <2>1, <2>3 DEF SoundIntent
  <2>6. proven \/ reviewed => noted
    BY DEF SoundIntent
  <2> HIDE DEF blockers, noted, proven, reviewed, verification, review
  <2>7. /\ intent'.state = state /\ intent'.resume = intent.resume
        /\ intent'.verification = verification
    BY <1>0, <2>4 DEF IntentRecords
  <2>8. intent'.proven = proven /\ intent'.noted = noted /\ intent'.reviewed = reviewed
    BY <1>0, <2>4, Zenon DEF IntentRecords
  <2>9. intent'.state \in {intent.state, "executing"} /\ intent'.state \notin Terminal
    BY <2>2, <2>7
  <2> QED
    BY <2>2, <2>5, <2>6, <2>7, <2>8, <2>9 DEF SoundIntent
<1>5. CASE Integrate
  BY <1>0, <1>5 DEF Integrate, IntentRecords, SoundIntent
<1>6. ASSUME NEW questions, RevisePlan(questions) PROVE SoundIntent(intent')
  <2>1. intent' = [Withdraw(intent) EXCEPT !.plan = questions] /\ intent.state \notin Terminal
    BY <1>6 DEF RevisePlan
  <2> QED
    BY <1>0, <2>1, SoundWithdrawn DEF IntentRecords, SoundIntent
<1>7. CASE Complete
  BY <1>0, <1>7 DEF Complete, IntentRecords, SoundIntent
<1> QED
  BY <1>1, <1>2, <1>3, <1>4, <1>5, <1>6, <1>7 DEF Lifecycle

(* What the operations on Assignments do to the Intent. *)
LEMMA SoundWorkIntent ==
    ASSUME TypeOK, SoundIntent(intent), NEW a \in Assignments, Work(a)
    PROVE  SoundIntent(intent')
<1>0. intent \in IntentRecords
  BY DEF TypeOK
<1>1. ASSUME NEW scope, CreateAssignment(a, scope) \/ ReviseScope(a, scope) \/ Start(a, scope)
      PROVE  SoundIntent(intent')
  BY <1>1 DEF CreateAssignment, ReviseScope, Start, WriteAssignment, Write
<1>2. ASSUME NEW capability, NEW outcome, NEW scope, NEW baseline \in Baselines,
             NEW report, Record(a, capability, outcome, scope, baseline, report)
      PROVE  SoundIntent(intent')
  <2> DEFINE i == [intent EXCEPT !.baseline = baseline]
             o == [Withdraw(i) EXCEPT !.state = "executing"]
  <2>1. intent' \in {i, Withdraw(i), o} /\ intent.state \notin Terminal
    BY <1>2 DEF Record, Write, AfterResult, Mutable
  <2>2. i \in IntentRecords /\ SoundIntent(i) /\ i.state \notin Terminal
    BY <1>0, <2>1 DEF IntentRecords, SoundIntent
  <2> HIDE DEF i
  <2>3. SoundIntent(Withdraw(i)) /\ Withdraw(i) \in IntentRecords /\ Withdraw(i).verification # "passed"
    BY <2>2, SoundWithdrawn
  <2>4. SoundIntent(o)
    BY <2>3 DEF SoundIntent, IntentRecords, Terminal, Suspended
  <2> QED
    BY <2>1, <2>2, <2>3, <2>4
<1>3. ASSUME NEW capability, NEW outcome, NEW scope, NEW declared, NEW report,
             Result(a, capability, outcome, scope, declared, report)
      PROVE  SoundIntent(intent')
  <2>1. Survivor \in (0..MaxCommits) \cup {NoCommit}
    BY <1>0 DEF Survivor, IntentRecords, Baselines
  <2>2. Baseline(Survivor) \in Baselines
    BY <2>1, BaselineType DEF TypeOK, RepoType
  <2> QED
    BY <1>2, <1>3, <2>2 DEF Result, Survivor
<1>4. ASSUME NEW capability, Recover(a, capability) PROVE SoundIntent(intent')
  <2>1. intent.baseline \in Baselines
    BY <1>0 DEF IntentRecords
  <2> QED
    BY <1>2, <1>4, <2>1 DEF Recover
<1>5. ASSUME NEW b, Supersede(a, b) PROVE SoundIntent(intent')
  <2> DEFINE i == Withdraw(intent)
             state == IF ~i.blockers /\ i.state \in Suspended \cup {"verifying", "reviewing"}
                        THEN "executing" ELSE i.state
             resume == IF i.blockers THEN i.resume ELSE None
  <2>1. intent' = AfterSupersession(intent) /\ intent.state \notin Terminal
    BY <1>5 DEF Supersede, Write, Mutable
  <2>2. /\ i \in IntentRecords /\ SoundIntent(i) /\ i.verification # "passed"
        /\ i.state = intent.state /\ i.blockers = intent.blockers /\ i.resume = intent.resume
    BY <1>0, <2>1, SoundWithdrawn
  <2>3. intent' = [i EXCEPT !.state = state, !.resume = resume, !.noted = TRUE]
    BY <2>1, <2>2 DEF AfterSupersession, IntentRecords
  <2> HIDE DEF i
  <2>4. intent'.state = state /\ intent'.resume = resume /\ intent'.verification # "passed"
        /\ intent'.noted
    BY <2>2, <2>3 DEF IntentRecords
  <2>5. state \notin Terminal
    BY <2>1, <2>2 DEF Terminal
  <2>6. (state \in Suspended => i.blockers /\ state = i.state) /\ i.state \notin Terminal
    BY <2>1, <2>2 DEF Suspended
  <2> QED
    BY <2>2, <2>4, <2>5, <2>6 DEF SoundIntent, Terminal, Suspended
<1> QED
  BY <1>1, <1>3, <1>4, <1>5 DEF Work

(* The Assignments: what each operation writes is what the record says. *)
LEMMA SoundWorkStep ==
    ASSUME TypeOK, Linked, InvocationsInv, \A c \in Assignments : SoundWork(c, assignments[c]),
           [Next]_vars
    PROVE  (\A c \in Assignments : SoundWork(c, assignments[c]))'
<1>0. assignments \in [Assignments -> AssignmentRecords]
  BY DEF TypeOK
<1>1. CASE UNCHANGED assignments
  BY <1>1
<1>2. ASSUME NEW a \in Assignments, NEW r, assignments' = [assignments EXCEPT ![a] = r], SoundWork(a, r)
      PROVE  \A c \in Assignments : SoundWork(c, assignments'[c])
  BY <1>0, <1>2
<1>3. ASSUME NEW a \in Assignments, NEW scope, CreateAssignment(a, scope)
      PROVE  \A c \in Assignments : SoundWork(c, assignments'[c])
  <2>1. SoundWork(a, Assignment("pending", scope))
    BY DEF SoundWork, Assignment, Outcomes, Suspended
  <2> QED
    BY <1>2, <1>3, <2>1 DEF CreateAssignment, WriteAssignment, Write
<1>4. ASSUME NEW a \in Assignments, NEW scope, ReviseScope(a, scope)
      PROVE  \A c \in Assignments : SoundWork(c, assignments'[c])
  <2>1. SoundWork(a, [assignments[a] EXCEPT !.scope = scope])
    BY <1>0 DEF SoundWork, AssignmentRecords
  <2> QED
    BY <1>2, <1>4, <2>1 DEF ReviseScope, WriteAssignment, Write
<1>5. ASSUME NEW a \in Assignments, NEW scope, Start(a, scope)
      PROVE  \A c \in Assignments : SoundWork(c, assignments'[c])
  <2> DEFINE r == [assignments[a] EXCEPT !.status = "executing", !.scope = scope,
                                         !.issued = @ + 1, !.blocker = FALSE,
                                         !.active = assignments[a].issued + 1]
  <2>1. /\ r.status = "executing" /\ r.issued = assignments[a].issued + 1
        /\ r.of = assignments[a].of /\ r.reason = assignments[a].reason
        /\ assignments[a].issued \in Nat
    BY <1>0, Constants DEF AssignmentRecords
  <2>2. assignments[a].status # "superseded" /\ assignments' = [assignments EXCEPT ![a] = r]
    BY <1>5 DEF Start, WriteAssignment, Write, Finished
  <2> HIDE DEF r
  <2>3. SoundWork(a, r)
    BY <2>1, <2>2 DEF SoundWork, Outcomes, Suspended
  <2> QED
    BY <1>2, <2>2, <2>3
<1>6. ASSUME NEW a \in Assignments, NEW capability, NEW outcome \in Outcomes, NEW scope, NEW baseline,
             NEW report, outcome \in Suspended => "blocker" \in report,
             Record(a, capability, outcome, scope, baseline, report)
      PROVE  \A c \in Assignments : SoundWork(c, assignments'[c])
  <2> DEFINE r == Reported(a, capability, outcome, scope, report)
  <2>0. /\ r.status = outcome /\ r.issued = assignments[a].issued /\ r.outcome = outcome
        /\ r.of = assignments[a].of /\ r.reason = assignments[a].reason
        /\ r.blocker = ("blocker" \in report)
    BY <1>0, ReportedFields
  <2>2. assignments[a].status = "executing" /\ assignments' = [assignments EXCEPT ![a] = r]
    BY <1>6 DEF Record, Write
  <2> HIDE DEF r
  <2>1. outcome \in Suspended => r.blocker
    BY <1>6, <2>0
  <2>3. SoundWork(a, r)
    BY <2>0, <2>1, <2>2 DEF SoundWork, Outcomes
  <2> QED
    BY <1>2, <2>2, <2>3
<1>7. ASSUME NEW a \in Assignments, NEW b \in Assignments, Supersede(a, b)
      PROVE  \A c \in Assignments : SoundWork(c, assignments'[c])
  <2>1. assignments' = [assignments EXCEPT ![a].status = "superseded", ![a].by = b, ![a].reason = a,
                                           ![a].active = Unstarted, ![a].blocker = FALSE,
                                           ![b].of = a, ![b].reason = a]
    BY <1>7 DEF Supersede, Write
  <2>2. a # b /\ assignments'[a].status = "superseded" /\ assignments'[a].reason = a
    BY <1>0, <1>7, <2>1, Superseding DEF AssignmentRecords
  <2>3. /\ assignments'[b].status = assignments[b].status /\ assignments'[b].issued = assignments[b].issued
        /\ assignments'[b].of = a /\ assignments'[b].reason = a
        /\ assignments[b].status # "superseded"
    BY <1>0, <1>7, <2>1, <2>2, Superseding DEF AssignmentRecords
  <2>8. /\ assignments[b].blocker => assignments'[b].blocker
        /\ assignments'[b].outcome = assignments[b].outcome
    <3>1. assignments'[b] = [assignments[b] EXCEPT !.of = a, !.reason = a]
      BY <1>0, <2>1, <2>2
    <3>2. assignments[b] \in AssignmentRecords
      BY <1>0
    <3> QED
      BY <3>1, <3>2 DEF AssignmentRecords
  <2>4. SoundWork(a, assignments'[a])
    BY <2>2 DEF SoundWork, Outcomes, Suspended
  <2>5. SoundWork(b, assignments'[b])
    BY <2>3, <2>8 DEF SoundWork
  <2> QED
    BY <1>7, <2>4, <2>5, Superseding
<1>8. ASSUME NEW a \in Assignments, Work(a) PROVE \A c \in Assignments : SoundWork(c, assignments'[c])
  <2>1. ASSUME NEW capability, Recover(a, capability)
        PROVE  \A c \in Assignments : SoundWork(c, assignments'[c])
    BY <1>6, <2>1 DEF Recover, Outcomes, Suspended
  <2>2. ASSUME NEW capability, NEW outcome \in Outcomes, NEW scope, NEW declared, NEW report,
               Result(a, capability, outcome, scope, declared, report)
        PROVE  \A c \in Assignments : SoundWork(c, assignments'[c])
    BY <1>6, <2>2 DEF Result
  <2> QED
    BY <1>3, <1>4, <1>5, <1>7, <1>8, <2>1, <2>2 DEF Work
<1>9. Lifecycle \/ Repository => UNCHANGED assignments
  BY DEF Lifecycle, Block, Transition, Abandon, RecordEvidence, Integrate, RevisePlan, Complete,
         WriteIntent, Write, Repository, Edit, Commit
<1> QED
  BY <1>1, <1>8, <1>9 DEF Next, vars

(* What has been started stays started, and only operations reopen an      *)
(* Intent without its resume target being cleared.                          *)
LEMMA SoundTogetherStep ==
    ASSUME TypeOK, Linked, SoundIntent(intent), SoundTogether,
           \A c \in Assignments : SoundWork(c, assignments[c]),
           \A c \in Assignments : SoundWork(c, assignments'[c]), [Next]_vars
    PROVE  SoundTogether'
<1>0. intent \in IntentRecords /\ assignments \in [Assignments -> AssignmentRecords]
  BY DEF TypeOK
<1>1. Operations \subseteq Assignments
  BY WorkStateAssumption
<1>2. ASSUME UNCHANGED Superseded, OperationsRan => OperationsRan', intent.noted => intent'.noted,
             intent'.state # "executing" \/ intent'.resume = None
               \/ (intent'.state = intent.state /\ intent'.resume = intent.resume)
      PROVE  SoundTogether'
  BY <1>2 DEF SoundTogether
<1>3. CASE UNCHANGED <<intent, assignments>>
  BY <1>3 DEF SoundTogether, Superseded, OperationsRan
<1>4. CASE Lifecycle
  <2>1. UNCHANGED assignments
    BY <1>4 DEF Lifecycle, Block, Transition, Abandon, RecordEvidence, Integrate, RevisePlan,
                Complete, WriteIntent, Write
  <2>2. UNCHANGED Superseded /\ (OperationsRan => OperationsRan')
    BY <2>1 DEF Superseded, OperationsRan
  <2> USE DEF WriteIntent, Write
  <2>3. ASSUME NEW target \in Suspensions, Block(target) PROVE SoundTogether'
    <3>1. target \in Suspended /\ intent' = [intent EXCEPT !.state = target, !.blockers = TRUE,
                                                         !.resume = intent.state]
      BY <2>3, Constants DEF Block
    <3> QED
      BY <1>0, <1>2, <2>2, <3>1 DEF IntentRecords, Suspended
  <2>4. ASSUME NEW target \in Running, Transition(target) PROVE SoundTogether'
    BY <1>0, <1>2, <2>2, <2>4 DEF Transition, IntentRecords
  <2>5. CASE Abandon \/ Complete
    BY <1>0, <1>2, <2>2, <2>5 DEF Abandon, Complete, IntentRecords
  <2>6. ASSUME NEW v, NEW r, NEW declared, NEW clear, NEW items,
               RecordEvidence(v, r, declared, clear, items)
        PROVE  SoundTogether'
    <3>1. r = "rejected" => intent.state = "reviewing"
      BY <2>6, Undefined DEF RecordEvidence
    <3>2. /\ intent'.state = (IF r = "rejected" THEN "executing" ELSE intent.state)
          /\ intent'.resume = intent.resume /\ (intent.noted => intent'.noted)
      BY <1>0, <2>6 DEF RecordEvidence, IntentRecords
    <3>3. r = "rejected" => intent.resume = None
      BY <3>1 DEF SoundIntent, Suspended
    <3> QED
      BY <1>2, <2>2, <3>2, <3>3
  <2>7. CASE Integrate
    BY <1>0, <1>2, <2>2, <2>7 DEF Integrate, IntentRecords
  <2>8. ASSUME NEW questions, RevisePlan(questions) PROVE SoundTogether'
    <3>1. /\ intent' = [Withdraw(intent) EXCEPT !.plan = questions]
          /\ intent.state \notin Terminal
      BY <2>8 DEF RevisePlan, Mutable
    <3> QED
      BY <1>0, <1>2, <2>2, <3>1, SoundWithdrawn DEF IntentRecords
  <2> QED
    BY <1>4, <2>3, <2>4, <2>5, <2>6, <2>7, <2>8 DEF Lifecycle
<1>5. ASSUME NEW a \in Assignments, Work(a) PROVE SoundTogether'
  <2>1. ASSUME NEW r, assignments' = [assignments EXCEPT ![a] = r],
               assignments[a].status = "superseded" <=> r.status = "superseded",
               assignments[a].issued > 0 => r.issued > 0
        PROVE  UNCHANGED Superseded /\ (OperationsRan => OperationsRan')
    BY <1>0, <1>1, <2>1 DEF Superseded, OperationsRan
  <2> USE DEF WriteAssignment, Write
  <2>2. ASSUME NEW scope, CreateAssignment(a, scope) PROVE SoundTogether'
    <3>1. assignments[a].issued = 0
      BY <2>2 DEF CreateAssignment, SoundWork
    <3>2. UNCHANGED Superseded /\ (OperationsRan => OperationsRan')
      BY <2>1, <2>2, <3>1 DEF CreateAssignment, Assignment
    <3> QED
      BY <1>2, <2>2, <3>2 DEF CreateAssignment
  <2>3. ASSUME NEW scope, ReviseScope(a, scope) PROVE SoundTogether'
    <3> DEFINE r == [assignments[a] EXCEPT !.scope = scope]
    <3>1. r.status = assignments[a].status /\ r.issued = assignments[a].issued
      BY <1>0 DEF AssignmentRecords
    <3>2. assignments' = [assignments EXCEPT ![a] = r]
      BY <2>3 DEF ReviseScope
    <3> HIDE DEF r
    <3>3. UNCHANGED Superseded /\ (OperationsRan => OperationsRan')
      BY <2>1, <3>1, <3>2
    <3> QED
      BY <1>2, <2>3, <3>3 DEF ReviseScope
  <2>4. ASSUME NEW scope, Start(a, scope) PROVE SoundTogether'
    <3> DEFINE r == [assignments[a] EXCEPT !.status = "executing", !.scope = scope,
                                           !.issued = @ + 1, !.blocker = FALSE,
                                           !.active = assignments[a].issued + 1]
    <3>1. r.status = "executing" /\ r.issued = assignments[a].issued + 1
          /\ assignments[a].issued \in Nat
      BY <1>0, Constants DEF AssignmentRecords
    <3>2. assignments' = [assignments EXCEPT ![a] = r] /\ assignments[a].status # "superseded"
      BY <2>4 DEF Start, Finished
    <3> HIDE DEF r
    <3>3. r.issued > 0 /\ r.status # "superseded"
      BY <3>1
    <3>4. UNCHANGED Superseded /\ (OperationsRan => OperationsRan')
      BY <2>1, <3>2, <3>3
    <3> QED
      BY <1>2, <2>4, <3>4 DEF Start
  <2>5. ASSUME NEW capability, NEW outcome \in Outcomes, NEW scope, NEW baseline, NEW report,
               Record(a, capability, outcome, scope, baseline, report)
        PROVE  SoundTogether'
    <3> DEFINE r == Reported(a, capability, outcome, scope, report)
    <3>1. r.status = outcome /\ r.issued = assignments[a].issued
      BY <1>0, ReportedFields
    <3>2. assignments' = [assignments EXCEPT ![a] = r] /\ assignments[a].status = "executing"
      BY <2>5 DEF Record
    <3>3. assignments[a].issued > 0 /\ assignments'[a].issued > 0
      BY <1>0, <3>1, <3>2 DEF SoundWork
    <3> HIDE DEF r
    <3>4. UNCHANGED Superseded /\ (OperationsRan => OperationsRan')
      BY <2>1, <3>1, <3>2 DEF Outcomes
    <3>5. a \in Operations => OperationsRan'
      BY <3>3 DEF OperationsRan
    <3> DEFINE i == [intent EXCEPT !.baseline = baseline]
               o == [Withdraw(i) EXCEPT !.state = "executing"]
    <3>6. intent' \in {i, Withdraw(i)} \/ (a \in Operations /\ intent' = o)
      BY <2>5 DEF Record, AfterResult
    <3>7. /\ i.state = intent.state /\ i.resume = intent.resume /\ i.noted = intent.noted
          /\ Withdraw(i).state = intent.state /\ Withdraw(i).resume = intent.resume
          /\ Withdraw(i).noted = intent.noted
          /\ o.noted = intent.noted
      BY <1>0 DEF IntentRecords, Withdraw
    <3> HIDE DEF i, o
    <3>8. intent'.noted = intent.noted
      BY <3>6, <3>7
    <3> QED
      BY <1>2, <3>4, <3>5, <3>6, <3>7, <3>8 DEF SoundTogether
  <2>6. ASSUME NEW b \in Assignments, Supersede(a, b) PROVE SoundTogether'
    <3> DEFINE i == Withdraw(intent)
               state == IF ~i.blockers /\ i.state \in Suspended \cup {"verifying", "reviewing"}
                          THEN "executing" ELSE i.state
               resume == IF i.blockers THEN i.resume ELSE None
    <3>1. intent' = AfterSupersession(intent) /\ intent.state \notin Terminal
      BY <2>6 DEF Supersede, Mutable
    <3>2. /\ i \in IntentRecords
          /\ i.state = intent.state /\ i.resume = intent.resume /\ i.blockers = intent.blockers
      BY <1>0, <3>1, SoundWithdrawn
    <3>3. intent' = [i EXCEPT !.state = state, !.resume = resume, !.noted = TRUE]
      BY <3>1, <3>2 DEF AfterSupersession, IntentRecords
    <3> HIDE DEF i
    <3>4. intent'.state = state /\ intent'.resume = resume /\ intent'.noted
      BY <3>2, <3>3 DEF IntentRecords
    <3>5. intent'.resume = None \/ (intent'.state = intent.state /\ intent'.resume = intent.resume)
      BY <3>2, <3>4
    <3>6. assignments' = [assignments EXCEPT ![a].status = "superseded", ![a].by = b,
                                             ![a].reason = a, ![a].active = Unstarted,
                                             ![a].blocker = FALSE, ![b].of = a, ![b].reason = a]
          /\ a # b
      BY <2>6 DEF Supersede
    <3>7. ASSUME NEW c \in Assignments PROVE assignments'[c].issued = assignments[c].issued
      <4>1. assignments'[a] = [assignments[a] EXCEPT !.status = "superseded", !.by = b, !.reason = a,
                                                     !.active = Unstarted, !.blocker = FALSE]
        BY <1>0, <3>6
      <4>2. assignments'[b] = [assignments[b] EXCEPT !.of = a, !.reason = a]
        BY <1>0, <3>6
      <4>3. c \notin {a, b} => assignments'[c] = assignments[c]
        BY <1>0, <3>6
      <4>4. assignments[a] \in AssignmentRecords /\ assignments[b] \in AssignmentRecords
        BY <1>0
      <4>5. assignments'[a].issued = assignments[a].issued
        BY <4>1, <4>4 DEF AssignmentRecords
      <4>6. assignments'[b].issued = assignments[b].issued
        BY <4>2, <4>4 DEF AssignmentRecords
      <4> QED
        BY <4>3, <4>5, <4>6
    <3>8. OperationsRan => OperationsRan'
      BY <1>1, <3>7 DEF OperationsRan
    <3> QED
      BY <3>4, <3>5, <3>8 DEF SoundTogether
  <2>7. ASSUME NEW capability, Recover(a, capability) PROVE SoundTogether'
    BY <2>5, <2>7 DEF Recover, Outcomes
  <2>8. ASSUME NEW capability, NEW outcome \in Outcomes, NEW scope, NEW declared, NEW report,
               Result(a, capability, outcome, scope, declared, report)
        PROVE  SoundTogether'
    BY <2>5, <2>8 DEF Result
  <2> QED
    BY <1>5, <2>2, <2>3, <2>4, <2>6, <2>7, <2>8 DEF Work
<1> QED
  BY <1>3, <1>4, <1>5 DEF Next, vars, Repository, Edit, Commit

SoundRecords ==
    /\ SoundIntent(intent)
    /\ \A a \in Assignments : SoundWork(a, assignments[a])
    /\ SoundTogether

(* No operation leaves a record a diagnosis would call damaged. *)
LEMMA SoundStep ==
    ASSUME TypeOK, Linked, InvocationsInv, SoundRecords, [Next]_vars
    PROVE  SoundRecords'
<1>1. SoundIntent(intent')
  <2>1. Repository \/ UNCHANGED vars => UNCHANGED intent
    BY DEF Repository, Edit, Commit, vars
  <2> QED
    BY <2>1, SoundLifecycle, SoundWorkIntent DEF SoundRecords, Next
<1>2. \A a \in Assignments : SoundWork(a, assignments'[a])
  BY SoundWorkStep DEF SoundRecords
<1>3. SoundTogether'
  BY <1>2, SoundTogetherStep DEF SoundRecords
<1> QED
  BY <1>1, <1>2, <1>3 DEF SoundRecords

(* An executing Assignment has its running invocation, and no other has.   *)
LEMMA InvocationsReported ==
    ASSUME TypeOK, InvocationsInv, NEW a \in Assignments
    PROVE  InvocationIssues(a) = {}
<1> USE DEF Unstarted
<1> DEFINE r == assignments[a]
           recorded == IF r.status = "executing" THEN r.issued - 1 ELSE r.issued
<1>1. r.issued \in Nat
  BY Constants DEF TypeOK, AssignmentRecords
<1>2. /\ r.log = [n \in 1..recorded |-> n]
      /\ r.active = IF r.status = "executing" THEN r.issued ELSE Unstarted
      /\ r.status = "executing" => r.issued > 0
  BY DEF InvocationsInv, Accounted
<1>3. recorded \in Nat
  BY <1>1, <1>2
<1>4. Len(r.log) = recorded /\ \A n \in 1..recorded : r.log[n] = n
  BY <1>2, <1>3
<1> HIDE DEF r
<1>5. ~\E m, n \in 1..Len(r.log) : m # n /\ r.log[m] = r.log[n]
  BY <1>4
<1>6. r.active \notin {r.log[n] : n \in 1..Len(r.log)}
  BY <1>1, <1>2, <1>4
<1>7. /\ ~(r.status = "executing" /\ r.active = Unstarted)
      /\ ~(r.status # "executing" /\ r.active # Unstarted)
  BY <1>1, <1>2
<1> QED
  BY <1>5, <1>6, <1>7 DEF InvocationIssues, Invocations, r

(* No Assignment replaces itself. *)
LEMMA NotItself ==
    ASSUME Linked, LeadsOut, NEW a \in Assignments, assignments[a].by # Nobody
    PROVE  assignments[a].by # a
<1>1. {a} \in (SUBSET Superseded) \ {{}}
  BY DEF Linked, Superseded
<1>2. \E c \in {a} : assignments[c].by \notin {a}
  BY <1>1 DEF LeadsOut
<1> QED
  BY <1>2

(* Both sides of a supersession agree, but for a chain: the record in its  *)
(* middle holds the reason of the later one.                               *)
LEMMA SupersessionsReported ==
    ASSUME TypeOK, Linked, LeadsOut, \A c \in Assignments : SoundWork(c, assignments[c]),
           NEW a \in Assignments
    PROVE  SupersessionIssues(a) \subseteq
             {c \in {"supersession_metadata_mismatch"} : assignments[a].by \in Superseded}
<1> DEFINE r == assignments[a]
           b == r.by
<1>0. assignments \in [Assignments -> AssignmentRecords]
  BY DEF TypeOK
<1>1. r.by \in Assignments \cup {Nobody} /\ r.of \in Assignments \cup {Nobody}
  BY <1>0 DEF AssignmentRecords
<1>2. ~(r.status = "superseded" /\ b = Nobody)
  BY DEF Linked
<1>3. b # Nobody => ~StaleEnd(a)
  BY NotItself DEF Linked, StaleEnd
<1>4. ASSUME b # Nobody
      PROVE  /\ r.status = "superseded" /\ r.reason = a
             /\ assignments[b].reason \in Assignments
             /\ assignments[b].status # "superseded" => assignments[b].reason = a
  <2>1. r.status = "superseded" /\ assignments[b].of = a /\ b \in Assignments
    BY <1>1, <1>4 DEF Linked
  <2>2. SoundWork(a, r) /\ SoundWork(b, assignments[b])
    BY <2>1
  <2> QED
    BY <2>1, <2>2, Constants DEF SoundWork
<1>5. b # Nobody => Nobody \notin {r.reason, assignments[b].reason}
  BY <1>4, Constants
<1>6. b # Nobody /\ r.reason # assignments[b].reason => b \in Superseded
  BY <1>1, <1>4 DEF Superseded
<1>7. ~(r.of # Nobody /\ (r.of = a \/ assignments[r.of].by # a))
  <2> SUFFICES ASSUME r.of # Nobody PROVE r.of # a /\ assignments[r.of].by = a
    OBVIOUS
  <2>1. r.of \in Assignments /\ assignments[r.of].by = a
    BY <1>1 DEF Linked
  <2>2. assignments[r.of].by # Nobody
    BY <2>1, Constants
  <2>3. assignments[r.of].by # r.of
    BY <2>1, <2>2, NotItself
  <2> QED
    BY <2>1, <2>3
<1> HIDE DEF r, b
<1> QED
  BY <1>2, <1>3, <1>5, <1>6, <1>7 DEF SupersessionIssues, r, b

(* The status of an Assignment is borne out by the results recorded. *)
LEMMA ResultsReported ==
    ASSUME TypeOK, InvocationsInv, NEW a \in Assignments, SoundWork(a, assignments[a])
    PROVE  ResultIssues(a) \subseteq
             {"assignment_unresolved"}
               \cup {c \in {"completion_evidence_missing"} : ~assignments[a].evidence}
<1> DEFINE r == assignments[a]
<1>1. r.issued \in Nat
  BY Constants DEF TypeOK, AssignmentRecords
<1>2. r.status # "executing" => r.log = [n \in 1..r.issued |-> n]
  BY DEF InvocationsInv, Accounted
<1>3. r.status # "executing" => Len(r.log) = r.issued
  BY <1>1, <1>2
<1>4. /\ r.status \in Outcomes => r.outcome = r.status
      /\ r.status \in {"blocked", "needs_root_input"} => r.blocker
  BY DEF SoundWork, Suspended
<1>5. r.status = "pending" => r.log = <<>>
  BY <1>2 DEF SoundWork
<1> QED
  BY <1>4, <1>5 DEF ResultIssues, Outcomes

(* What the diagnosis says of the Intent. *)
LEMMA IntentReported ==
    ASSUME TypeOK, SoundIntent(intent), SoundTogether, CompletionSound
    PROVE  /\ TerminalIssues = {}
           /\ EvidenceIssues \subseteq
                {c \in {"review_evidence_missing"} : ~intent.reviewed}
                  \cup {c \in {"completion_evidence_missing"} :
                          ~intent.proven /\ ~intent.reviewed /\ Superseded = {}}
           /\ SuspensionIssues \subseteq
                {"blocked_without_reason"}
                  \cup {c \in {"stale_resume_state"} :
                          intent.state = "abandoned"
                            \/ (intent.state = "executing" /\ OperationsRan)}
<1>1. TerminalIssues = {}
  BY DEF TerminalIssues, SoundIntent, CompletionSound
<1>2. EvidenceIssues \subseteq
        {c \in {"review_evidence_missing"} : ~intent.reviewed}
          \cup {c \in {"completion_evidence_missing"} :
                  ~intent.proven /\ ~intent.reviewed /\ Superseded = {}}
  BY DEF EvidenceIssues, SoundIntent, SoundTogether, CompletionSound, Passed, Accepted
<1>3. ~(intent.state \in Suspended /\ intent.resume = None)
  BY DEF SoundIntent
<1>4. intent.state \notin Suspended /\ intent.resume # None
        => intent.state = "abandoned" \/ (intent.state = "executing" /\ OperationsRan)
  BY DEF SoundIntent, SoundTogether
<1> QED
  BY <1>1, <1>2, <1>3, <1>4 DEF SuspensionIssues

(* Records that only the operations have written are not diagnosed as      *)
(* damaged, but where LawfulRecordsDiagnosedSound names the cause.         *)
THEOREM DiagnosedSound == Spec => []LawfulRecordsDiagnosedSound
<1>1. Init => SoundRecords
  <2> SUFFICES ASSUME Init PROVE SoundRecords
    OBVIOUS
  <2>1. SoundIntent(intent)
    BY DEF Init, SoundIntent, Cleared, Terminal, Suspended
  <2>2. ASSUME NEW a \in Assignments PROVE SoundWork(a, assignments[a])
    BY DEF Init, SoundWork, Assignment, Outcomes, Suspended
  <2>3. SoundTogether
    BY DEF Init, SoundTogether, Superseded, Assignment
  <2> QED
    BY <2>1, <2>2, <2>3 DEF SoundRecords
<1>2. Spec => []InvocationsInv
  BY InvocationsInit, InvocationsStep, TypeCorrect, PTL DEF Spec
<1>3. SupersessionSound => Linked
  BY DEF SupersessionSound
<1>4. Spec => []SoundRecords
  BY <1>1, <1>2, <1>3, SoundStep, TypeCorrect, Supersession, PTL DEF Spec
<1>5. TypeOK /\ SupersessionSound /\ CompletionSound /\ InvocationsInv /\ SoundRecords
        => LawfulRecordsDiagnosedSound
  <2> SUFFICES ASSUME TypeOK, Linked, LeadsOut, CompletionSound, InvocationsInv, SoundRecords
               PROVE  LawfulRecordsDiagnosedSound
    BY DEF SupersessionSound
  <2>1. ASSUME NEW a \in Existing
        PROVE  /\ InvocationIssues(a) = {}
               /\ SupersessionIssues(a) \subseteq
                    {c \in {"supersession_metadata_mismatch"} : assignments[a].by \in Superseded}
               /\ ResultIssues(a) \subseteq
                    {"assignment_unresolved"}
                      \cup {c \in {"completion_evidence_missing"} : ~assignments[a].evidence}
    BY InvocationsReported, SupersessionsReported, ResultsReported DEF SoundRecords, Existing
  <2>2. /\ TerminalIssues = {}
        /\ EvidenceIssues \subseteq
             {c \in {"review_evidence_missing"} : ~intent.reviewed}
               \cup {c \in {"completion_evidence_missing"} :
                       ~intent.proven /\ ~intent.reviewed /\ Superseded = {}}
        /\ SuspensionIssues \subseteq
             {"blocked_without_reason"}
               \cup {c \in {"stale_resume_state"} :
                       intent.state = "abandoned" \/ (intent.state = "executing" /\ OperationsRan)}
    BY IntentReported DEF SoundRecords
  <2>3. DriftIssues \subseteq {"repository_drift"}
    BY DEF DriftIssues
  <2>4. \A a \in Existing : WorkIssues(a) \subseteq
         {"assignment_unresolved"}
           \cup {c \in {"completion_evidence_missing"} : ~assignments[a].evidence}
           \cup {c \in {"supersession_metadata_mismatch"} : assignments[a].by \in Superseded}
    BY <2>1 DEF WorkIssues
  <2>5. IntentIssues \subseteq
         {"blocked_without_reason", "repository_drift"}
           \cup {c \in {"review_evidence_missing"} : ~intent.reviewed}
           \cup {c \in {"completion_evidence_missing"} :
                   ~intent.proven /\ ~intent.reviewed /\ Superseded = {}}
           \cup {c \in {"stale_resume_state"} :
                   intent.state = "abandoned" \/ (intent.state = "executing" /\ OperationsRan)}
    BY <2>2, <2>3 DEF IntentIssues
  <2> QED
    BY <2>4, <2>5 DEF LawfulRecordsDiagnosedSound
<1> QED
  BY <1>2, <1>4, <1>5, TypeCorrect, Supersession, Completion, PTL

=============================================================================
