--------------------------- MODULE WorkStateReport ---------------------------
(***************************************************************************)
(* What IntentStore.diagnose (packages/core/src/work-state.ts) reports of  *)
(* an Intent and its Assignments, over the records WorkState's operations  *)
(* write.  Issues are told apart by their code; the records are read as    *)
(* they are at one moment (WorkStateDiagnosis has the reads one by one).   *)
(* Left out: unreadable records, the identity of Plans, dependencies, and  *)
(* records that other versions wrote (a start without its time).           *)
(***************************************************************************)
EXTENDS WorkState

Invocations(a) == {assignments[a].log[n] : n \in 1..Len(assignments[a].log)}
Executing == {a \in Existing : assignments[a].status = "executing"}

(* The running invocation: there while executing, and only then. *)
InvocationIssues(a) ==
    LET r == assignments[a] IN
    {c \in {"missing_active_invocation"} : r.status = "executing" /\ r.active = Unstarted}
      \cup {c \in {"orphaned_active_invocation"} : r.status # "executing" /\ r.active # Unstarted}
      \cup {c \in {"duplicate_invocation_id"} :
              \E m, n \in 1..Len(r.log) : m # n /\ r.log[m] = r.log[n]}
      \cup {c \in {"active_invocation_reused"} : r.active \in Invocations(a)}

(* The relation of a superseded Assignment with its replacement. *)
StaleEnd(a) ==
    LET b == assignments[a].by IN
    \/ b = a
    \/ assignments[b].of # a
    \/ assignments[a].status # "superseded"

SupersessionIssues(a) ==
    LET r == assignments[a]
        b == r.by
    IN
    {c \in {"missing_replacement"} : r.status = "superseded" /\ b = Nobody}
      \cup {c \in {"stale_supersession"} : b # Nobody /\ StaleEnd(a)}
      \cup {c \in {"supersession_metadata_missing"} :
              b # Nobody /\ ~StaleEnd(a) /\ Nobody \in {r.reason, assignments[b].reason}}
      \cup {c \in {"supersession_metadata_mismatch"} :
              /\ b # Nobody /\ ~StaleEnd(a)
              /\ Nobody \notin {r.reason, assignments[b].reason}
              /\ r.reason # assignments[b].reason}
      \cup {c \in {"stale_predecessor"} :
              r.of # Nobody /\ (r.of = a \/ assignments[r.of].by # a)}

(* The status against the latest result. *)
ResultIssues(a) ==
    LET r == assignments[a] IN
    {c \in {"completion_evidence_missing"} :
        r.status = "completed" /\ (r.outcome # "completed" \/ ~r.evidence)}
      \cup {c \in {"assignment_result_mismatch"} :
              r.status \in {"blocked", "needs_root_input", "failed"} /\ r.outcome # r.status}
      \cup {c \in {"assignment_blocker_missing"} :
              r.status \in {"blocked", "needs_root_input"} /\ ~r.blocker}
      \cup {c \in {"pending_assignment_has_history"} : r.status = "pending" /\ r.log # <<>>}
      \cup {c \in {"assignment_unresolved"} : r.status \notin Finished}

TerminalIssues ==
    {c \in {"terminal_intent_with_unresolved_work"} :
        intent.state = "complete" /\ \E a \in Existing : assignments[a].status \notin Finished}
      \cup {c \in {"assignment_required"} : intent.state = "complete" /\ Existing = {}}
      \cup {c \in {"terminal_intent_with_blockers"} : intent.state \in Terminal /\ intent.blockers}

SuspensionIssues ==
    {c \in {"blocked_without_reason"} : intent.state \in Suspended /\ ~intent.blockers}
      \cup {c \in {"resume_state_missing"} : intent.state \in Suspended /\ intent.resume = None}
      \cup {c \in {"stale_resume_state"} : intent.state \notin Suspended /\ intent.resume # None}

(* hasMeaningfulVerificationEvidence is the field proven. *)
EvidenceIssues ==
    {c \in {"verification_evidence_missing"} :
        /\ intent.state = "complete"
        /\ "verification" \in intent.needs
        /\ intent.verification # "passed" \/ ~intent.proven}
      \cup {c \in {"review_evidence_missing"} :
              /\ intent.state = "complete"
              /\ "review" \in intent.needs
              /\ intent.review # "accepted" \/ ~intent.reviewed}
      \cup {c \in {"completion_evidence_missing"} :
              /\ intent.state = "complete"
              /\ intent.declared # {"acceptance_met", "root_readiness"} \/ ~intent.noted}

(* #assertNoDrift with the scopes of what is executing. *)
DriftIssues ==
    {c \in {"repository_drift"} : ~NoDrift(UNION {assignments[a].scope : a \in Executing})}

(* What is reported of the Intent, and of each Assignment. *)
IntentIssues == TerminalIssues \cup SuspensionIssues \cup EvidenceIssues \cup DriftIssues
WorkIssues(a) == InvocationIssues(a) \cup SupersessionIssues(a) \cup ResultIssues(a)

(***************************************************************************)
(* Properties.                                                             *)
(***************************************************************************)

(* Records that only the operations have written are not diagnosed as      *)
(* damaged, however the calls are ordered, but for work still to be done,  *)
(* a suspension whose reason was cleared and drift, and for what the       *)
(* operations themselves let happen, each with its cause:                  *)
(* - a completed result was taken without evidence, and so was an accepted *)
(*   review, or whatever Root recorded of an Intent without supersessions; *)
(* - the replacement of an Assignment was replaced in turn, which          *)
(*   overwrites the reason both must share (supersedeAssignment);          *)
(* - the Intent was abandoned, or operations failed, while it was          *)
(*   suspended, which leaves its resume target behind.                     *)
OperationsRan == \E a \in Operations : assignments[a].issued > 0

LawfulRecordsDiagnosedSound ==
    /\ IntentIssues \subseteq
         {"blocked_without_reason", "repository_drift"}
           \cup {c \in {"review_evidence_missing"} : ~intent.reviewed}
           \cup {c \in {"completion_evidence_missing"} :
                   ~intent.proven /\ ~intent.reviewed /\ Superseded = {}}
           \cup {c \in {"stale_resume_state"} :
                   intent.state = "abandoned" \/ (intent.state = "executing" /\ OperationsRan)}
    /\ \A a \in Existing : WorkIssues(a) \subseteq
         {"assignment_unresolved"}
           \cup {c \in {"completion_evidence_missing"} : ~assignments[a].evidence}
           \cup {c \in {"supersession_metadata_mismatch"} : assignments[a].by \in Superseded}
==============================================================================
