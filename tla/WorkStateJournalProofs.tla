----------------------- MODULE WorkStateJournalProofs -----------------------
(***************************************************************************)
(* Proofs about WorkStateJournal, and about WorkStateDiagnosis next to it,  *)
(* for every set of Assignments and every number of operations, failures   *)
(* and crashes.                                                            *)
(***************************************************************************)
EXTENDS WorkStateDiagnosis, TLAPS

IInv == TypeOK /\ JournalInv

(* A journaled write is never a single-record write: it names the Intent   *)
(* and at least one Assignment.                                            *)
LEMMA JournaledNotSingle ==
    ASSUME NEW S \in Journaled
    PROVE  S \notin Singles /\ S \in Writes /\ S \subseteq Files /\ IntentFile \in S
<1>1. PICK A \in (SUBSET Assignments) \ {{}} : S = A \cup {IntentFile}
  BY DEF Journaled
<1>2. PICK a \in A : a \in Assignments
  BY <1>1
<1>3. a # IntentFile
  BY <1>2, JournalAssumption
<1> QED
  BY <1>1, <1>2, <1>3 DEF Singles, Writes, Files

(* Every write names record files. *)
LEMMA WritesAreFiles ==
    ASSUME NEW S \in Writes
    PROVE  S \subseteq Files
BY JournaledNotSingle DEF Writes, Singles

(* What TypeOK says of a running operation and of a pending journal. *)
LEMMA RequestType ==
    ASSUME TypeOK, pc # "idle"
    PROVE  /\ request # NoRequest
           /\ DOMAIN request \in Writes
           /\ DOMAIN request \subseteq Files
           /\ \A f \in DOMAIN request : request[f] \in Nat
           /\ request = [f \in DOMAIN request |-> request[f]]
<1>1. PICK S \in Writes : request \in [S -> Nat]
  BY DEF TypeOK
<1> QED
  BY <1>1, WritesAreFiles, JournalAssumption

LEMMA JournalType ==
    ASSUME TypeOK, journal # NoJournal
    PROVE  /\ DOMAIN journal.next \in Journaled
           /\ DOMAIN journal.next \subseteq Files
           /\ journal \in Journals(DOMAIN journal.next)
           /\ Replayed(journal) \in [DOMAIN journal.next -> Nat]
           /\ journal.next \in [DOMAIN journal.next -> Nat]
<1>1. PICK S \in Journaled : journal \in Journals(S)
  BY DEF TypeOK
<1>2. DOMAIN journal.next = S
  BY <1>1 DEF Journals
<1> QED
  BY <1>1, <1>2, JournaledNotSingle DEF Journals, Replayed

(* Only files still to be done are written. *)
LEMMA ReplayedFile ==
    ASSUME IInv, pc \in {"recovering", "undoing"}, NEW f \in todo
    PROVE  f \in DOMAIN journal.next /\ f \in Files /\ Replayed(journal)[f] \in Nat
BY JournalType DEF IInv, JournalInv

LEMMA WrittenFile ==
    ASSUME IInv, pc = "writing", NEW f \in todo
    PROVE  f \in DOMAIN request /\ f \in Files /\ request[f] \in Nat
BY RequestType DEF IInv, JournalInv

(* A journal keeps its type when its commit mark is set. *)
LEMMA MarkedJournal ==
    ASSUME TypeOK, journal # NoJournal
    PROVE  LET m == [journal EXCEPT !.state = "committed"]
           IN  /\ m # NoJournal
               /\ m.state = "committed"
               /\ m.next = journal.next
               /\ \E S \in Journaled : m \in Journals(S)
<1> DEFINE m == [journal EXCEPT !.state = "committed"]
<1>1. PICK S \in Journaled : journal \in Journals(S)
  BY DEF TypeOK
<1>2. m \in Journals(S) /\ m.next = journal.next /\ m.state = "committed"
  BY <1>1 DEF Journals
<1> QED
  BY <1>1, <1>2, JournalAssumption

(* The journal entry of a request is a journal. *)
LEMMA PreparedJournal ==
    ASSUME TypeOK, pc # "idle", DOMAIN request \in Journaled
    PROVE  /\ Prepared # NoJournal
           /\ Prepared.state = "prepared"
           /\ Prepared.next = request
           /\ Prepared \in Journals(DOMAIN request)
<1>1. [f \in DOMAIN request |-> disk[f]] \in [DOMAIN request -> Nat]
  BY RequestType DEF TypeOK
<1>2. request \in [DOMAIN request -> Nat]
  BY RequestType
<1>3. Prepared \in Journals(DOMAIN request)
  BY <1>1, <1>2 DEF Prepared, Journals
<1> QED
  BY <1>3, JournalAssumption DEF Prepared

(* The end of an operation leaves a well-formed idle state. *)
LEMMA EndType ==
    ASSUME NEW why \in {"ok", "failed", "crashed"}, End(why)
    PROVE  /\ pc' = "idle" /\ todo' = {} /\ request' = NoRequest
           /\ reply' \in {"none", "ok", "failed", "crashed"}
BY DEF End

(* Every step keeps the types. *)
LEMMA TypeStep ==
    ASSUME IInv, [Next]_vars
    PROVE  TypeOK'
<1> USE DEF IInv
<1>1. CASE UNCHANGED vars
  BY <1>1 DEF vars, TypeOK
<1>2. CASE Begin
  <2>1. PICK S \in Writes : request' = [f \in S |-> ops + 1]
    BY <1>2 DEF Begin
  <2>2. ops + 1 \in 0..MaxOps
    BY <1>2, JournalAssumption DEF Begin, TypeOK
  <2>3. request' \in [S -> Nat]
    BY <2>1, <2>2, JournalAssumption
  <2>4. pc' \in {"locked", "recovering"} /\ todo' \subseteq Files
    BY <1>2, JournalType DEF Begin
  <2> QED
    BY <1>2, <2>2, <2>3, <2>4 DEF Begin, TypeOK
<1>3. CASE \E f \in Files : Replay(f)
  <2>1. PICK f \in Files : Replay(f)
    BY <1>3
  <2>2. f \in todo /\ pc \in {"recovering", "undoing"}
    BY <2>1 DEF Replay, NextFile
  <2>3. Replayed(journal)[f] \in Nat
    BY <2>2, ReplayedFile
  <2> QED
    BY <2>1, <2>3 DEF Replay, TypeOK
<1>4. CASE Discard
  BY <1>4, EndType DEF Discard, TypeOK
<1>5. CASE WriteSingle
  <2>1. \A f \in DOMAIN request : request[f] \in Nat
    BY <1>5, RequestType DEF WriteSingle
  <2>2. disk' \in [Files -> Nat]
    BY <1>5, <2>1 DEF WriteSingle, TypeOK
  <2> QED
    BY <1>5, <2>2 DEF WriteSingle, TypeOK
<1>6. CASE SingleDone
  BY <1>6, EndType DEF SingleDone, TypeOK
<1>7. CASE Reject
  BY <1>7, EndType DEF Reject, TypeOK
<1>8. CASE Prepare
  <2>1. Prepared \in Journals(DOMAIN request) /\ DOMAIN request \subseteq Files
    BY <1>8, PreparedJournal, RequestType DEF Prepare
  <2> QED
    BY <1>8, <2>1 DEF Prepare, TypeOK
<1>9. CASE \E f \in Files : Write(f)
  <2>1. PICK f \in Files : Write(f)
    BY <1>9
  <2>2. request[f] \in Nat
    BY <2>1, WrittenFile DEF Write, NextFile
  <2> QED
    BY <2>1, <2>2 DEF Write, TypeOK
<1>10. CASE Mark
  <2>1. journal # NoJournal
    BY <1>10 DEF Mark, JournalInv
  <2> QED
    BY <1>10, <2>1, MarkedJournal DEF Mark, TypeOK
<1>11. CASE Remove
  BY <1>11, EndType DEF Remove, TypeOK
<1>12. CASE Failure
  <2>1. faults' \in 0..MaxFaults /\ ops' = ops
    BY <1>12, JournalAssumption
       DEF Failure, ReplayFails, SingleFails, PrepareFails, CommitFails, RemoveFails, Crash, Fault, TypeOK
  <2>2. CASE ReplayFails
    <3>1. disk' \in [Files -> Nat]
      BY <2>2, ReplayedFile DEF ReplayFails, NextFile, TypeOK
    <3>2. journal' \in {journal, NoJournal}
      BY <2>2 DEF ReplayFails
    <3> QED
      BY <2>1, <2>2, <3>1, <3>2, EndType DEF ReplayFails, TypeOK
  <2>3. CASE SingleFails
    BY <2>1, <2>3, EndType DEF SingleFails, TypeOK
  <2>4. CASE PrepareFails
    <3>1. Prepared \in Journals(DOMAIN request)
      BY <2>4, PreparedJournal DEF PrepareFails
    <3> QED
      BY <2>1, <2>4, <3>1, EndType DEF PrepareFails, TypeOK
  <2>5. CASE CommitFails
    <3>1. journal # NoJournal /\ DOMAIN request \subseteq Files
      BY <2>5, RequestType DEF CommitFails, JournalInv
    <3>2. disk' \in [Files -> Nat]
      BY <2>5, WrittenFile DEF CommitFails, NextFile, TypeOK
    <3>3. journal' # NoJournal => \E S \in Journaled : journal' \in Journals(S)
      BY <2>5, <3>1, MarkedJournal DEF CommitFails, TypeOK
    <3> QED
      BY <2>1, <2>5, <3>1, <3>2, <3>3 DEF CommitFails, TypeOK
  <2>6. CASE RemoveFails
    BY <2>1, <2>6, EndType DEF RemoveFails, TypeOK
  <2>7. CASE Crash
    BY <2>1, <2>7, EndType DEF Crash, TypeOK
  <2> QED
    BY <1>12, <2>2, <2>3, <2>4, <2>5, <2>6, <2>7 DEF Failure
<1> QED
  BY <1>1, <1>2, <1>3, <1>4, <1>5, <1>6, <1>7, <1>8, <1>9, <1>10, <1>11, <1>12 DEF Next, Step

(* The end of an operation asks nothing of the files. *)
LEMMA IdleInv ==
    ASSUME pc' = "idle"
    PROVE  JournalInv'
BY DEF JournalInv

(* Every step keeps the files where the program point says they are. *)
LEMMA JournalStep ==
    ASSUME IInv, [Next]_vars
    PROVE  JournalInv'
<1> USE DEF IInv
<1>1. CASE UNCHANGED vars
  BY <1>1 DEF vars, JournalInv, Replayed
<1>2. CASE Begin
  BY <1>2 DEF Begin, JournalInv, Replayed
<1>3. CASE \E f \in Files : Replay(f)
  <2>1. PICK f \in Files : Replay(f)
    BY <1>3
  <2>2. disk' = [disk EXCEPT ![f] = Replayed(journal)[f]] /\ todo' = todo \ {f}
    BY <2>1 DEF Replay
  <2>3. \A g \in DOMAIN journal.next \ todo' : disk'[g] = Replayed(journal)[g]
    <3>1. DOMAIN disk = Files /\ DOMAIN journal.next \subseteq Files
      BY <2>1, JournalType DEF TypeOK, Replay, JournalInv
    <3> QED
      BY <2>1, <2>2, <3>1 DEF Replay, JournalInv
  <2> QED
    BY <2>1, <2>3 DEF Replay, JournalInv, Replayed
<1>4. CASE Discard
  <2>1. CASE pc = "recovering"
    BY <1>4, <2>1 DEF Discard, JournalInv
  <2>2. CASE pc # "recovering"
    BY <1>4, <2>2, IdleInv DEF Discard, End
  <2> QED
    BY <2>1, <2>2
<1>5. CASE WriteSingle
  <2>1. \A f \in DOMAIN request : disk'[f] = request[f]
    BY <1>5, RequestType DEF WriteSingle
  <2> QED
    BY <1>5, <2>1 DEF WriteSingle, JournalInv
<1>6. CASE SingleDone \/ Reject \/ Remove
  BY <1>6, IdleInv DEF SingleDone, Reject, Remove, End
<1>7. CASE Prepare
  BY <1>7, PreparedJournal DEF Prepare, JournalInv
<1>8. CASE \E f \in Files : Write(f)
  <2>1. PICK f \in Files : Write(f)
    BY <1>8
  <2>2. disk' = [disk EXCEPT ![f] = request[f]] /\ todo' = todo \ {f}
    BY <2>1 DEF Write
  <2>3. \A g \in DOMAIN request \ todo' : disk'[g] = request[g]
    <3>1. DOMAIN disk = Files /\ DOMAIN request \subseteq Files
      BY <2>1, RequestType DEF TypeOK, Write
    <3> QED
      BY <2>1, <2>2, <3>1 DEF Write, JournalInv
  <2> QED
    BY <2>1, <2>3 DEF Write, JournalInv
<1>9. CASE Mark
  BY <1>9, MarkedJournal DEF Mark, JournalInv
<1>10. CASE Failure
  <2>1. CASE CommitFails
    <3>1. journal # NoJournal /\ journal.next = request
      BY <2>1 DEF CommitFails, JournalInv
    <3>2. journal' # NoJournal /\ journal'.next = request
      BY <2>1, <3>1, MarkedJournal DEF CommitFails
    <3> QED
      BY <2>1, <3>2 DEF CommitFails, JournalInv
  <2>2. CASE ~CommitFails
    BY <1>10, <2>2, IdleInv
       DEF Failure, ReplayFails, SingleFails, PrepareFails, RemoveFails, Crash, End
  <2> QED
    BY <2>1, <2>2
<1> QED
  BY <1>1, <1>2, <1>3, <1>4, <1>5, <1>6, <1>7, <1>8, <1>9, <1>10 DEF Next, Step

(* Type correctness and the invariant of the program points, for any       *)
(* number of Assignments, operations and failures.                         *)
THEOREM Invariance == Spec => [](TypeOK /\ JournalInv)
<1>1. Init => IInv
  BY JournalAssumption DEF Init, IInv, TypeOK, JournalInv, Files
<1>2. IInv /\ [Next]_vars => IInv'
  BY TypeStep, JournalStep DEF IInv
<1>3. QED
  BY <1>1, <1>2, PTL DEF Spec, IInv

(* With no journal the store is what the files hold. *)
LEMMA StoreIsDisk ==
    ASSUME journal = NoJournal
    PROVE  Store = [f \in Files |-> disk[f]]
BY DEF Store

(* Writing files that the journal names does not move the store. *)
LEMMA StoreUnderJournal ==
    ASSUME journal # NoJournal, journal' = journal,
           \A f \in Files \ DOMAIN journal.next : disk'[f] = disk[f]
    PROVE  Store' = Store
BY DEF Store, Replayed

(* Dropping a journal whose replay is complete does not move it either. *)
LEMMA StoreWithoutJournal ==
    ASSUME IInv, journal # NoJournal, journal' \in {journal, NoJournal}, disk' = disk,
           \A f \in DOMAIN journal.next : disk[f] = Replayed(journal)[f]
    PROVE  Store' = Store
BY JournalType DEF Store, Replayed, IInv

(* Nor does preparing one. *)
LEMMA StoreWhenPrepared ==
    ASSUME IInv, pc = "locked", DOMAIN request \in Journaled,
           journal' \in {journal, Prepared}, disk' = disk
    PROVE  Store' = Store
<1>1. journal = NoJournal
  BY DEF IInv, JournalInv
<1>2. CASE journal' = journal
  BY <1>1, <1>2 DEF Store
<1>3. CASE journal' = Prepared
  <2>1. journal' # NoJournal /\ journal'.state = "prepared"
        /\ DOMAIN journal'.next = DOMAIN request
    BY <1>3, PreparedJournal DEF IInv
  <2>2. \A f \in DOMAIN request : Replayed(journal')[f] = disk[f]
    BY <1>3, <2>1 DEF Prepared, Replayed
  <2> QED
    BY <1>1, <2>1, <2>2 DEF Store, Replayed
<1> QED
  BY <1>2, <1>3

(* The commit mark moves the whole request into the store at once. *)
LEMMA StoreWhenMarked ==
    ASSUME IInv, pc = "writing", todo = {}, disk' = disk,
           journal' = [journal EXCEPT !.state = "committed"]
    PROVE  Store' = Abstract!Effect(Store, request)
<1>1. journal # NoJournal /\ journal.next = request /\ DOMAIN request \subseteq Files
  BY RequestType DEF IInv, JournalInv
<1>2. journal' # NoJournal /\ journal'.next = request /\ journal'.state = "committed"
  BY <1>1, MarkedJournal DEF IInv
<1> QED
  BY <1>1, <1>2 DEF Store, Replayed, Abstract!Effect

(* Before its effect an operation has not been taken into the store. *)
LEMMA NotTaken ==
    ASSUME pc \in {"idle", "recovering", "locked", "writing"}
    PROVE  Taken = FALSE
BY DEF Taken

(* A failing operation is a failure of the abstract store. *)
LEMMA FailureRefines ==
    ASSUME NEW why \in {"failed", "crashed"}, IInv, pc # "idle", End(why), Store' = Store
    PROVE  Abstract!GiveUp(why)
<1>1. request # NoRequest
  BY RequestType DEF IInv
<1>2. Taken' = FALSE
  BY DEF Taken, End
<1> QED
  BY <1>1, <1>2 DEF Abstract!GiveUp, End

(* Every step of the journal is a step of the abstract store or none. *)
LEMMA StepRefines ==
    ASSUME IInv, IInv', [Next]_vars
    PROVE  [Abstract!Next]_(Abstract!vars)
<1> USE DEF Abstract!vars
<1>1. CASE UNCHANGED vars
  BY <1>1 DEF vars, Store, Taken, Replayed
<1>2. CASE Begin
  <2>1. Store' = Store
    BY <1>2 DEF Begin, Store, Replayed
  <2>2. Taken' = FALSE
    BY <1>2 DEF Begin, Taken
  <2>3. request = NoRequest
    BY <1>2 DEF Begin, IInv, TypeOK
  <2>4. \E S \in Writes : request' \in [S -> Nat]
    BY <1>2 DEF Begin, IInv, TypeOK
  <2>5. reply' = "none"
    BY <1>2 DEF Begin
  <2> QED
    BY <2>1, <2>2, <2>3, <2>4, <2>5 DEF Abstract!Begin, Abstract!Next
<1>3. CASE \E f \in Files : Replay(f)
  <2>1. PICK f \in Files : Replay(f)
    BY <1>3
  <2>2. journal # NoJournal /\ f \in DOMAIN journal.next
    BY <2>1, ReplayedFile DEF Replay, NextFile, IInv, JournalInv
  <2>3. Store' = Store
    BY <2>1, <2>2, StoreUnderJournal DEF Replay
  <2>4. Taken' = Taken
    BY <2>1 DEF Replay, Taken
  <2> QED
    BY <2>1, <2>3, <2>4 DEF Replay
<1>4. CASE Discard
  <2>1. Store' = Store
    BY <1>4, StoreWithoutJournal DEF Discard, IInv, JournalInv
  <2>2. CASE pc = "recovering"
    BY <1>4, <2>1, <2>2 DEF Discard, Taken
  <2>3. CASE pc # "recovering"
    BY <1>4, <2>1, <2>3, FailureRefines DEF Discard, Abstract!Next
  <2> QED
    BY <2>2, <2>3
<1>5. CASE WriteSingle
  <2>1. journal = NoJournal /\ journal' = NoJournal
    BY <1>5 DEF WriteSingle, IInv, JournalInv
  <2>2. Store' = Abstract!Effect(Store, request)
    BY <1>5, <2>1 DEF WriteSingle, Store, Abstract!Effect
  <2>3. Taken = FALSE /\ Taken' = TRUE
    BY <1>5 DEF WriteSingle, Taken
  <2>4. request # NoRequest
    BY <1>5, RequestType DEF WriteSingle, IInv
  <2> QED
    BY <1>5, <2>2, <2>3, <2>4 DEF WriteSingle, Abstract!Apply, Abstract!Next
<1>6. CASE SingleDone
  <2>1. Store' = Store
    BY <1>6 DEF SingleDone, Store, Replayed
  <2>2. Taken = TRUE /\ Taken' = FALSE
    BY <1>6 DEF SingleDone, Taken, End
  <2>3. request # NoRequest
    BY <1>6, RequestType DEF SingleDone, IInv
  <2> QED
    BY <1>6, <2>1, <2>2, <2>3 DEF SingleDone, End, Abstract!Succeed, Abstract!Next
<1>7. CASE Reject
  <2>1. Store' = Store
    BY <1>7 DEF Reject, Store, Replayed
  <2> QED
    BY <1>7, <2>1, FailureRefines DEF Reject, Abstract!Next
<1>8. CASE Prepare
  <2>1. Store' = Store
    BY <1>8, StoreWhenPrepared DEF Prepare
  <2>2. Taken = FALSE /\ Taken' = FALSE
    BY <1>8 DEF Prepare, Taken
  <2> QED
    BY <1>8, <2>1, <2>2 DEF Prepare
<1>9. CASE \E f \in Files : Write(f)
  <2>1. PICK f \in Files : Write(f)
    BY <1>9
  <2>2. journal # NoJournal /\ f \in DOMAIN journal.next
    BY <2>1, WrittenFile DEF Write, NextFile, IInv, JournalInv
  <2>3. Store' = Store
    BY <2>1, <2>2, StoreUnderJournal DEF Write
  <2>4. Taken' = Taken
    BY <2>1 DEF Write, Taken
  <2> QED
    BY <2>1, <2>3, <2>4 DEF Write
<1>10. CASE Mark
  <2>1. Store' = Abstract!Effect(Store, request)
    BY <1>10, StoreWhenMarked DEF Mark
  <2>2. Taken = FALSE /\ Taken' = TRUE
    BY <1>10 DEF Mark, Taken
  <2>3. request # NoRequest
    BY <1>10, RequestType DEF Mark, IInv
  <2> QED
    BY <1>10, <2>1, <2>2, <2>3 DEF Mark, Abstract!Apply, Abstract!Next
<1>11. CASE Remove \/ RemoveFails
  <2>1. pc = "marked" /\ journal' \in {journal, NoJournal} /\ disk' = disk
    BY <1>11 DEF Remove, RemoveFails
  <2>2. Store' = Store
    BY <2>1, StoreWithoutJournal DEF IInv, JournalInv, Replayed
  <2>3. CASE Remove
    <3>1. Taken = TRUE /\ Taken' = FALSE
      BY <2>3 DEF Remove, Taken, End
    <3>2. request # NoRequest
      BY <2>1, RequestType DEF IInv
    <3> QED
      BY <2>2, <2>3, <3>1, <3>2 DEF Remove, End, Abstract!Succeed, Abstract!Next
  <2>4. CASE RemoveFails
    BY <2>1, <2>2, <2>4, FailureRefines DEF RemoveFails, Abstract!Next
  <2> QED
    BY <1>11, <2>3, <2>4
<1>12. CASE ReplayFails
  <2>1. journal # NoJournal /\ pc # "idle"
    BY <1>12 DEF ReplayFails, IInv, JournalInv
  <2>2. Store' = Store
    <3>1. CASE todo = {} /\ journal' \in {journal, NoJournal} /\ disk' = disk
      BY <1>12, <2>1, <3>1, StoreWithoutJournal DEF ReplayFails, IInv, JournalInv
    <3>2. CASE /\ journal' = journal
               /\ \E f \in Files : /\ NextFile(f)
                                  /\ disk' \in {disk, [disk EXCEPT ![f] = Replayed(journal)[f]]}
      <4>1. PICK f \in Files :
              NextFile(f) /\ disk' \in {disk, [disk EXCEPT ![f] = Replayed(journal)[f]]}
        BY <3>2
      <4>2. f \in DOMAIN journal.next
        BY <1>12, <4>1, ReplayedFile DEF ReplayFails, NextFile
      <4>3. \A g \in Files \ DOMAIN journal.next : disk'[g] = disk[g]
        BY <4>1, <4>2 DEF IInv, TypeOK
      <4> QED
        BY <2>1, <3>2, <4>3, StoreUnderJournal
    <3> QED
      BY <1>12, <3>1, <3>2 DEF ReplayFails
  <2> QED
    BY <1>12, <2>1, <2>2, FailureRefines DEF ReplayFails, Abstract!Next
<1>13. CASE SingleFails
  <2>1. Store' = Store
    BY <1>13 DEF SingleFails, Store, Replayed
  <2> QED
    BY <1>13, <2>1, FailureRefines DEF SingleFails, Abstract!Next
<1>14. CASE PrepareFails
  <2>1. Store' = Store
    BY <1>14, StoreWhenPrepared DEF PrepareFails
  <2> QED
    BY <1>14, <2>1, FailureRefines DEF PrepareFails, Abstract!Next
<1>15. CASE CommitFails
  <2>1. /\ pc = "writing" /\ pc' = "undoing" /\ UNCHANGED <<request, reply>>
        /\ journal # NoJournal /\ journal.state = "prepared" /\ journal.next = request
        /\ request # NoRequest
    BY <1>15, RequestType DEF CommitFails, IInv, JournalInv
  <2>2. CASE todo = {} /\ disk' = disk /\ journal' = [journal EXCEPT !.state = "committed"]
    <3>1. Store' = Abstract!Effect(Store, request)
      BY <2>1, <2>2, StoreWhenMarked
    <3>2. journal'.state = "committed"
      BY <2>1, <2>2, MarkedJournal DEF IInv
    <3>3. Taken = FALSE /\ Taken' = TRUE
      BY <2>1, <3>2 DEF Taken
    <3> QED
      BY <2>1, <3>1, <3>3 DEF Abstract!Apply, Abstract!Next
  <2>3. CASE journal' = journal /\ \A f \in Files \ DOMAIN journal.next : disk'[f] = disk[f]
    <3>1. Store' = Store
      BY <2>1, <2>3, StoreUnderJournal
    <3>2. Taken = FALSE /\ Taken' = FALSE
      BY <2>1, <2>3 DEF Taken
    <3> QED
      BY <2>1, <3>1, <3>2
  <2>4. ASSUME \E f \in Files : NextFile(f) /\ disk' \in {disk, [disk EXCEPT ![f] = request[f]]}
        PROVE  \A g \in Files \ DOMAIN journal.next : disk'[g] = disk[g]
    <3>1. PICK f \in Files : NextFile(f) /\ disk' \in {disk, [disk EXCEPT ![f] = request[f]]}
      BY <2>4
    <3>2. f \in DOMAIN journal.next
      BY <2>1, <3>1, WrittenFile DEF NextFile
    <3> QED
      BY <3>1, <3>2 DEF IInv, TypeOK
  <2>5. \/ todo = {} /\ disk' = disk /\ journal' = [journal EXCEPT !.state = "committed"]
        \/ journal' = journal /\ \A f \in Files \ DOMAIN journal.next : disk'[f] = disk[f]
    BY <1>15, <2>4 DEF CommitFails
  <2> QED
    BY <2>2, <2>3, <2>5
<1>16. CASE Crash
  <2>1. Store' = Store
    BY <1>16 DEF Crash, Store, Replayed
  <2> QED
    BY <1>16, <2>1, FailureRefines DEF Crash, Abstract!Next
<1> QED
  BY <1>1, <1>2, <1>3, <1>4, <1>5, <1>6, <1>7, <1>8, <1>9, <1>10, <1>11, <1>12, <1>13,
     <1>14, <1>15, <1>16 DEF Next, Step, Failure

(* Whatever fails or dies, an operation replaces all of its records in one *)
(* step or none of them, and a success is reported only after that step.   *)
THEOREM Refinement == Spec => Implements
<1>1. Init => Abstract!Init
  BY JournalAssumption DEF Init, Abstract!Init, Store, Taken, Files
<1>2. IInv /\ IInv' /\ [Next]_vars => [Abstract!Next]_(Abstract!vars)
  BY StepRefines
<1>3. QED
  BY <1>1, <1>2, Invariance, PTL DEF Spec, IInv, Implements, Abstract!Spec

(* An operation that reports success has replaced all of its records and   *)
(* has left no journal that could roll them back.                          *)
THEOREM FinalSuccess == Spec => SuccessIsFinal
<1>1. ASSUME IInv, [Next]_vars, reply' = "ok", reply # "ok"
      PROVE  journal' = NoJournal /\ \A f \in DOMAIN request : disk'[f] = request[f]
  <2>1. CASE SingleDone
    BY <1>1, <2>1 DEF SingleDone, IInv, JournalInv
  <2>2. CASE Remove
    BY <1>1, <2>2 DEF Remove, IInv, JournalInv
  <2>3. SingleDone \/ Remove
    BY <1>1 DEF Next, Step, Failure, Begin, Replay, Discard, WriteSingle, SingleFails, Reject, Prepare,
                PrepareFails, Write, Mark, CommitFails, RemoveFails, ReplayFails, Crash, End, vars
  <2> QED
    BY <2>1, <2>2, <2>3
<1>2. IInv /\ [Next]_vars =>
        [reply' = "ok" /\ reply # "ok" =>
           /\ journal' = NoJournal
           /\ \A f \in DOMAIN request : disk'[f] = request[f]]_vars
  BY <1>1
<1> QED
  BY <1>2, Invariance, PTL DEF Spec, IInv, SuccessIsFinal

(***************************************************************************)
(* Diagnosis.                                                              *)
(***************************************************************************)
(* A diagnosis writes nothing: with it, the operations do what they do     *)
(* without it, so that everything proved above holds next to one.          *)
THEOREM DiagnosisReadsOnly == DSpec => Spec
<1>1. DInit => Init
  BY DEF DInit
<1>2. [DNext]_allvars => [Next]_vars
  BY DEF DNext, Operate, Diagnose, ReadIntent, CheckJournal, ReadAssignment, Report, Finish, allvars
<1> QED
  BY <1>1, <1>2, PTL DEF DSpec, Spec

(* While no operation has run since the diagnosis began, what it has read  *)
(* is what the files hold.                                                 *)
ReadSoFar ==
    /\ quiet /\ dpc \in {"check", "assignments", "reported"} => dIntent = disk[IntentFile]
    /\ quiet /\ dpc \in {"assignments", "reported"} => dPending = (journal # NoJournal)
    /\ quiet => \A a \in Assignments : dSeen[a] \in {Unread, disk[a]}
    /\ dpc = "reported" => \A a \in Assignments : dSeen[a] # Unread
    /\ DOMAIN dSeen = Assignments

LEMMA ReadStep ==
    ASSUME ReadSoFar, [DNext]_allvars
    PROVE  ReadSoFar'
<1> USE DEF ReadSoFar
<1>1. CASE UNCHANGED allvars
  BY <1>1 DEF allvars, vars, dvars
<1>2. CASE Operate
  BY <1>2 DEF Operate, dvars
<1>3. CASE ReadIntent
  BY <1>3 DEF ReadIntent, vars
<1>4. CASE CheckJournal
  BY <1>4 DEF CheckJournal, vars
<1>5. CASE \E a \in Assignments : ReadAssignment(a)
  BY <1>5 DEF ReadAssignment, vars
<1>6. CASE Report
  BY <1>6 DEF Report, vars
<1>7. CASE Finish
  BY <1>7 DEF Finish, vars
<1> QED
  BY <1>1, <1>2, <1>3, <1>4, <1>5, <1>6, <1>7 DEF DNext, Diagnose

(* A diagnosis during which nothing runs, but that finds whatever a dead   *)
(* process has left, reports a pending transaction exactly when there is   *)
(* one; when it reports none, it has compared the records every later      *)
(* operation will find.                                                    *)
THEOREM QuietDiagnosis == DSpec => []QuietDiagnosisSound
<1>1. DInit => ReadSoFar
  BY DEF DInit, ReadSoFar
<1>2. ReadSoFar /\ [DNext]_allvars => ReadSoFar'
  BY ReadStep
<1>3. ReadSoFar => QuietDiagnosisSound
  BY DEF ReadSoFar, QuietDiagnosisSound, Store, Files
<1> QED
  BY <1>1, <1>2, <1>3, PTL DEF DSpec
============================================================================
