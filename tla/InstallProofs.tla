----------------------------- MODULE InstallProofs -----------------------------
(***************************************************************************)
(* Proofs about Install, for any selections, providers and user values,    *)
(* any number of commands, troubles and releases.                          *)
(***************************************************************************)
EXTENDS Install, TLAPS

(***************************************************************************)
(* The inductive invariant.                                                *)
(***************************************************************************)
InstallFields ==
    {"cmd", "sel", "prev", "doc", "live", "holding", "before", "target", "entry", "refresh",
     "reviewed", "jr", "snap", "current", "todo", "roles", "kept", "native", "nativeDone", "added",
     "unsure", "gone", "effects", "recorded", "failing", "failed"}
RemovalFields ==
    {"cmd", "after", "rec", "now", "conflicts", "accept", "doc", "hadActive", "reviewed", "roles",
     "todo", "preserved"}
RecordFields == {"id", "sel", "entry", "before", "after", "owned", "arts"}

Fresh == {"journal", "snapshot", "read", "roles", "plan", "setup", "plugins", "own", "published",
          "omit", "unown", "record", "clear"}
Failing == {"rb_record", "rb_config", "rb_roles", "rb_end", "rb_clear"}
Removing == {"rm_config", "rm_checkpoint", "rm_stop", "rm_roles", "rm_plugins", "rm_options",
             "rm_preparing", "rm_conflicted", "rm_dirs", "restart"}

(* The user had none of these plugins before. *)
Apart(S) == S \cap mine.plugins = {}

WellFormed(rec) ==
    /\ RecordFields \subseteq DOMAIN rec
    /\ {"orig", "last"} \subseteq DOMAIN rec.entry
    /\ Apart(rec.owned)

(* What an install remembers: whatever it may take back or omit is not the *)
(* user's, and the entries of the key are of its own, of the reviewed      *)
(* value, or of the record it has found.                                   *)
Installing(m) ==
    /\ InstallFields \subseteq DOMAIN m /\ {"key", "pref"} \subseteq DOMAIN m.doc
    /\ WellFormed(m.jr) /\ (m.prev = NoRec \/ WellFormed(m.prev))
    /\ Apart(m.added) /\ Apart(m.gone) /\ (m.refresh => Holy \notin mine.plugins)
    /\ {"orig", "last"} \subseteq DOMAIN m.entry
    /\ m.entry = NoEntry \/ m.entry.last \in Selections \cup {m.doc.key}
    /\ \/ m.jr.entry \in {NoEntry, EntryOf(m.prev)}
       \/ m.jr.entry.last \in Selections \cup {m.doc.key, m.live}

InstallInv ==
    /\ Installing(mem)
    /\ pc \in {"omit", "unown"} => Apart(mem.todo)
    /\ pc \in Fresh /\ mem.holding = "taken" => mem.live = mem.doc.key
    /\ pc \in {"journal", "snapshot"} => mem.jr.entry = EntryOf(mem.prev)

RemovalInv ==
    /\ RemovalFields \subseteq DOMAIN mem
    /\ WellFormed(mem.rec) /\ WellFormed(mem.now) /\ Apart(mem.todo)
    /\ mem.after \in Selections \cup {NoRec} /\ (pc = "restart" => mem.after # NoRec)

RecordsWellFormed == \A rec \in {active, preparing, conflicted} \ {NoRec} : WellFormed(rec)

IInv ==
    /\ UserPluginsStay
    /\ RecordsWellFormed
    /\ pc \in {"idle"} \cup Fresh \cup Failing \cup Removing
    /\ pc \in Fresh \cup Failing => InstallInv
    /\ pc \in Removing => RemovalInv

(***************************************************************************)
(* Lemmas.                                                                 *)
(***************************************************************************)
LEMMA Pcs ==
    /\ Fresh \cap Failing = {} /\ Fresh \cap Removing = {} /\ Failing \cap Removing = {}
    /\ "idle" \notin Fresh \cup Failing \cup Removing
BY DEF Fresh, Failing, Removing

(* The records found are kept in the form of a journal. *)
LEMMA Journaled ==
    ASSUME NEW rec, WellFormed(rec)
    PROVE  WellFormed(AsJournal(rec)) /\ AsJournal(rec).owned = rec.owned
BY DEF WellFormed, AsJournal, RecordFields

LEMMA Recovered ==
    ASSUME RecordsWellFormed, RecoveryState(active, preparing, conflicted) # NoRec
    PROVE  WellFormed(RecoveryState(active, preparing, conflicted))
BY DEF RecordsWellFormed, RecoveryState, Interrupted, Usable

(* What an install remembers stays right while it notes its progress.      *)
Progress(n) ==
    /\ InstallFields \subseteq DOMAIN n
    /\ n.prev = mem.prev /\ n.doc = mem.doc /\ n.live = mem.live /\ n.holding = mem.holding
    /\ n.entry = mem.entry /\ n.refresh = mem.refresh
    /\ DOMAIN n.jr = DOMAIN mem.jr /\ n.jr.entry \in {mem.jr.entry, EntryAfter}
    /\ Apart(n.added) /\ Apart(n.gone) /\ Apart(n.jr.owned)

LEMMA StillInstalling ==
    ASSUME Installing(mem), NEW n, Progress(n)
    PROVE  Installing(n)
<1>1. \/ EntryAfter = mem.entry
      \/ EntryAfter.last = mem.live /\ {"orig", "last"} \subseteq DOMAIN EntryAfter
  BY DEF EntryAfter, Installing
<1>2. /\ InstallFields \subseteq DOMAIN n /\ {"key", "pref"} \subseteq DOMAIN n.doc
      /\ Apart(n.added) /\ Apart(n.gone) /\ (n.refresh => Holy \notin mine.plugins)
      /\ (n.prev = NoRec \/ WellFormed(n.prev))
      /\ {"orig", "last"} \subseteq DOMAIN n.entry
      /\ n.entry = NoEntry \/ n.entry.last \in Selections \cup {n.doc.key}
  BY DEF Installing, Progress
<1>3. WellFormed(n.jr)
  BY <1>1 DEF Installing, Progress, WellFormed
<1>4. \/ n.jr.entry \in {NoEntry, EntryOf(n.prev)}
      \/ n.jr.entry.last \in Selections \cup {n.doc.key, n.live}
  <2>1. CASE n.jr.entry = mem.jr.entry
    BY <2>1 DEF Installing, Progress
  <2>2. CASE n.jr.entry = EntryAfter
    BY <1>1, <2>2 DEF Installing, Progress
  <2> QED
    BY <2>1, <2>2 DEF Progress
<1> QED
  BY <1>2, <1>3, <1>4 DEF Installing

(* A step of an install. *)
LEMMA Proceeds ==
    ASSUME IInv, UNCHANGED mine, RecordsWellFormed', UserPluginsStay',
           NEW n, mem' = n, Installing(n), pc' \in Fresh \cup Failing,
           pc' \in {"omit", "unown"} => Apart(n.todo),
           pc' \in Fresh /\ n.holding = "taken" => n.live = n.doc.key,
           pc' \in {"journal", "snapshot"} => n.jr.entry = EntryOf(n.prev)
    PROVE  IInv'
<1>1. Installing(mem)'
  BY DEF Installing, WellFormed, Apart, EntryOf
<1>2. InstallInv'
  BY <1>1, Pcs DEF InstallInv, Apart, EntryOf
<1> QED
  BY <1>2, Pcs DEF IInv

(* One that notes its progress. *)
LEMMA Notes ==
    ASSUME IInv, UNCHANGED mine, RecordsWellFormed', UserPluginsStay',
           NEW n, mem' = n, Progress(n), pc \in Fresh \cup Failing, pc' \in Fresh \cup Failing,
           pc \in Failing => pc' \in Failing,
           pc' \in {"omit", "unown"} => Apart(n.todo),
           pc' \in {"journal", "snapshot"} => n = mem /\ pc = "journal"
    PROVE  IInv'
<1>1. InstallInv /\ Installing(n)
  BY StillInstalling DEF IInv, InstallInv
<1>2. n.live = mem.live /\ n.holding = mem.holding /\ n.doc = mem.doc
  BY DEF Progress
<1>3. pc' \in Fresh => pc \in Fresh
  BY Pcs
<1> QED
  BY <1>1, <1>2, <1>3, Proceeds DEF InstallInv

(* The memory as it is. *)
LEMMA NoProgress ==
    ASSUME Installing(mem)
    PROVE  Progress(mem)
BY DEF Progress, Installing, WellFormed

(* The command is over. *)
LEMMA Ends ==
    ASSUME IInv, UNCHANGED mine, RecordsWellFormed', UserPluginsStay', pc' = "idle"
    PROVE  IInv'
BY Pcs DEF IInv

(* Records and plugins stay. *)
LEMMA RecordsStay ==
    ASSUME IInv, UNCHANGED <<disk, mine>>
    PROVE  RecordsWellFormed'
BY DEF IInv, RecordsWellFormed, WellFormed, Apart, disk

LEMMA RecordWritten ==
    ASSUME IInv, UNCHANGED mine, NEW rec, rec = NoRec \/ WellFormed(rec),
           active' \in {active, rec}, preparing' \in {preparing, rec}, conflicted' \in {conflicted, rec}
    PROVE  RecordsWellFormed'
BY DEF IInv, RecordsWellFormed, WellFormed, Apart

LEMMA PluginsStay ==
    ASSUME IInv, UNCHANGED <<installed, mine>>
    PROVE  UserPluginsStay'
BY DEF IInv, UserPluginsStay

(* A journal write, or its failure. *)
LEMMA WriteStep ==
    ASSUME IInv, pc \in Fresh, NEW n, Progress(n), NEW next \in Fresh \cup {"rb_record"},
           Write(n.jr, next, n), UNCHANGED installed,
           next \in {"omit", "unown"} => Apart(n.todo),
           next \in {"journal", "snapshot"} => n = mem /\ pc = "journal"
    PROVE  IInv'
<1>1. Installing(n) /\ WellFormed(n.jr)
  BY StillInstalling DEF IInv, InstallInv, Installing
<1>2. UNCHANGED mine
  BY DEF Write, Keep, Fault, FaultTearing
<1>3. RecordsWellFormed' /\ UserPluginsStay'
  BY <1>1, <1>2, RecordWritten, PluginsStay DEF Write
<1>4. "rb_record" \in Failing /\ "rb_record" \notin {"omit", "unown", "journal", "snapshot"}
  BY DEF Failing
<1>5. CASE pc' = next /\ mem' = n
  BY <1>2, <1>3, <1>4, <1>5, Notes, Pcs
<1>6. CASE pc' = "idle"
  BY <1>2, <1>3, <1>6, Ends
<1>7. CASE Fails(n)
  <2>1. pc' = "rb_record" /\ mem' = n
    BY <1>7 DEF Fails
  <2> QED
    BY <1>2, <1>3, <1>4, <2>1, Notes, Pcs
<1> QED
  BY <1>5, <1>6, <1>7 DEF Write

(***************************************************************************)
(* The steps of an install.                                                *)
(***************************************************************************)
LEMMA PreflightStep ==
    ASSUME IInv, UNCHANGED mine, NEW sel \in Selections, NEW decision, Preflight(sel, decision)
    PROVE  IInv'
<1>1. RecordsWellFormed' /\ UserPluginsStay'
  BY RecordsStay, PluginsStay DEF Preflight
<1>2. pc' = "journal" /\ "journal" \in Fresh /\ "journal" \notin {"omit", "unown"}
  BY DEF Preflight, Fresh
<1>3. active = NoRec \/ WellFormed(active)
  BY DEF IInv, RecordsWellFormed
<1>4. WellFormed(FirstJournal(sel)) /\ FirstJournal(sel).entry = EntryOf(active)
  BY <1>3 DEF FirstJournal, WellFormed, RecordFields, EntryOf, OwnedBy, NoEntry, Apart
<1> DEFINE e == IF KeptBefore THEN active.entry
                ELSE IF decision = "keep" THEN KeptEntry(EntryOf(active), key)
                ELSE Merged(EntryOf(active), key, sel)
<1>5. {"orig", "last"} \subseteq DOMAIN e /\ (e = NoEntry \/ e.last \in Selections \cup {key})
  BY <1>3 DEF KeptBefore, KeptEntry, Merged, Entry, NoEntry, WellFormed
<1> HIDE DEF e
<1>6. active # NoRec /\ Holy \in active.owned => Holy \notin mine.plugins
  BY <1>3 DEF WellFormed, Apart
<1>7. PICK n : mem' = n /\ InstallFields \subseteq DOMAIN n /\ n.doc = [key |-> key, pref |-> pref]
               /\ n.jr = FirstJournal(sel) /\ n.prev = active /\ n.added = {} /\ n.gone = {}
               /\ n.entry = e /\ n.live = key
               /\ n.refresh = (active # NoRec /\ active.release # release /\ Holy \in active.owned)
  BY DEF Preflight, InstallFields, e
<1>8. n.doc.key = key /\ {"key", "pref"} \subseteq DOMAIN n.doc
  BY <1>7
<1>9. n.entry = NoEntry \/ n.entry.last \in Selections \cup {n.doc.key}
  BY <1>5, <1>7, <1>8
<1>10. WellFormed(n.jr) /\ n.jr.entry = EntryOf(n.prev) /\ (n.prev = NoRec \/ WellFormed(n.prev))
  BY <1>3, <1>4, <1>7
<1>11. Installing(n) /\ n.live = n.doc.key
  BY <1>5, <1>6, <1>7, <1>8, <1>9, <1>10 DEF Installing, Apart
<1> QED
  BY <1>1, <1>2, <1>10, <1>7, <1>11, Proceeds

LEMMA JournalSteps ==
    ASSUME IInv,
           WriteFirstJournal \/ JournalRoles \/ JournalPlan \/ JournalOwnership \/ JournalConfig
             \/ JournalOmission
    PROVE  IInv'
<1>0. /\ {"journal", "roles", "plan", "own", "published", "unown"} \subseteq Fresh
      /\ {"snapshot", "plan", "setup", "plugins", "omit"} \subseteq Fresh
  BY DEF Fresh
<1>1. pc \in Fresh
  BY <1>0 DEF WriteFirstJournal, JournalRoles, JournalPlan, JournalOwnership, JournalConfig,
              JournalOmission
<1>2. InstallInv /\ Installing(mem) /\ Progress(mem) /\ InstallFields \subseteq DOMAIN mem
      /\ RecordFields \subseteq DOMAIN mem.jr
  BY <1>1, NoProgress DEF IInv, InstallInv, Installing, WellFormed
<1>3. CASE WriteFirstJournal
  BY <1>0, <1>1, <1>2, <1>3, WriteStep DEF WriteFirstJournal
<1>4. CASE JournalRoles
  <2> DEFINE n == [mem EXCEPT !.nativeDone = TRUE]
  <2>1. Progress(n) /\ n.jr = mem.jr
    BY <1>2 DEF Progress, InstallFields
  <2> HIDE DEF n
  <2> QED
    BY <1>0, <1>1, <1>4, <2>1, WriteStep DEF JournalRoles, n
<1>5. CASE JournalPlan
  <2> DEFINE n == [mem EXCEPT !.jr.before = mem.doc.pref, !.jr.after = "on", !.effects = TRUE]
  <2>1. Progress(n)
    BY <1>2 DEF Progress, InstallFields, RecordFields
  <2> HIDE DEF n
  <2> QED
    BY <1>0, <1>1, <1>5, <2>1, WriteStep DEF JournalPlan, n
<1>6. CASE JournalOwnership \/ JournalOmission
  <2> DEFINE n == [mem EXCEPT !.failing = FALSE]
  <2>1. Progress(n) /\ n.jr = mem.jr /\ n.todo = mem.todo
    BY <1>2 DEF Progress, InstallFields
  <2> HIDE DEF n
  <2>2. JournalOmission => Apart(n.todo)
    BY <1>2, <2>1 DEF JournalOmission, InstallInv
  <2>3. CASE JournalOwnership
    <3>1. PICK next \in {"rb_record", "plugins"} : Write(n.jr, next, n)
      BY <2>1, <2>3 DEF JournalOwnership, n
    <3> QED
      BY <1>0, <1>1, <2>1, <2>3, <3>1, WriteStep DEF JournalOwnership
  <2>4. CASE JournalOmission
    <3>1. PICK next \in {"rb_record", "omit"} : Write(n.jr, next, n)
      BY <2>1, <2>4 DEF JournalOmission, n
    <3> QED
      BY <1>0, <1>1, <2>1, <2>2, <2>4, <3>1, WriteStep DEF JournalOmission
  <2> QED
    BY <1>6, <2>3, <2>4
<1>7. CASE JournalConfig
  <2> DEFINE n == [mem EXCEPT !.todo = OwnedBy(mem.prev) \ Wanted(mem.sel)]
  <2>1. Progress(n) /\ n.jr = mem.jr /\ n.todo = OwnedBy(mem.prev) \ Wanted(mem.sel)
    BY <1>2 DEF Progress, InstallFields
  <2>2. Apart(n.todo)
    BY <1>2, <2>1 DEF Installing, WellFormed, OwnedBy, Apart
  <2> HIDE DEF n
  <2> QED
    BY <1>0, <1>1, <1>7, <2>1, <2>2, WriteStep DEF JournalConfig, n
<1> QED
  BY <1>3, <1>4, <1>5, <1>6, <1>7

(* A step that changes neither records nor plugins. *)
LEMMA QuietNotes ==
    ASSUME IInv, UNCHANGED <<disk, installed, mine>>, NEW n, mem' = n, Progress(n),
           pc \in Fresh \cup Failing, pc' \in Fresh \cup Failing, pc \in Failing => pc' \in Failing,
           pc' \notin {"omit", "unown", "journal", "snapshot"}
    PROVE  IInv'
BY Notes, RecordsStay, PluginsStay

LEMMA SnapshotStep ==
    ASSUME IInv, Snapshot
    PROVE  IInv'
<1>1. /\ pc = "snapshot" /\ pc \in Fresh /\ "read" \in Fresh /\ "rb_record" \in Failing
      /\ UNCHANGED <<disk, installed, mine>>
      /\ "read" \notin {"omit", "unown", "journal", "snapshot"}
      /\ "rb_record" \notin {"omit", "unown", "journal", "snapshot"}
  BY DEF Snapshot, Fresh, Failing, Keep, Fault, FaultTearing
<1>2. InstallInv /\ Installing(mem) /\ Progress(mem) /\ InstallFields \subseteq DOMAIN mem
      /\ mem.jr.entry = EntryOf(mem.prev)
  BY <1>1, NoProgress DEF IInv, InstallInv, Installing
<1> DEFINE n == [mem EXCEPT !.snap = installed \cap (Wanted(mem.sel) \cup OwnedBy(mem.prev)),
                            !.live = key]
<1>3. /\ InstallFields \subseteq DOMAIN n /\ n.live = key /\ n.doc = mem.doc /\ n.holding = mem.holding
      /\ n.prev = mem.prev /\ n.jr = mem.jr /\ n.added = mem.added /\ n.gone = mem.gone
      /\ n.refresh = mem.refresh /\ n.entry = mem.entry
  BY <1>2 DEF InstallFields
<1>4. Installing(n)
  BY <1>2, <1>3 DEF Installing
<1> HIDE DEF n
<1>5. RecordsWellFormed' /\ UserPluginsStay'
  BY <1>1, RecordsStay, PluginsStay
<1>6. CASE AsReviewed /\ pc' = "read" /\ mem' = n
  <2>1. n.holding = "taken" => n.live = n.doc.key
    BY <1>3, <1>6 DEF AsReviewed
  <2> QED
    BY <1>1, <1>4, <1>5, <1>6, <2>1, Proceeds
<1>7. CASE Fails(n)
  <2>1. pc' = "rb_record" /\ mem' = n
    BY <1>7 DEF Fails
  <2> QED
    BY <1>1, <1>4, <1>5, <2>1, Proceeds, Pcs
<1>8. CASE Fails(mem)
  BY <1>1, <1>2, <1>8, QuietNotes DEF Fails
<1> QED
  BY <1>6, <1>7, <1>8 DEF Snapshot, n

(* What is known of the memory of a running install. *)
LEMMA Running ==
    ASSUME IInv, pc \in Fresh \cup Failing
    PROVE  /\ InstallInv /\ Installing(mem) /\ Progress(mem) /\ InstallFields \subseteq DOMAIN mem
           /\ RecordFields \subseteq DOMAIN mem.jr
           /\ Apart(mem.added) /\ Apart(mem.gone) /\ Apart(mem.jr.owned)
BY NoProgress DEF IInv, InstallInv, Installing, WellFormed

LEMMA FreshPcs ==
    /\ {"journal", "snapshot", "read", "roles", "plan", "setup", "plugins", "own", "published", "omit",
        "unown", "record", "clear"} \subseteq Fresh
    /\ {"rb_record", "rb_config", "rb_roles", "rb_end", "rb_clear"} \subseteq Failing
BY DEF Fresh, Failing

LEMMA RoleRecorded ==
    ASSUME IInv, pc \in Fresh, NEW f, NEW content
    PROVE  /\ Progress(RecordRole(f, content)) /\ Progress(Replaced(f))
<1>1. \A c : Progress(RecordRole(f, c)) /\ InstallFields \subseteq DOMAIN RecordRole(f, c)
  <2> TAKE c
  <2> DEFINE n == RecordRole(f, c)
  <2>1. /\ InstallFields \subseteq DOMAIN n /\ DOMAIN n.jr = DOMAIN mem.jr
        /\ n.jr.entry = mem.jr.entry /\ n.jr.owned = mem.jr.owned
        /\ n.prev = mem.prev /\ n.doc = mem.doc /\ n.live = mem.live /\ n.holding = mem.holding
        /\ n.entry = mem.entry /\ n.refresh = mem.refresh /\ n.added = mem.added /\ n.gone = mem.gone
    BY Running DEF RecordRole, InstallFields, RecordFields
  <2> HIDE DEF n
  <2>2. Progress(n)
    BY <2>1, Running DEF Progress
  <2> QED
    BY <2>1, <2>2 DEF n
<1>2. Progress(Replaced(f))
  <2> DEFINE m == RecordRole(f, Contents(f, release))
             n == [m EXCEPT !.native = [g \in {f} \cup DOMAIN @ |-> IF g = f THEN mem.current[f] ELSE @[g]]]
  <2>1. Progress(m) /\ InstallFields \subseteq DOMAIN m
    BY <1>1
  <2> HIDE DEF m
  <2>2. Progress(n)
    BY <2>1 DEF Progress, InstallFields
  <2> QED
    BY <2>2 DEF Replaced, m
<1> QED
  BY <1>1, <1>2

(* A rolled-back failure with the memory as it is. *)
LEMMA FailsStep ==
    ASSUME IInv, pc \in Fresh, NEW n, Progress(n), Fails(n), UNCHANGED mine, RecordsWellFormed',
           UserPluginsStay'
    PROVE  IInv'
<1>1. pc' = "rb_record" /\ mem' = n /\ "rb_record" \in Failing
      /\ "rb_record" \notin {"omit", "unown", "journal", "snapshot"}
  BY FreshPcs DEF Fails
<1> QED
  BY <1>1, Notes, Pcs

LEMMA RoleSteps ==
    ASSUME IInv, ReadRoles \/ InstallRole
    PROVE  IInv'
<1>1. /\ pc \in {"read", "roles"} /\ pc \in Fresh /\ "roles" \in Fresh
      /\ UNCHANGED <<disk, installed, mine>>
      /\ "roles" \notin {"omit", "unown", "journal", "snapshot"}
  BY FreshPcs DEF ReadRoles, InstallRole, Keep, Fault, FaultTearing
<1>2. Progress(mem) /\ InstallFields \subseteq DOMAIN mem /\ RecordsWellFormed' /\ UserPluginsStay'
  BY <1>1, Running, RecordsStay, PluginsStay
<1>3. CASE Fails(mem)
  BY <1>1, <1>2, <1>3, FailsStep
<1>4. CASE ReadRoles /\ ~Fails(mem)
  <2> DEFINE n == [mem EXCEPT !.current = [f \in mem.roles |-> files[f]],
                        !.kept = {f \in mem.roles : RoleConflict(f) /\ mem.reviewed[f] = None}]
  <2>1. Progress(n)
    BY <1>2 DEF Progress, InstallFields
  <2> HIDE DEF n
  <2>2. pc' = "roles" /\ mem' = n
    BY <1>4 DEF ReadRoles, n
  <2> QED
    BY <1>1, <2>1, <2>2, QuietNotes, Pcs
<1>5. CASE InstallRole /\ ~Fails(mem)
  <2>1. PICK f, c : mem' \in {RecordRole(f, c), Replaced(f)} /\ pc' = pc
    BY <1>5 DEF InstallRole
  <2>2. pc = "roles"
    BY <1>5 DEF InstallRole
  <2> QED
    BY <1>1, <2>1, <2>2, RoleRecorded, QuietNotes, Pcs
<1> QED
  BY <1>3, <1>4, <1>5

LEMMA SetUpStep ==
    ASSUME IInv, SetUpPlugins
    PROVE  IInv'
<1>1. /\ pc \in Fresh /\ UNCHANGED <<disk, installed, mine>> /\ "plugins" \in Fresh
      /\ "plugins" \notin {"omit", "unown", "journal", "snapshot"}
  BY FreshPcs DEF SetUpPlugins, Keep, Fault, FaultTearing
<1>2. Progress(mem) /\ RecordsWellFormed' /\ UserPluginsStay'
  BY <1>1, Running, RecordsStay, PluginsStay
<1>3. CASE Fails(mem)
  BY <1>1, <1>2, <1>3, FailsStep
<1>4. CASE pc' = "plugins" /\ mem' = mem
  BY <1>1, <1>2, <1>4, QuietNotes, Pcs
<1> QED
  BY <1>3, <1>4 DEF SetUpPlugins

(* A plugin is added: one the user did not have, or one to be refreshed,   *)
(* which an earlier install has added.                                     *)
LEMMA AddStep ==
    ASSUME IInv, AddPlugin
    PROVE  IInv'
<1> DEFINE p == First(Holy, mem.todo)
<1>1. /\ pc = "plugins" /\ pc \in Fresh /\ "own" \in Fresh /\ UNCHANGED <<disk, mine>>
      /\ installed \subseteq installed'
      /\ "own" \notin {"omit", "unown", "journal", "snapshot"}
      /\ "plugins" \notin {"omit", "unown", "journal", "snapshot"}
  BY FreshPcs DEF AddPlugin, Keep, Fault, FaultTearing
<1>2. /\ Progress(mem) /\ InstallFields \subseteq DOMAIN mem /\ RecordFields \subseteq DOMAIN mem.jr
      /\ Installing(mem) /\ Apart(mem.added) /\ Apart(mem.jr.owned)
  BY <1>1, Running
<1>3. RecordsWellFormed' /\ UserPluginsStay'
  BY <1>1, RecordsStay DEF IInv, UserPluginsStay
<1>4. Adds(p) => p \notin mine.plugins
  BY <1>2 DEF Adds, IInv, UserPluginsStay, Installing
<1>5. ASSUME Adds(p), NEW kind
      PROVE  Progress(Added(p, kind)) /\ InstallFields \subseteq DOMAIN Added(p, kind)
  <2> DEFINE n == Added(p, kind)
  <2>1. /\ InstallFields \subseteq DOMAIN n /\ DOMAIN n.jr = DOMAIN mem.jr
        /\ n.jr.entry = mem.jr.entry /\ n.jr.owned = mem.jr.owned \cup {p}
        /\ n.prev = mem.prev /\ n.doc = mem.doc /\ n.live = mem.live /\ n.holding = mem.holding
        /\ n.entry = mem.entry /\ n.refresh = mem.refresh /\ n.gone = mem.gone
        /\ n.added = IF kind = "added" THEN mem.added \cup {p} ELSE mem.added
    BY <1>2 DEF Added, InstallFields, RecordFields
  <2> HIDE DEF n
  <2>2. Apart(n.added) /\ Apart(n.jr.owned)
    BY <1>2, <1>4, <1>5, <2>1 DEF Apart
  <2>3. Progress(n)
    BY <1>2, <2>1, <2>2 DEF Progress
  <2> QED
    BY <2>1, <2>3 DEF n
<1>6. CASE mem' = [mem EXCEPT !.todo = @ \ {p}] /\ pc' = pc
  <2> DEFINE n == [mem EXCEPT !.todo = @ \ {p}]
  <2>1. Progress(n)
    BY <1>2 DEF Progress, InstallFields
  <2> HIDE DEF n
  <2> QED
    BY <1>1, <1>3, <1>6, <2>1, Notes DEF n
<1>7. CASE Adds(p) /\ mem' = Added(p, Kind(p)) /\ pc' = "own"
  BY <1>1, <1>3, <1>5, <1>7, Notes, Pcs
<1>8. CASE Fails(mem)
  BY <1>1, <1>2, <1>3, <1>8, FailsStep
<1>9. CASE Adds(p) /\ mem' = [Added(p, "unsure") EXCEPT !.failing = TRUE] /\ pc' = "own"
  <2> DEFINE m == Added(p, "unsure")
             n == [m EXCEPT !.failing = TRUE]
  <2>1. Progress(m) /\ InstallFields \subseteq DOMAIN m
    BY <1>5, <1>9
  <2> HIDE DEF m
  <2>2. Progress(n)
    BY <2>1 DEF Progress, InstallFields
  <2> HIDE DEF n
  <2> QED
    BY <1>1, <1>3, <1>9, <2>2, Notes, Pcs DEF m, n
<1> QED
  BY <1>6, <1>7, <1>8, <1>9 DEF AddPlugin

LEMMA PublishStep ==
    ASSUME IInv, PublishConfig
    PROVE  IInv'
<1>1. /\ pc \in Fresh /\ UNCHANGED <<disk, installed, mine>> /\ "published" \in Fresh
      /\ "published" \notin {"omit", "unown", "journal", "snapshot"}
  BY FreshPcs DEF PublishConfig, Keep, Fault, FaultTearing
<1>2. /\ Progress(mem) /\ InstallFields \subseteq DOMAIN mem /\ RecordFields \subseteq DOMAIN mem.jr
      /\ RecordsWellFormed' /\ UserPluginsStay'
  BY <1>1, Running, RecordsStay, PluginsStay
<1> DEFINE m == Publishing(mem)
           n == [m EXCEPT !.target = Result]
<1>3. Progress(m) /\ InstallFields \subseteq DOMAIN m
  <2>1. /\ InstallFields \subseteq DOMAIN m /\ DOMAIN m.jr = DOMAIN mem.jr
        /\ m.jr.entry = EntryAfter /\ m.jr.owned = mem.jr.owned
        /\ m.prev = mem.prev /\ m.doc = mem.doc /\ m.live = mem.live /\ m.holding = mem.holding
        /\ m.entry = mem.entry /\ m.refresh = mem.refresh /\ m.added = mem.added /\ m.gone = mem.gone
    BY <1>2 DEF Publishing, InstallFields, RecordFields
  <2> HIDE DEF m
  <2> QED
    BY <1>2, <2>1 DEF Progress
<1> HIDE DEF m
<1>4. Progress(n)
  BY <1>3 DEF Progress, InstallFields
<1> HIDE DEF n
<1>5. CASE Fails(mem) \/ Fails(n)
  BY <1>1, <1>2, <1>4, <1>5, FailsStep
<1>6. CASE pc' = "published" /\ mem' = n
  BY <1>1, <1>4, <1>6, QuietNotes, Pcs
<1> QED
  BY <1>5, <1>6 DEF PublishConfig, m, n

(* Only plugins that an earlier install has added are omitted.             *)
LEMMA OmitStep ==
    ASSUME IInv, OmitPlugin
    PROVE  IInv'
<1> DEFINE p == First(Holy, mem.todo)
<1>1. /\ pc = "omit" /\ pc \in Fresh /\ pc' = "unown" /\ "unown" \in Fresh /\ UNCHANGED <<disk, mine>>
      /\ installed \ {p} \subseteq installed' /\ mem.todo # {}
      /\ "unown" \notin {"journal", "snapshot"}
  BY FreshPcs DEF OmitPlugin, Keep, Fault, FaultTearing
<1>2. /\ Progress(mem) /\ InstallFields \subseteq DOMAIN mem /\ RecordFields \subseteq DOMAIN mem.jr
      /\ Apart(mem.gone) /\ Apart(mem.jr.owned) /\ Apart(mem.todo)
  BY <1>1, Running DEF InstallInv
<1>3. p \in mem.todo
  BY <1>1 DEF First
<1>4. Apart({p}) /\ p \notin mine.plugins
  BY <1>2, <1>3 DEF Apart
<1>5. RecordsWellFormed' /\ UserPluginsStay'
  BY <1>1, <1>4, RecordsStay DEF IInv, UserPluginsStay
<1> DEFINE m == Omitted(p)
<1>6. Progress(m) /\ InstallFields \subseteq DOMAIN m /\ m.todo = mem.todo \ {p}
  <2>1. /\ InstallFields \subseteq DOMAIN m /\ DOMAIN m.jr = DOMAIN mem.jr
        /\ m.jr.entry = mem.jr.entry /\ m.jr.owned = mem.jr.owned \ {p}
        /\ m.prev = mem.prev /\ m.doc = mem.doc /\ m.live = mem.live /\ m.holding = mem.holding
        /\ m.entry = mem.entry /\ m.refresh = mem.refresh /\ m.added = mem.added
        /\ m.gone = mem.gone \cup {p} /\ m.todo = mem.todo \ {p}
    BY <1>2 DEF Omitted, InstallFields, RecordFields
  <2> HIDE DEF m
  <2>2. Apart(m.gone) /\ Apart(m.jr.owned)
    BY <1>2, <1>4, <2>1 DEF Apart
  <2> QED
    BY <1>2, <2>1, <2>2 DEF Progress
<1> HIDE DEF m
<1>7. Apart(mem.todo \ {p}) /\ Apart(mem.gone \cup {p})
  BY <1>2, <1>4 DEF Apart
<1>8. ASSUME NEW n, mem' = n, Progress(n), n.todo \in {mem.todo, mem.todo \ {p}}
      PROVE  IInv'
  BY <1>1, <1>2, <1>5, <1>7, <1>8, Notes, Pcs
<1>9. CASE mem' = m
  BY <1>6, <1>8, <1>9
<1>10. CASE mem' = [m EXCEPT !.gone = mem.gone]
  <2> DEFINE n == [m EXCEPT !.gone = mem.gone]
  <2>1. Progress(n) /\ n.todo = m.todo
    BY <1>2, <1>6 DEF Progress, InstallFields
  <2> HIDE DEF n
  <2> QED
    BY <1>6, <1>8, <1>10, <2>1 DEF n
<1>11. CASE mem' = [m EXCEPT !.failing = TRUE]
  <2> DEFINE n == [m EXCEPT !.failing = TRUE]
  <2>1. Progress(n) /\ n.todo = m.todo
    BY <1>2, <1>6 DEF Progress, InstallFields
  <2> HIDE DEF n
  <2> QED
    BY <1>6, <1>8, <1>11, <2>1 DEF n
<1>12. CASE mem' = [mem EXCEPT !.gone = @ \cup {p}, !.failing = TRUE]
  <2> DEFINE n == [mem EXCEPT !.gone = @ \cup {p}, !.failing = TRUE]
  <2>1. Progress(n) /\ n.todo = mem.todo
    BY <1>2, <1>7 DEF Progress, InstallFields
  <2> HIDE DEF n
  <2> QED
    BY <1>8, <1>12, <2>1 DEF n
<1> QED
  BY <1>9, <1>10, <1>11, <1>12 DEF OmitPlugin, m

LEMMA VerifyStep ==
    ASSUME IInv, Verify
    PROVE  IInv'
<1>1. /\ pc \in Fresh /\ UNCHANGED <<disk, installed, mine>> /\ "record" \in Fresh
      /\ "record" \notin {"omit", "unown", "journal", "snapshot"}
  BY FreshPcs DEF Verify, Keep, Fault, FaultTearing
<1>2. Progress(mem) /\ InstallFields \subseteq DOMAIN mem /\ RecordsWellFormed' /\ UserPluginsStay'
  BY <1>1, Running, RecordsStay, PluginsStay
<1> DEFINE n == [mem EXCEPT !.recorded = TRUE]
<1>3. Progress(n)
  BY <1>2 DEF Progress, InstallFields
<1> HIDE DEF n
<1>4. CASE Fails(mem)
  BY <1>1, <1>2, <1>4, FailsStep
<1>5. CASE pc' = "record" /\ mem' = n
  BY <1>1, <1>3, <1>5, QuietNotes, Pcs
<1> QED
  BY <1>4, <1>5 DEF Verify, n

LEMMA RecordSteps ==
    ASSUME IInv, PublishRecord \/ ClearJournal
    PROVE  IInv'
<1>1. /\ pc \in {"record", "clear"} /\ pc \in Fresh /\ UNCHANGED <<installed, mine>> /\ "clear" \in Fresh
      /\ "clear" \notin {"omit", "unown", "journal", "snapshot"}
  BY FreshPcs DEF PublishRecord, ClearJournal, Keep, Fault, FaultTearing
<1>2. Progress(mem) /\ Installing(mem) /\ UserPluginsStay'
  BY <1>1, Running, PluginsStay
<1>3. WellFormed(ActiveRecord)
  BY <1>2 DEF Installing, WellFormed, ActiveRecord, RecordFields
<1>4. CASE PublishRecord
  <2>1. RecordsWellFormed'
    BY <1>1, <1>3, <1>4, RecordWritten DEF PublishRecord
  <2>2. CASE pc' = "clear" /\ mem' = mem
    BY <1>1, <1>2, <2>1, <2>2, Notes, Pcs
  <2>3. CASE Fails(mem)
    BY <1>1, <1>2, <2>1, <2>3, FailsStep
  <2> QED
    BY <1>4, <2>2, <2>3 DEF PublishRecord
<1>5. CASE ClearJournal
  <2>1. RecordsWellFormed'
    BY <1>1, <1>5, RecordWritten DEF ClearJournal
  <2>2. CASE pc' = "idle"
    BY <1>1, <1>2, <2>1, <2>2, Ends
  <2>3. CASE Fails(mem)
    BY <1>1, <1>2, <2>1, <2>3, FailsStep
  <2> QED
    BY <1>5, <2>2, <2>3 DEF ClearJournal
<1> QED
  BY <1>4, <1>5

(***************************************************************************)
(* The rollback.                                                           *)
(***************************************************************************)
(* A step of the rollback that notes its progress. *)
LEMMA RollingBack ==
    ASSUME IInv, pc \in Failing, pc' \in Failing, UNCHANGED mine, RecordsWellFormed', UserPluginsStay',
           NEW n, mem' = n, Progress(n)
    PROVE  IInv'
<1>1. pc' \notin {"omit", "unown", "journal", "snapshot"}
  BY FreshPcs, Pcs
<1> QED
  BY <1>1, Notes

LEMMA FailureNoted ==
    ASSUME Progress(mem), NEW b
    PROVE  Progress([mem EXCEPT !.failed = b])
BY DEF Progress, InstallFields

LEMMA RollBackFirstSteps ==
    ASSUME IInv, RollBackRecord \/ RollBackConfig
    PROVE  IInv'
<1>1. /\ pc \in Failing /\ pc' \in Failing /\ UNCHANGED <<installed, mine>>
      /\ mem' \in {mem, [mem EXCEPT !.failed = TRUE]}
  BY FreshPcs DEF RollBackRecord, RollBackConfig, Keep, Fault, FaultTearing
<1>2. Progress(mem) /\ Installing(mem) /\ UserPluginsStay'
  BY <1>1, Running, PluginsStay
<1>3. /\ active' \in {active, mem.prev} /\ UNCHANGED <<preparing, conflicted>>
      /\ (mem.prev = NoRec \/ WellFormed(mem.prev))
  BY <1>2 DEF RollBackRecord, RollBackConfig, disk, Installing
<1>4. RecordsWellFormed'
  BY <1>1, <1>3, RecordWritten
<1> QED
  BY <1>1, <1>2, <1>4, FailureNoted, RollingBack

LEMMA RollBackRoleStep ==
    ASSUME IInv, RollBackRole
    PROVE  IInv'
<1>1. /\ pc \in Failing /\ pc' = pc /\ UNCHANGED <<disk, installed, mine>>
  BY FreshPcs DEF RollBackRole, Keep, Fault, FaultTearing
<1>2. Progress(mem) /\ RecordsWellFormed' /\ UserPluginsStay'
  BY <1>1, Running, RecordsStay, PluginsStay
<1>3. \A rest : Progress([mem EXCEPT !.native = rest])
  BY <1>2 DEF Progress, InstallFields
<1>4. \A rest, b : Progress([mem EXCEPT !.native = rest, !.failed = b])
  BY <1>2 DEF Progress, InstallFields
<1>5. \A rest, b : LET m == [mem EXCEPT !.native = rest] IN Progress([m EXCEPT !.failed = b])
  BY <1>2 DEF Progress, InstallFields
<1>6. \E n : mem' = n /\ Progress(n)
  BY <1>3, <1>4, <1>5 DEF RollBackRole
<1> QED
  BY <1>1, <1>2, <1>6, RollingBack

(* Only plugins that this run has added are removed. *)
LEMMA RollBackAddedStep ==
    ASSUME IInv, RollBackAdded
    PROVE  IInv'
<1> DEFINE p == First(Holy, mem.added)
           m == [mem EXCEPT !.added = @ \ {p}]
<1>1. /\ pc \in Failing /\ pc' = pc /\ UNCHANGED <<disk, mine>> /\ installed \ {p} \subseteq installed'
      /\ mem.added # {}
  BY FreshPcs DEF RollBackAdded, Keep, Fault, FaultTearing
<1>2. Progress(mem) /\ RecordsWellFormed' /\ Apart(mem.added)
  BY <1>1, Running, RecordsStay
<1>3. p \in mem.added /\ p \notin mine.plugins
  BY <1>1, <1>2 DEF First, Apart
<1>4. UserPluginsStay' /\ Apart(mem.added \ {p})
  BY <1>1, <1>2, <1>3 DEF IInv, UserPluginsStay, Apart
<1>5. Progress(m) /\ InstallFields \subseteq DOMAIN m
  BY <1>2, <1>4 DEF Progress, InstallFields
<1> HIDE DEF m
<1>6. Progress([m EXCEPT !.failed = TRUE])
  BY <1>5 DEF Progress, InstallFields
<1>7. mem' \in {m, [m EXCEPT !.failed = TRUE]}
  BY DEF RollBackAdded, m
<1> QED
  BY <1>1, <1>2, <1>4, <1>5, <1>6, <1>7, RollingBack

(* A plugin that was omitted comes back, and is owned again. *)
LEMMA RollBackRemovedStep ==
    ASSUME IInv, RollBackRemoved
    PROVE  IInv'
<1> DEFINE p == First(Holy, mem.gone)
           m == [mem EXCEPT !.gone = @ \ {p}, !.jr.owned = @ \cup {p}]
<1>1. /\ pc \in Failing /\ pc' = pc /\ UNCHANGED <<active, conflicted, mine>>
      /\ installed \subseteq installed' /\ preparing' = m.jr /\ mem.gone # {}
      /\ mem' \in {m, [m EXCEPT !.failed = TRUE]}
  BY FreshPcs DEF RollBackRemoved, Keep, Fault, FaultTearing
<1>2. /\ Progress(mem) /\ Installing(mem) /\ Apart(mem.gone) /\ Apart(mem.jr.owned)
      /\ InstallFields \subseteq DOMAIN mem /\ RecordFields \subseteq DOMAIN mem.jr
  BY <1>1, Running
<1>3. p \in mem.gone
  BY <1>1 DEF First
<1>4. UserPluginsStay' /\ Apart(mem.gone \ {p}) /\ Apart(mem.jr.owned \cup {p})
  BY <1>1, <1>2, <1>3 DEF IInv, UserPluginsStay, Apart
<1>5. /\ InstallFields \subseteq DOMAIN m /\ DOMAIN m.jr = DOMAIN mem.jr
      /\ m.jr.entry = mem.jr.entry /\ m.jr.owned = mem.jr.owned \cup {p}
      /\ m.prev = mem.prev /\ m.doc = mem.doc /\ m.live = mem.live /\ m.holding = mem.holding
      /\ m.entry = mem.entry /\ m.refresh = mem.refresh /\ m.added = mem.added
      /\ m.gone = mem.gone \ {p}
  BY <1>2 DEF InstallFields, RecordFields
<1> HIDE DEF m
<1>6. Progress(m)
  BY <1>2, <1>4, <1>5 DEF Progress
<1>7. Progress([m EXCEPT !.failed = TRUE])
  BY <1>6 DEF Progress, InstallFields
<1>8. WellFormed(m.jr)
  BY <1>2, <1>4, <1>5 DEF Installing, WellFormed
<1>9. RecordsWellFormed'
  BY <1>1, <1>8, RecordWritten
<1> QED
  BY <1>1, <1>4, <1>6, <1>7, <1>9, RollingBack

LEMMA RollBackLastSteps ==
    ASSUME IInv, RollBackEnd \/ ReportFailure \/ DropPreparing
    PROVE  IInv'
<1>1. pc \in Failing /\ pc' \in Failing \cup {"idle"} /\ UNCHANGED <<installed, mine>>
  BY FreshPcs DEF RollBackEnd, ReportFailure, DropPreparing, Keep, Fault, FaultTearing
<1>2. /\ Progress(mem) /\ UserPluginsStay' /\ Installing(mem) /\ WellFormed(mem.jr)
      /\ InstallFields \subseteq DOMAIN mem /\ RecordFields \subseteq DOMAIN mem.jr
  BY <1>1, Running, PluginsStay DEF Installing
<1>3. RecordsWellFormed'
  <2>1. /\ active' = active
        /\ \/ preparing' \in {preparing, mem.jr} /\ conflicted' \in {conflicted, mem.jr}
           \/ preparing' = NoRec /\ conflicted' = conflicted
    BY DEF RollBackEnd, ReportFailure, DropPreparing, disk
  <2> QED
    BY <1>1, <1>2, <2>1, RecordWritten
<1>4. CASE RollBackEnd
  <2> DEFINE n == [mem EXCEPT !.failed = @ \/ mem.unsure # {},
                      !.jr.after = IF pref = mem.jr.before THEN mem.jr.before ELSE @]
  <2>1. Progress(n)
    BY <1>2 DEF Progress, InstallFields, RecordFields
  <2> HIDE DEF n
  <2>2. mem' = n /\ pc' \in Failing
    BY <1>4, FreshPcs DEF RollBackEnd, n
  <2> QED
    BY <1>1, <1>2, <1>3, <2>1, <2>2, RollingBack
<1>5. CASE pc' = "idle"
  BY <1>1, <1>2, <1>3, <1>5, Ends
<1>6. CASE mem' = mem /\ pc' \in Failing
  BY <1>1, <1>2, <1>3, <1>6, RollingBack
<1> QED
  BY <1>4, <1>5, <1>6, FreshPcs DEF ReportFailure, DropPreparing

(***************************************************************************)
(* The removal.                                                            *)
(***************************************************************************)
RemovalMemory(n) ==
    /\ RemovalFields \subseteq DOMAIN n
    /\ WellFormed(n.rec) /\ WellFormed(n.now) /\ Apart(n.todo)
    /\ n.after \in Selections \cup {NoRec}

LEMMA RemovalGoesOn ==
    ASSUME IInv, UNCHANGED mine, RecordsWellFormed', UserPluginsStay', NEW n, mem' = n,
           RemovalMemory(n), pc' \in Removing, pc' = "restart" => n.after # NoRec
    PROVE  IInv'
<1>1. RemovalInv'
  BY DEF RemovalInv, RemovalMemory, WellFormed, Apart
<1> QED
  BY <1>1, Pcs DEF IInv

LEMMA RemovalRunning ==
    ASSUME IInv, pc \in Removing
    PROVE  /\ RemovalMemory(mem) /\ RemovalFields \subseteq DOMAIN mem
           /\ RecordFields \subseteq DOMAIN mem.now /\ WellFormed(mem.rec) /\ WellFormed(mem.now)
           /\ \A rec \in {mem.rec, mem.now} : RemovalMemory([mem EXCEPT !.now = rec])
           /\ RemovalMemory([mem EXCEPT !.preserved = TRUE])
           /\ RemovalMemory([mem EXCEPT !.now.entry = NoEntry])
           /\ pc = "restart" => mem.after # NoRec
<1>1. /\ RemovalMemory(mem) /\ RemovalFields \subseteq DOMAIN mem
      /\ RecordFields \subseteq DOMAIN mem.now /\ WellFormed(mem.rec) /\ WellFormed(mem.now)
      /\ pc = "restart" => mem.after # NoRec
  BY DEF IInv, RemovalInv, RemovalMemory, WellFormed
<1>2. \A rec \in {mem.rec, mem.now} : RemovalMemory([mem EXCEPT !.now = rec])
  BY <1>1 DEF RemovalMemory, RemovalFields
<1>3. RemovalMemory([mem EXCEPT !.preserved = TRUE])
  BY <1>1 DEF RemovalMemory, RemovalFields
<1>4. RemovalMemory([mem EXCEPT !.now.entry = NoEntry])
  <2> DEFINE now == [mem.now EXCEPT !.entry = NoEntry]
             n == [mem EXCEPT !.now = now]
  <2>1. WellFormed(now)
    BY <1>1 DEF WellFormed, RecordFields, NoEntry
  <2> HIDE DEF now
  <2>2. RemovalMemory(n)
    BY <1>1, <2>1 DEF RemovalMemory, RemovalFields
  <2>3. [mem EXCEPT !.now.entry = NoEntry] = n
    BY <1>1 DEF now, RemovalFields
  <2> QED
    BY <2>2, <2>3
<1> QED
  BY <1>1, <1>2, <1>3, <1>4

LEMMA BeginRemovalStep ==
    ASSUME IInv, UNCHANGED mine, NEW after \in Selections \cup {NoRec}, NEW accept,
           BeginRemoval(after, accept)
    PROVE  IInv'
<1> DEFINE rec == RecoveryState(active, preparing, conflicted)
<1>1. rec # NoRec /\ UNCHANGED <<disk, installed>> /\ pc' = "rm_config" /\ "rm_config" \in Removing
  BY DEF BeginRemoval, Removing
<1>2. WellFormed(rec) /\ WellFormed(AsJournal(rec)) /\ Apart(rec.owned)
  BY <1>1, Recovered, Journaled DEF IInv, WellFormed
<1> HIDE DEF rec
<1>3. PICK n : mem' = n /\ RemovalFields \subseteq DOMAIN n /\ n.rec = AsJournal(rec)
               /\ n.now = AsJournal(rec) /\ n.todo = rec.owned /\ n.after = after
  BY DEF BeginRemoval, RemovalFields, rec
<1>4. RemovalMemory(n)
  BY <1>2, <1>3 DEF RemovalMemory
<1> QED
  BY <1>1, <1>3, <1>4, RemovalGoesOn, RecordsStay, PluginsStay

LEMMA RemovalSteps ==
    ASSUME IInv,
           CleanConfig \/ Checkpoint \/ WriteConflict \/ RemoveRole \/ RolesRemoved \/ RemovePlugin
             \/ DropActive \/ DropOptions \/ DropJournals \/ RemoveDirectories
    PROVE  IInv'
<1>0. {"rm_config", "rm_checkpoint", "rm_stop", "rm_roles", "rm_plugins", "rm_options",
       "rm_preparing", "rm_conflicted", "rm_dirs", "restart"} \subseteq Removing
  BY DEF Removing
<1>1. pc \in Removing /\ UNCHANGED mine
  BY <1>0 DEF CleanConfig, Checkpoint, WriteConflict, RemoveRole, RolesRemoved, RemovePlugin, DropActive,
              DropOptions, DropJournals, RemoveDirectories, Keep, Fault, FaultTearing
<1>2. /\ RemovalMemory(mem) /\ RemovalFields \subseteq DOMAIN mem /\ WellFormed(mem.now)
      /\ Apart(mem.todo)
      /\ \A rec \in {mem.rec, mem.now} : RemovalMemory([mem EXCEPT !.now = rec])
      /\ RemovalMemory([mem EXCEPT !.preserved = TRUE])
      /\ RemovalMemory([mem EXCEPT !.now.entry = NoEntry])
  BY <1>1, RemovalRunning DEF RemovalMemory
<1>3. RecordsWellFormed'
  <2>1. /\ active' \in {active, NoRec} /\ preparing' \in {preparing, NoRec}
        /\ conflicted' \in {conflicted, NoRec, mem.now}
    BY DEF CleanConfig, Checkpoint, WriteConflict, RemoveRole, RolesRemoved, RemovePlugin, DropActive,
           DropOptions, DropJournals, RemoveDirectories, disk
  <2> QED
    BY <1>1, <1>2, <2>1 DEF IInv, RecordsWellFormed, WellFormed, Apart
<1>4. RemovePlugin => mine.plugins \subseteq installed'
  BY <1>2 DEF RemovePlugin, First, Apart, IInv, UserPluginsStay
<1>5. UserPluginsStay'
  BY <1>1, <1>4 DEF CleanConfig, Checkpoint, WriteConflict, RemoveRole, RolesRemoved, DropActive,
           DropOptions, DropJournals, RemoveDirectories, IInv, UserPluginsStay
<1>6. ASSUME pc' \in Removing, NEW n, mem' = n, RemovalMemory(n),
             pc' = "restart" => n.after # NoRec
      PROVE  IInv'
  BY <1>1, <1>3, <1>5, <1>6, RemovalGoesOn
<1>7. Stop => IInv'
  BY <1>1, <1>3, <1>5, Ends DEF Stop
<1>8. ASSUME NEW rec \in {mem.rec, mem.now}, StopWith(rec) PROVE IInv'
  BY <1>0, <1>2, <1>6, <1>8 DEF StopWith
<1>9. CASE CleanConfig
  BY <1>0, <1>2, <1>6, <1>8, <1>9 DEF CleanConfig
<1>10. CASE Checkpoint \/ DropOptions \/ DropActive
  BY <1>0, <1>2, <1>6, <1>8, <1>10 DEF Checkpoint, DropOptions, DropActive
<1>11. CASE WriteConflict
  BY <1>7, <1>11 DEF WriteConflict
<1>12. CASE RemoveRole
  <2>1. \A S : RemovalMemory([mem EXCEPT !.roles = S])
    BY <1>2 DEF RemovalMemory, RemovalFields
  <2>2. \A S : LET m == [mem EXCEPT !.roles = S] IN RemovalMemory([m EXCEPT !.preserved = TRUE])
    BY <1>2 DEF RemovalMemory, RemovalFields
  <2>3. \E n : mem' = n /\ RemovalMemory(n)
    BY <1>12, <2>1, <2>2 DEF RemoveRole
  <2>4. pc' = pc /\ pc # "restart"
    BY <1>12 DEF RemoveRole
  <2> QED
    BY <1>1, <1>6, <2>3, <2>4
<1>13. CASE RolesRemoved
  BY <1>0, <1>2, <1>6, <1>8, <1>13 DEF RolesRemoved
<1>14. CASE RemovePlugin
  <2>1. \A S : Apart(S) => RemovalMemory([mem EXCEPT !.todo = S])
    BY <1>2 DEF RemovalMemory, RemovalFields
  <2>2. \A S : Apart(mem.todo \ S)
    BY <1>2 DEF Apart
  <2>3. CASE \E q : mem' = [mem EXCEPT !.todo = @ \ {q}] /\ pc' = pc
    BY <1>1, <1>6, <1>14, <2>1, <2>2, <2>3 DEF RemovePlugin
  <2>4. CASE StopWith(mem.now)
    BY <1>8, <2>4
  <2> QED
    BY <1>14, <2>3, <2>4 DEF RemovePlugin
<1>15. CASE DropJournals
  BY <1>0, <1>2, <1>6, <1>7, <1>15 DEF DropJournals
<1>16. CASE RemoveDirectories
  BY <1>0, <1>2, <1>6, <1>7, <1>16 DEF RemoveDirectories
<1> QED
  BY <1>9, <1>10, <1>11, <1>12, <1>13, <1>14, <1>15, <1>16

(***************************************************************************)
(* The commands, the user and the environment.                             *)
(***************************************************************************)
LEMMA CommandSteps ==
    ASSUME IInv, (\E sel \in Selections : StartInstall(sel)) \/ StartRemove \/ Restart
    PROVE  IInv'
<1>1. UNCHANGED mine
  BY DEF StartInstall, StartRemove, Restart, Keep
<1>2. CASE \E sel \in Selections : StartInstall(sel)
  <2>1. PICK sel \in Selections : StartInstall(sel)
    BY <1>2
  <2>2. CASE \E accept \in BOOLEAN : BeginRemoval(sel, accept)
    BY <1>1, <2>2, BeginRemovalStep
  <2>3. CASE \E decision \in {"replace", "keep"} : Preflight(sel, decision)
    BY <1>1, <2>3, PreflightStep
  <2>4. CASE UNCHANGED <<disk, config, files, installed, pc, mem, notes>>
    <3>1. RecordsWellFormed' /\ UserPluginsStay' /\ pc' = "idle"
      BY <1>1, <2>1, <2>4, RecordsStay, PluginsStay DEF StartInstall
    <3> QED
      BY <1>1, <3>1, Ends
  <2> QED
    BY <2>1, <2>2, <2>3, <2>4 DEF StartInstall
<1>3. CASE StartRemove
  BY <1>1, <1>3, BeginRemovalStep DEF StartRemove
<1>4. CASE Restart
  <2>1. mem.after \in Selections
    BY <1>4 DEF Restart, IInv, RemovalInv, Removing
  <2> QED
    BY <1>1, <1>4, <2>1, PreflightStep DEF Restart
<1> QED
  BY <1>2, <1>3, <1>4

(* What the user and the environment do leaves the command alone. *)
LEMMA MemoryStays ==
    ASSUME IInv, UNCHANGED <<disk, pc, mem, mine>>, UserPluginsStay'
    PROVE  IInv'
<1>1. RecordsWellFormed'
  BY RecordsStay
<1>2. CASE pc = "idle"
  BY <1>1, <1>2, Ends
<1>3. CASE pc \in Fresh \cup Failing
  BY <1>1, <1>3, Running, Proceeds DEF InstallInv
<1>4. CASE pc \in Removing
  BY <1>1, <1>4, RemovalRunning, RemovalGoesOn
<1> QED
  BY <1>2, <1>3, <1>4 DEF IInv

LEMMA OtherSteps ==
    ASSUME IInv, User \/ NewRelease \/ Crash
    PROVE  IInv'
<1>1. CASE \E v : EditKey(v)
  BY <1>1, MemoryStays, PluginsStay DEF EditKey, Spend
<1>2. CASE \E f : EditFile(f)
  BY <1>2, MemoryStays, PluginsStay DEF EditFile, Spend
<1>3. CASE \E p \in Plugins : TogglePlugin(p)
  BY <1>3, MemoryStays DEF TogglePlugin, Spend, IInv, UserPluginsStay
<1>4. CASE NewRelease
  BY <1>4, MemoryStays, PluginsStay DEF NewRelease, Spend
<1>5. CASE Crash
  BY <1>5, Ends, RecordsStay, PluginsStay DEF Crash, Spend
<1> QED
  BY <1>1, <1>2, <1>3, <1>4, <1>5 DEF User

LEMMA InvInit == Init => IInv
BY DEF Init, IInv, UserPluginsStay, RecordsWellFormed, Fresh, Failing, Removing

LEMMA InvNext == IInv /\ [Next]_vars => IInv'
<1> SUFFICES ASSUME IInv, [Next]_vars PROVE IInv'
  OBVIOUS
<1>1. CASE UNCHANGED vars
  BY <1>1, MemoryStays, PluginsStay DEF vars, disk
<1>2. CASE Forward
  BY <1>2, JournalSteps, SnapshotStep, RoleSteps, SetUpStep, AddStep, PublishStep, OmitStep, VerifyStep,
     RecordSteps DEF Forward
<1>3. CASE RollBack
  BY <1>3, RollBackFirstSteps, RollBackRoleStep, RollBackAddedStep, RollBackRemovedStep,
     RollBackLastSteps DEF RollBack
<1>4. CASE Removal
  BY <1>4, RemovalSteps, CommandSteps DEF Removal
<1>5. CASE (\E sel \in Selections : StartInstall(sel)) \/ StartRemove
  BY <1>5, CommandSteps
<1>6. CASE User \/ NewRelease \/ Crash
  BY <1>6, OtherSteps
<1> QED
  BY <1>1, <1>2, <1>3, <1>4, <1>5, <1>6 DEF Next, Step

THEOREM Invariant == Spec => []IInv
BY InvInit, InvNext, PTL DEF Spec

(* A plugin the user had before HolyCodex is never removed: not by a       *)
(* rollback, a smaller selection, a removal or a reconciliation            *)
(* (installAndVerify, removeAndVerify and the rollback of                  *)
(* installHolyCodexEffect, removeHolyCodexEffect).                         *)
THEOREM UserPlugins == Spec => []UserPluginsStay
<1>1. IInv => UserPluginsStay
  BY DEF IInv
<1> QED
  BY <1>1, Invariant, PTL

(***************************************************************************)
(* The managed key.                                                        *)
(***************************************************************************)
LEMMA PublishReviewed ==
    ASSUME IInv, PublishConfig
    PROVE  ReviewedOnly
<1>1. pc = "plugins" /\ InstallInv /\ pc \in Fresh
  BY Running, FreshPcs DEF PublishConfig
<1>2. key' = key \/ (~ChangedDuringSetup /\ key' = Result)
  BY DEF PublishConfig
<1>3. mem.holding = "taken" /\ ~ChangedDuringSetup => key = mem.doc.key
  BY <1>1 DEF InstallInv, ChangedDuringSetup
<1> QED
  BY <1>1, <1>2, <1>3 DEF ReviewedOnly

LEMMA RollBackReviewed ==
    ASSUME IInv, RollBackConfig
    PROVE  ReviewedOnly
<1>1. pc = "rb_config" /\ Installing(mem) /\ key' \in {key, KeyRolledBack}
  BY Running, FreshPcs DEF RollBackConfig, config
<1>2. CASE key' # key
  <2>1. mem.jr.entry # NoEntry /\ key = mem.jr.entry.last /\ key # mem.live
    BY <1>1, <1>2 DEF KeyRolledBack
  <2>2. CASE mem.jr.entry = EntryOf(mem.prev)
    BY <1>1, <2>1, <2>2 DEF ReviewedOnly, EntryOf
  <2>3. CASE mem.jr.entry.last \in Selections \cup {mem.doc.key, mem.live}
    BY <2>1, <2>3 DEF ReviewedOnly
  <2> QED
    BY <1>1, <2>1, <2>2, <2>3 DEF Installing
<1> QED
  BY <1>2 DEF ReviewedOnly

(* Every other step leaves the key alone. *)
LEMMA StepReviewed ==
    ASSUME IInv, Next
    PROVE  ReviewedOnly
<1>1. CASE Forward
  <2>1. CASE PublishConfig
    BY <2>1, PublishReviewed
  <2>2. CASE ~PublishConfig
    <3>1. key' = key
      BY <1>1, <2>2 DEF Forward, WriteFirstJournal, Snapshot, ReadRoles, InstallRole, JournalRoles,
         JournalPlan, SetUpPlugins, AddPlugin, JournalOwnership, JournalConfig, OmitPlugin,
         JournalOmission, Verify, PublishRecord, ClearJournal, config
    <3> QED
      BY <3>1 DEF ReviewedOnly
  <2> QED
    BY <2>1, <2>2
<1>2. CASE RollBack
  <2>1. CASE RollBackConfig
    BY <2>1, RollBackReviewed
  <2>2. CASE ~RollBackConfig
    <3>1. key' = key
      BY <1>2, <2>2 DEF RollBack, RollBackRecord, RollBackRole, RollBackAdded, RollBackRemoved,
         RollBackEnd, ReportFailure, DropPreparing, config
    <3> QED
      BY <3>1 DEF ReviewedOnly
  <2> QED
    BY <2>1, <2>2
<1>3. CASE Removal
  <2>1. CASE CleanConfig
    BY <2>1 DEF CleanConfig, SameText, ReviewedOnly, config
  <2>2. CASE ~CleanConfig
    <3>1. key' = key
      BY <1>3, <2>2 DEF Removal, Checkpoint, WriteConflict, RemoveRole, RolesRemoved, RemovePlugin,
         DropActive, DropOptions, DropJournals, RemoveDirectories, Restart, Preflight, config
    <3> QED
      BY <3>1 DEF ReviewedOnly
  <2> QED
    BY <2>1, <2>2
<1>4. CASE (\E sel \in Selections : StartInstall(sel)) \/ StartRemove
  BY <1>4 DEF StartInstall, StartRemove, BeginRemoval, Preflight, ReviewedOnly, config
<1>5. CASE User
  BY <1>5 DEF User, OwnEdit, EditFile, TogglePlugin, ReviewedOnly, config
<1>6. CASE NewRelease \/ Crash
  BY <1>6 DEF NewRelease, Crash, ReviewedOnly, config
<1> QED
  BY <1>1, <1>2, <1>3, <1>4, <1>5, <1>6 DEF Next, Step

(* The managed key loses a value of the user only to a command that has    *)
(* reviewed it, to an install that takes its key back from Codex's plugin  *)
(* setup, or to a rollback that finds the value the active record tells    *)
(* for HolyCodex's own (installHolyCodexEffect, rollbackConfigTransaction, *)
(* removeHolyCodexEffect).                                                 *)
THEOREM Edits == Spec => EditsSurvive
<1>1. IInv /\ [Next]_vars => [ReviewedOnly]_vars
  BY StepReviewed
<1> QED
  BY <1>1, Invariant, PTL DEF Spec, EditsSurvive

(***************************************************************************)
(* What the records tell of the effects.  The inductive invariant has a    *)
(* part for each of: types, the records, the key, its original value, each *)
(* plugin and each role asset.  All but the first speak of what no death   *)
(* and no failure has left untold, that is, of what is not in notes.       *)
(***************************************************************************)
JournalFields == RecordFields \cup {"digest"}

TypedInstall(m) ==
    /\ m.sel \in Selections /\ m.prev \in ActiveRecords \cup {NoRec}
    /\ m.jr \in TransactionJournals
    /\ m.doc.key \in KeyValues /\ m.doc.pref \in Prefs /\ m.live \in KeyValues
    /\ m.entry \in Entries /\ m.before \in Prefs
    /\ m.snap \subseteq Plugins /\ m.todo \subseteq Plugins /\ m.added \subseteq Plugins
    /\ m.gone \subseteq Plugins /\ m.roles \subseteq Files /\ DOMAIN m.native \subseteq Files
    /\ m.effects \in BOOLEAN /\ m.recorded \in BOOLEAN /\ m.failed \in BOOLEAN
    /\ m.holding \in {"managed", "taken", "kept", "kept before"}
    /\ m.holding = "kept before" => m.entry # NoEntry

TypedRemoval(m) ==
    /\ m.rec \in TransactionJournals /\ m.now \in TransactionJournals
    /\ m.todo \subseteq Plugins /\ m.roles \subseteq Files

TypedRecords ==
    /\ active \in ActiveRecords \cup {NoRec}
    /\ {preparing, conflicted} \subseteq TransactionJournals \cup {NoRec}

TypedSystem ==
    /\ key \in KeyValues /\ pref \in Prefs /\ DOMAIN files = Files /\ installed \subseteq Plugins
    /\ release \in Nat \ {0} /\ left \in [commands : Nat, troubles : Nat, releases : Nat]
    /\ mine.key \in UserValues \cup {Absent} /\ mine.plugins \subseteq Plugins

Typed ==
    /\ TypedRecords /\ TypedSystem
    /\ pc \in Fresh \cup Failing => TypedInstall(mem)
    /\ pc \in Removing => TypedRemoval(mem)

LEMMA RecordTyped ==
    ASSUME NEW rec \in ActiveRecords \cup TransactionJournals \cup {NoRec}
    PROVE  /\ OwnedBy(rec) \subseteq Plugins /\ ArtsOf(rec) \in [Files -> Int]
           /\ EntryOf(rec) \in Entries
<1>1. NoArts \in [Files -> Int]
  BY DEF NoArts, None
<1>2. CASE rec = NoRec
  BY <1>1, <1>2 DEF OwnedBy, ArtsOf, EntryOf, Entries
<1>3. CASE rec \in ActiveRecords
  BY <1>1, <1>3 DEF OwnedBy, ArtsOf, EntryOf, Entries, ActiveRecords
<1>4. CASE rec \in TransactionJournals
  BY <1>1, <1>4 DEF OwnedBy, ArtsOf, EntryOf, Entries, TransactionJournals
<1> QED
  BY <1>2, <1>3, <1>4

(***************************************************************************)
(* The steps of an install, field by field.                                *)
(***************************************************************************)
Stays(S) == \A field \in InstallFields \ S : mem'[field] = mem[field]
JournalStays(S) == \A field \in JournalFields \ S : mem'.jr[field] = mem.jr[field]

(* Nothing the user or the environment owns changes; notes only grow. *)
Frame ==
    /\ UNCHANGED <<release, mine>> /\ notes \subseteq notes'
    /\ left' = left \/ Spend("troubles")

LEMMA Memory ==
    ASSUME IInv, Typed, pc \in Fresh \cup Failing
    PROVE  /\ InstallFields \subseteq DOMAIN mem /\ TypedInstall(mem)
           /\ DOMAIN mem.jr = JournalFields /\ DOMAIN mem.jr.arts = Files
           /\ mem' = mem => Stays({}) /\ JournalStays({})
BY Running DEF Typed, TypedInstall, TransactionJournals, JournalFields, RecordFields, Stays, JournalStays

LEMMA WriteFirstEffect ==
    ASSUME IInv, Typed, WriteFirstJournal
    PROVE  /\ pc = "journal" /\ Frame /\ UNCHANGED <<active, conflicted, config, files, installed>>
           /\ \/ pc' = "snapshot" /\ mem' = mem /\ preparing' = mem.jr
              \/ pc' = "idle" /\ preparing' \in {preparing, mem.jr}
BY DEF WriteFirstJournal, Write, Keep, Fault, FaultTearing, Fails, Frame

LEMMA WriteEffect ==
    ASSUME IInv, Typed,
           JournalRoles \/ JournalPlan \/ JournalOwnership \/ JournalConfig \/ JournalOmission
    PROVE  /\ Frame /\ UNCHANGED <<active, conflicted, config, files, installed>>
           /\ \/ pc' = "rb_record" /\ preparing' \in {preparing, mem'.jr}
              \/ /\ preparing' = mem'.jr
                 /\ <<pc, pc'>> \in {<<"roles", "plan">>, <<"plan", "setup">>, <<"own", "plugins">>,
                                     <<"published", "omit">>, <<"unown", "omit">>}
           /\ pc \in {"roles", "plan", "own", "published", "unown"}
           /\ Stays({"jr", "nativeDone", "effects", "failing", "todo"})
           /\ mem'.jr \in TransactionJournals /\ JournalStays({"before", "after"})
           /\ mem'.effects = IF pc = "plan" THEN TRUE ELSE mem.effects
           /\ mem'.todo = IF pc = "published" THEN OwnedBy(mem.prev) \ Wanted(mem.sel) ELSE mem.todo
<1> USE DEF Frame, Write, Keep, Fault, FaultTearing, Fails
<1>0. /\ InstallFields \subseteq DOMAIN mem /\ TypedInstall(mem) /\ DOMAIN mem.jr = JournalFields
      /\ mem.jr \in TransactionJournals /\ mem.doc.pref \in Prefs
  BY Memory, FreshPcs DEF JournalRoles, JournalPlan, JournalOwnership, JournalConfig,
     JournalOmission, TypedInstall
<1>1. CASE JournalRoles
  BY <1>0, <1>1 DEF JournalRoles, Stays, JournalStays, InstallFields
<1>2. CASE JournalPlan
  <2> DEFINE j == [mem.jr EXCEPT !.before = mem.doc.pref, !.after = "on"]
             n == [mem EXCEPT !.jr.before = mem.doc.pref, !.jr.after = "on", !.effects = TRUE]
  <2>1. j \in TransactionJournals
    BY <1>0 DEF TransactionJournals, Prefs
  <2>2. \A field \in JournalFields \ {"before", "after"} : j[field] = mem.jr[field]
    BY <1>0
  <2>3. n.jr = j /\ n.effects = TRUE
        /\ \A field \in InstallFields \ {"jr", "effects"} : n[field] = mem[field]
    BY <1>0 DEF InstallFields
  <2>4. mem' = n
    BY <1>2 DEF JournalPlan
  <2> HIDE DEF j, n
  <2>5. Stays({"jr", "nativeDone", "effects", "failing", "todo"}) /\ mem'.todo = mem.todo
        /\ mem'.effects = TRUE /\ mem'.jr = j
    BY <2>3, <2>4 DEF Stays, InstallFields
  <2>6. /\ pc = "plan"
        /\ \/ preparing' \in {preparing, j} /\ pc' = "rb_record"
           \/ preparing' = j /\ pc' = "setup"
    BY <1>2, <2>3 DEF JournalPlan, n
  <2> QED
    BY <1>2, <2>1, <2>2, <2>5, <2>6 DEF JournalPlan, JournalStays
<1>3. CASE JournalOwnership \/ JournalOmission
  BY <1>0, <1>3 DEF JournalOwnership, JournalOmission, Stays, JournalStays, InstallFields
<1>4. CASE JournalConfig
  BY <1>0, <1>4 DEF JournalConfig, Stays, JournalStays, InstallFields
<1> QED
  BY <1>1, <1>2, <1>3, <1>4

LEMMA SnapshotEffect ==
    ASSUME IInv, Typed, Snapshot
    PROVE  /\ pc = "snapshot" /\ pc' \in {"read", "rb_record"} /\ Frame
           /\ UNCHANGED <<disk, config, files, installed>>
           /\ Stays({"snap", "live"}) /\ mem'.live \in {mem.live, key}
           /\ mem'.snap \in {mem.snap, installed \cap (Wanted(mem.sel) \cup OwnedBy(mem.prev))}
BY Memory, FreshPcs DEF Snapshot, Keep, Fault, FaultTearing, Fails, Frame, Stays, InstallFields

LEMMA ReadEffect ==
    ASSUME IInv, Typed, ReadRoles
    PROVE  /\ pc = "read" /\ Frame
           /\ UNCHANGED <<disk, config, files, installed>> /\ Stays({"current", "kept"})
           /\ \/ pc' = "rb_record"
              \/ /\ pc' = "roles" /\ mem'.current = [f \in mem.roles |-> files[f]]
                 /\ mem'.kept = {f \in mem.roles : RoleConflict(f) /\ mem.reviewed[f] = None}
BY Memory, FreshPcs DEF ReadRoles, Keep, Fault, FaultTearing, Fails, Frame, Stays, InstallFields

WithOriginal(f) ==
    [g \in {f} \cup DOMAIN mem.native |-> IF g = f THEN mem.current[f] ELSE mem.native[g]]

RoleOutcome(f, content) ==
    /\ pc' = "roles" /\ mem'.roles = mem.roles \ {f} /\ Stays({"roles", "jr", "native"})
    /\ JournalStays({"arts"}) /\ mem'.jr.arts = [mem.jr.arts EXCEPT ![f] = content]
    /\ mem'.jr \in TransactionJournals
    /\ \/ /\ f \in mem.kept /\ content = ArtsOf(mem.prev)[f] /\ files' = files
          /\ mem'.native = mem.native
       \/ /\ f \notin mem.kept /\ content = Contents(f, release) /\ files' = files
          /\ mem'.native = mem.native
       \/ /\ f \notin mem.kept /\ content = Contents(f, release)
          /\ files' = [files EXCEPT ![f] = content]
          /\ mem'.native = WithOriginal(f)

LEMMA RoleEffect ==
    ASSUME IInv, Typed, InstallRole
    PROVE  /\ pc = "roles" /\ Frame /\ UNCHANGED <<disk, config, installed>>
           /\ \E f \in mem.roles :
                \/ pc' = "rb_record" /\ mem' = mem /\ files' = files
                \/ /\ pc' = "rb_record" /\ mem' = mem /\ f \in notes'
                   /\ files' = [files EXCEPT ![f] = Contents(f, release)]
                \/ \E content : RoleOutcome(f, content)
<1> DEFINE f == First(mem.sel, mem.roles)
           want == Contents(f, release)
<1>0. /\ InstallFields \subseteq DOMAIN mem /\ TypedInstall(mem) /\ DOMAIN mem.jr = JournalFields
      /\ mem.jr \in TransactionJournals /\ pc = "roles" /\ f \in mem.roles /\ f \in Files
      /\ want \in Int /\ ArtsOf(mem.prev)[f] \in Int
  <2>1. pc = "roles" /\ mem.roles # {} /\ pc \in Fresh
    BY FreshPcs DEF InstallRole
  <2>2. TypedInstall(mem) /\ f \in mem.roles /\ f \in Files
    BY <2>1, Memory DEF First, TypedInstall
  <2>3. want \in Int
    BY DEF Contents, Typed, TypedSystem
  <2>4. ArtsOf(mem.prev)[f] \in Int
    BY <2>2, RecordTyped DEF TypedInstall
  <2> QED
    BY <2>1, <2>2, <2>3, <2>4, Memory DEF TypedInstall
<1>1. Frame /\ UNCHANGED <<disk, config, installed>>
  BY DEF InstallRole, Frame, Keep, Fault, FaultTearing
<1> HIDE DEF f
<1>2. \A content \in Int :
        LET j == [mem.jr EXCEPT !.arts = [@ EXCEPT ![f] = content]] IN
        /\ RecordRole(f, content) = [mem EXCEPT !.roles = @ \ {f}, !.jr = j]
        /\ j \in TransactionJournals /\ j.arts = [mem.jr.arts EXCEPT ![f] = content]
        /\ \A field \in JournalFields \ {"arts"} : j[field] = mem.jr[field]
  BY <1>0 DEF RecordRole, TransactionJournals, InstallFields
<1>3. ASSUME NEW content \in Int, mem' = RecordRole(f, content)
      PROVE  /\ mem'.roles = mem.roles \ {f} /\ Stays({"roles", "jr", "native"}) /\ mem'.native = mem.native
             /\ JournalStays({"arts"}) /\ mem'.jr.arts = [mem.jr.arts EXCEPT ![f] = content]
             /\ mem'.jr \in TransactionJournals
  <2> DEFINE j == [mem.jr EXCEPT !.arts = [@ EXCEPT ![f] = content]]
  <2>1. mem' = [mem EXCEPT !.roles = @ \ {f}, !.jr = j] /\ j \in TransactionJournals
        /\ j.arts = [mem.jr.arts EXCEPT ![f] = content]
        /\ \A field \in JournalFields \ {"arts"} : j[field] = mem.jr[field]
    BY <1>2, <1>3
  <2> HIDE DEF j
  <2>2. mem'.jr = j /\ mem'.roles = mem.roles \ {f} /\ mem'.native = mem.native
        /\ Stays({"roles", "jr", "native"})
    BY <1>0, <2>1 DEF Stays, InstallFields
  <2> QED
    BY <2>1, <2>2 DEF JournalStays
<1>4. ASSUME mem' = Replaced(f)
      PROVE  /\ mem'.roles = mem.roles \ {f} /\ Stays({"roles", "jr", "native"})
             /\ mem'.native = WithOriginal(f)
             /\ JournalStays({"arts"}) /\ mem'.jr.arts = [mem.jr.arts EXCEPT ![f] = want]
             /\ mem'.jr \in TransactionJournals
  <2> DEFINE j == [mem.jr EXCEPT !.arts = [@ EXCEPT ![f] = want]]
             m == [mem EXCEPT !.roles = @ \ {f}, !.jr = j]
  <2>1. RecordRole(f, want) = m /\ j \in TransactionJournals
        /\ j.arts = [mem.jr.arts EXCEPT ![f] = want]
        /\ \A field \in JournalFields \ {"arts"} : j[field] = mem.jr[field]
    BY <1>0, <1>2
  <2> HIDE DEF j
  <2>2. /\ m.jr = j /\ m.roles = mem.roles \ {f} /\ m.native = mem.native
        /\ \A field \in InstallFields \ {"roles", "jr"} : m[field] = mem[field]
        /\ DOMAIN m = DOMAIN mem
    BY <1>0 DEF InstallFields
  <2> HIDE DEF m
  <2>3. mem' = [m EXCEPT !.native = WithOriginal(f)]
    BY <1>4, <2>1, <2>2 DEF Replaced, WithOriginal
  <2>4. /\ mem'.jr = j /\ mem'.roles = mem.roles \ {f}
        /\ mem'.native = WithOriginal(f) /\ Stays({"roles", "jr", "native"})
    BY <1>0, <2>2, <2>3 DEF Stays, InstallFields
  <2> QED
    BY <2>1, <2>4 DEF JournalStays
<1>5. CASE Fails(mem)
  <2>1. files' = files \/ (f \in notes' /\ files' = [files EXCEPT ![f] = want])
    BY <1>0, <1>5 DEF InstallRole, f, Fails, FaultTearing
  <2> QED
    BY <1>0, <1>1, <1>5, <2>1 DEF Fails
<1>6. CASE f \in mem.kept /\ mem' = RecordRole(f, ArtsOf(mem.prev)[f]) /\ files' = files /\ pc' = pc
  BY <1>0, <1>1, <1>3, <1>6 DEF RoleOutcome
<1>7. CASE f \notin mem.kept /\ mem' = RecordRole(f, want) /\ files' = files /\ pc' = pc
  BY <1>0, <1>1, <1>3, <1>7 DEF RoleOutcome
<1>8. CASE f \notin mem.kept /\ mem' = Replaced(f) /\ files' = [files EXCEPT ![f] = want] /\ pc' = pc
  BY <1>0, <1>1, <1>4, <1>8 DEF RoleOutcome
<1> QED
  BY <1>5, <1>6, <1>7, <1>8 DEF InstallRole, f

LEMMA SetUpEffect ==
    ASSUME IInv, Typed, SetUpPlugins
    PROVE  /\ pc = "setup" /\ pc' \in {"plugins", "rb_record"} /\ Frame /\ mem' = mem
           /\ UNCHANGED <<disk, key, files, installed>> /\ pref' \in {pref, "on"}
BY DEF SetUpPlugins, Keep, Fault, FaultTearing, Fails, Frame

LEMMA AddEffect ==
    ASSUME IInv, Typed, AddPlugin
    PROVE  /\ pc = "plugins" /\ Frame /\ UNCHANGED <<disk, config, files>>
           /\ \E p \in mem.todo :
                \/ /\ pc' = "plugins" /\ installed' = installed /\ Stays({"todo"})
                   /\ mem'.todo = mem.todo \ {p}
                \/ pc' = "rb_record" /\ mem' = mem /\ installed' = installed
                \/ /\ pc' = "own" /\ installed' \in {installed, installed \cup {p}}
                   /\ Stays({"todo", "jr", "added", "unsure", "failing"}) /\ JournalStays({"owned"})
                   /\ mem'.todo = mem.todo \ {p} /\ mem'.jr \in TransactionJournals
                   /\ mem'.jr.owned = mem.jr.owned \cup {p}
                   /\ mem.added \subseteq mem'.added /\ mem'.added \subseteq mem.added \cup {p}
                   /\ mem.unsure \subseteq mem'.unsure /\ p \in mem'.added \cup mem'.unsure
<1> DEFINE p == First(Holy, mem.todo)
<1>0. /\ InstallFields \subseteq DOMAIN mem /\ DOMAIN mem.jr = JournalFields
      /\ mem.jr \in TransactionJournals /\ pc = "plugins" /\ p \in mem.todo /\ p \in Plugins
      /\ pc \in Fresh
  BY Memory, FreshPcs DEF AddPlugin, First, TypedInstall
<1>1. Frame /\ UNCHANGED <<disk, config, files>>
  BY DEF AddPlugin, Frame, Keep, Fault, FaultTearing
<1> HIDE DEF p
<1> DEFINE j == [mem.jr EXCEPT !.owned = @ \cup {p}]
<1>2. /\ j \in TransactionJournals /\ j.owned = mem.jr.owned \cup {p}
      /\ \A field \in JournalFields \ {"owned"} : j[field] = mem.jr[field]
  BY <1>0 DEF TransactionJournals
<1>3. ASSUME NEW kind \in {"added", "unsure"}
      PROVE  LET n == Added(p, kind) IN
             /\ n.jr = j /\ n.todo = mem.todo \ {p} /\ DOMAIN n = DOMAIN mem
             /\ mem.added \subseteq n.added /\ n.added \subseteq mem.added \cup {p}
             /\ mem.unsure \subseteq n.unsure /\ p \in n.added \cup n.unsure
             /\ \A field \in InstallFields \ {"todo", "jr", "added", "unsure"} : n[field] = mem[field]
  BY <1>0 DEF Added, InstallFields
<1> HIDE DEF j
<1>4. CASE mem' = [mem EXCEPT !.todo = @ \ {p}] /\ installed' = installed /\ pc' = pc
  BY <1>0, <1>1, <1>4 DEF Stays, InstallFields
<1>5. CASE Fails(mem) /\ installed' = installed
  BY <1>0, <1>1, <1>5 DEF Fails
<1>6. ASSUME NEW kind \in {"added", "unsure"}, NEW n, n = Added(p, kind),
             mem' = n \/ mem' = [n EXCEPT !.failing = TRUE], pc' = "own",
             installed' \in {installed, installed \cup {p}}
      PROVE  /\ Stays({"todo", "jr", "added", "unsure", "failing"}) /\ JournalStays({"owned"})
             /\ mem'.todo = mem.todo \ {p} /\ mem'.jr \in TransactionJournals
             /\ mem'.jr.owned = mem.jr.owned \cup {p}
             /\ mem.added \subseteq mem'.added /\ mem'.added \subseteq mem.added \cup {p}
             /\ mem.unsure \subseteq mem'.unsure /\ p \in mem'.added \cup mem'.unsure
  <2>1. /\ n.jr = j /\ n.todo = mem.todo \ {p} /\ DOMAIN n = DOMAIN mem
        /\ mem.added \subseteq n.added /\ n.added \subseteq mem.added \cup {p}
        /\ mem.unsure \subseteq n.unsure /\ p \in n.added \cup n.unsure
        /\ \A field \in InstallFields \ {"todo", "jr", "added", "unsure"} : n[field] = mem[field]
    BY <1>3, <1>6
  <2>2. /\ mem'.jr = j /\ mem'.todo = n.todo /\ mem'.added = n.added /\ mem'.unsure = n.unsure
        /\ \A field \in InstallFields \ {"failing"} : mem'[field] = n[field]
    BY <1>0, <1>6, <2>1 DEF InstallFields
  <2>3. Stays({"todo", "jr", "added", "unsure", "failing"})
    BY <2>1, <2>2 DEF Stays
  <2> QED
    BY <1>2, <2>1, <2>2, <2>3 DEF JournalStays
<1>7. CASE Adds(p) /\ installed' = installed \cup {p} /\ mem' = Added(p, Kind(p)) /\ pc' = "own"
  <2>1. Kind(p) \in {"added", "unsure"}
    BY DEF Kind
  <2> QED
    BY <1>0, <1>1, <1>6, <1>7, <2>1
<1>8. CASE /\ installed' \in {installed, installed \cup {p}} /\ pc' = "own"
           /\ mem' = [Added(p, "unsure") EXCEPT !.failing = TRUE]
  BY <1>0, <1>1, <1>6, <1>8
<1> QED
  BY <1>4, <1>5, <1>7, <1>8 DEF AddPlugin, p

LEMMA PublishEffect ==
    ASSUME IInv, Typed, PublishConfig
    PROVE  /\ pc = "plugins" /\ Frame /\ UNCHANGED <<disk, pref, files, installed>>
           /\ \/ pc' = "rb_record" /\ mem' = mem /\ key' = key
              \/ /\ Stays({"jr", "target"}) /\ JournalStays({"entry", "before"})
                 /\ mem'.jr.entry = EntryAfter /\ mem'.jr.before = mem.before
                 /\ EntryAfter \in Entries => mem'.jr \in TransactionJournals
                 /\ \/ pc' = "published" /\ key' = Result
                    \/ pc' = "rb_record" /\ key' \in {key, Result}
<1> DEFINE j == [mem.jr EXCEPT !.entry = EntryAfter, !.before = mem.before]
           m == [mem EXCEPT !.jr = j]
           n == [Publishing(mem) EXCEPT !.target = Result]
<1>0. /\ InstallFields \subseteq DOMAIN mem /\ DOMAIN mem.jr = JournalFields /\ pc = "plugins"
      /\ Frame /\ UNCHANGED <<disk, pref, files, installed>>
  BY Memory, FreshPcs DEF PublishConfig, Frame, Keep, Fault, FaultTearing
<1>1. /\ j.entry = EntryAfter /\ j.before = mem.before
      /\ \A field \in JournalFields \ {"entry", "before"} : j[field] = mem.jr[field]
  BY <1>0 DEF JournalFields, RecordFields
<1>6. EntryAfter \in Entries => j \in TransactionJournals
  <2>1. mem.jr \in TransactionJournals /\ mem.before \in Prefs
    BY <1>0, FreshPcs, Memory DEF TypedInstall
  <2> QED
    BY <2>1 DEF TransactionJournals
<1>2. Publishing(mem) = m
  BY <1>0 DEF Publishing, InstallFields
<1> HIDE DEF j
<1>3. /\ n.jr = j
      /\ \A field \in InstallFields \ {"jr", "target"} : n[field] = mem[field]
  BY <1>0, <1>2 DEF InstallFields
<1>4. CASE Fails(mem) /\ key' = key
  BY <1>0, <1>4 DEF Fails
<1>5. CASE /\ mem' = n
           /\ \/ key' = Result /\ pc' = "published"
              \/ pc' = "rb_record" /\ key' \in {key, Result}
  BY <1>0, <1>1, <1>3, <1>5, <1>6 DEF Stays, JournalStays
<1> QED
  BY <1>4, <1>5 DEF PublishConfig, Fails

LEMMA OmitEffect ==
    ASSUME IInv, Typed, OmitPlugin
    PROVE  /\ pc = "omit" /\ pc' = "unown" /\ Frame /\ UNCHANGED <<disk, config, files>>
           /\ Stays({"todo", "jr", "gone", "failing"}) /\ JournalStays({"owned"})
           /\ mem'.jr \in TransactionJournals
           /\ \E p \in mem.todo :
                /\ mem'.todo \in {mem.todo, mem.todo \ {p}}
                /\ mem.gone \subseteq mem'.gone /\ mem'.gone \subseteq mem.gone \cup {p}
                /\ \/ installed' = installed \ {p} /\ mem'.jr.owned \in {mem.jr.owned, mem.jr.owned \ {p}}
                   \/ installed' = installed /\ mem'.jr.owned = mem.jr.owned
<1> DEFINE p == First(Holy, mem.todo)
<1>0. /\ InstallFields \subseteq DOMAIN mem /\ DOMAIN mem.jr = JournalFields
      /\ mem.jr \in TransactionJournals /\ pc = "omit" /\ p \in mem.todo /\ p \in Plugins
      /\ pc' = "unown" /\ Frame /\ UNCHANGED <<disk, config, files>>
  BY Memory, FreshPcs DEF OmitPlugin, First, TypedInstall, Frame, Keep, Fault, FaultTearing
<1> HIDE DEF p
<1> DEFINE j == [mem.jr EXCEPT !.owned = @ \ {p}]
           m == Omitted(p)
<1>1. /\ j \in TransactionJournals /\ j.owned = mem.jr.owned \ {p}
      /\ \A field \in JournalFields \ {"owned"} : j[field] = mem.jr[field]
  BY <1>0 DEF TransactionJournals
<1>2. /\ m.jr = j /\ m.todo = mem.todo \ {p} /\ m.gone = mem.gone \cup {p} /\ DOMAIN m = DOMAIN mem
      /\ \A field \in InstallFields \ {"todo", "jr", "gone"} : m[field] = mem[field]
  BY <1>0 DEF Omitted, InstallFields
<1> HIDE DEF j, m
<1>3. ASSUME mem' \in {m, [m EXCEPT !.gone = mem.gone], [m EXCEPT !.failing = TRUE]}
      PROVE  /\ Stays({"todo", "jr", "gone", "failing"}) /\ JournalStays({"owned"})
             /\ mem'.jr \in TransactionJournals /\ mem'.todo = mem.todo \ {p}
             /\ mem.gone \subseteq mem'.gone /\ mem'.gone \subseteq mem.gone \cup {p}
             /\ mem'.jr.owned = mem.jr.owned \ {p}
  <2>1. /\ mem'.jr = j /\ mem'.todo = m.todo /\ mem'.gone \in {m.gone, mem.gone}
        /\ \A field \in InstallFields \ {"failing", "gone"} : mem'[field] = m[field]
    BY <1>0, <1>2, <1>3 DEF InstallFields
  <2> QED
    BY <1>1, <1>2, <2>1 DEF Stays, JournalStays
<1>4. ASSUME mem' = [mem EXCEPT !.gone = @ \cup {p}, !.failing = TRUE]
      PROVE  /\ Stays({"todo", "jr", "gone", "failing"}) /\ JournalStays({"owned"})
             /\ mem'.jr = mem.jr /\ mem'.todo = mem.todo
             /\ mem.gone \subseteq mem'.gone /\ mem'.gone \subseteq mem.gone \cup {p}
  <2>1. /\ mem'.jr = mem.jr /\ mem'.todo = mem.todo /\ mem'.gone = mem.gone \cup {p}
        /\ \A field \in InstallFields \ {"failing", "gone"} : mem'[field] = mem[field]
    BY <1>0, <1>4 DEF InstallFields
  <2> QED
    BY <2>1 DEF Stays, JournalStays
<1>5. CASE /\ mem' \in {m, [m EXCEPT !.gone = mem.gone], [m EXCEPT !.failing = TRUE]}
           /\ installed' = installed \ {p} \/ (p \notin installed /\ installed' = installed)
  <2>1. installed' = installed \ {p}
    BY <1>5
  <2> QED
    BY <1>0, <1>3, <1>5, <2>1
<1>6. CASE /\ mem' = [mem EXCEPT !.gone = @ \cup {p}, !.failing = TRUE]
           /\ installed' \in {installed, installed \ {p}}
  BY <1>0, <1>4, <1>6
<1> QED
  BY <1>5, <1>6 DEF OmitPlugin, p, m

LEMMA VerifyEffect ==
    ASSUME IInv, Typed, Verify
    PROVE  /\ pc = "omit" /\ Frame /\ UNCHANGED <<disk, config, files, installed>>
           /\ \/ pc' = "record" /\ Stays({"recorded"}) /\ mem'.recorded = TRUE
              \/ pc' = "rb_record" /\ mem' = mem
BY Memory, FreshPcs DEF Verify, Keep, Fault, FaultTearing, Fails, Frame, Stays, InstallFields

LEMMA PublishRecordEffect ==
    ASSUME IInv, Typed, PublishRecord
    PROVE  /\ pc = "record" /\ Frame /\ mem' = mem
           /\ UNCHANGED <<preparing, conflicted, config, files, installed>>
           /\ \/ pc' = "clear" /\ active' = ActiveRecord
              \/ pc' = "rb_record" /\ active' \in {active, ActiveRecord}
BY DEF PublishRecord, Keep, Fault, FaultTearing, Fails, Frame

LEMMA ClearEffect ==
    ASSUME IInv, Typed, ClearJournal
    PROVE  /\ pc = "clear" /\ Frame
           /\ UNCHANGED <<active, config, files, installed>>
           /\ \/ pc' = "idle" /\ preparing' = NoRec /\ conflicted' = NoRec
              \/ pc' = "rb_record" /\ mem' = mem /\ UNCHANGED <<preparing, conflicted>>
BY DEF ClearJournal, Keep, Fault, FaultTearing, Fails, Frame

(***************************************************************************)
(* The steps of a rollback, field by field.                                *)
(***************************************************************************)
LEMMA FailedStays ==
    ASSUME IInv, Typed, pc \in Failing, NEW b \in BOOLEAN, mem' = [mem EXCEPT !.failed = b]
    PROVE  Stays({"failed"}) /\ mem'.failed = b
BY Memory DEF Stays, InstallFields

LEMMA RollBackRecordEffect ==
    ASSUME IInv, Typed, RollBackRecord
    PROVE  /\ pc = "rb_record" /\ pc' = "rb_config" /\ Frame /\ Stays({"failed"})
           /\ UNCHANGED <<preparing, conflicted, config, files, installed>>
           /\ \/ mem' = mem /\ active' = IF mem.recorded THEN mem.prev ELSE active
              \/ /\ {"key"} \cup Plugins \cup Files \subseteq notes' /\ mem'.failed = TRUE
                 /\ active' \in {active, mem.prev}
<1>1. pc = "rb_record" /\ pc \in Failing
  BY FreshPcs DEF RollBackRecord
<1> QED
  BY <1>1, FailedStays, Memory
     DEF RollBackRecord, Keep, FaultTearing, Frame, Stays

LEMMA RollBackConfigEffect ==
    ASSUME IInv, Typed, RollBackConfig
    PROVE  /\ pc = "rb_config" /\ pc' = "rb_roles" /\ Frame /\ UNCHANGED <<disk, files, installed>>
           /\ Stays({"failed"}) /\ pref' \in {pref, PrefCleaned(mem.jr, pref)}
           /\ \/ ~mem.effects /\ mem' = mem /\ key' = key
              \/ mem.effects /\ mem' = mem /\ key' = KeyRolledBack
              \/ mem'.failed = TRUE /\ key' \in {key, KeyRolledBack}
<1>1. pc = "rb_config" /\ pc \in Failing
  BY FreshPcs DEF RollBackConfig
<1> QED
  BY <1>1, FailedStays, Memory
     DEF RollBackConfig, Keep, Fault, FaultTearing, Frame, Stays, config

LEMMA RollBackRoleEffect ==
    ASSUME IInv, Typed, RollBackRole
    PROVE  /\ pc = "rb_roles" /\ pc' = "rb_roles" /\ Frame /\ UNCHANGED <<disk, config, installed>>
           /\ Stays({"native", "failed"}) /\ mem'.failed \in {mem.failed, TRUE}
           /\ \E f \in DOMAIN mem.native :
                \/ /\ mem'.native = [g \in DOMAIN mem.native \ {f} |-> mem.native[g]]
                   /\ \/ files[f] = Contents(f, release) /\ files' = [files EXCEPT ![f] = mem.native[f]]
                      \/ files[f] # Contents(f, release) /\ files' = files
                \/ /\ files' = files /\ DOMAIN mem'.native = {}
                   /\ mem'.failed = TRUE \/ DOMAIN mem.native \subseteq notes'
<1> DEFINE f == First(Catalog, DOMAIN mem.native)
           rest == [g \in DOMAIN mem.native \ {f} |-> mem.native[g]]
           m == [mem EXCEPT !.native = rest]
<1>0. /\ pc = "rb_roles" /\ pc \in Failing /\ f \in DOMAIN mem.native /\ pc' = pc
      /\ Frame /\ UNCHANGED <<disk, config, installed>>
  BY FreshPcs DEF RollBackRole, First, Frame, Keep, Fault, FaultTearing
<1>1. InstallFields \subseteq DOMAIN mem /\ mem.failed \in BOOLEAN
  BY <1>0, Memory DEF TypedInstall
<1> HIDE DEF f, rest
<1>2. CASE /\ files[f] = Contents(f, release) /\ files' = [files EXCEPT ![f] = mem.native[f]]
           /\ mem' = m
  BY <1>0, <1>1, <1>2 DEF Stays, InstallFields, rest
<1>3. CASE /\ files[f] # Contents(f, release) /\ files' = files
           /\ mem' = [m EXCEPT !.failed = @ \/ mem.nativeDone]
  <2>1. mem' = [mem EXCEPT !.native = rest, !.failed = mem.failed \/ mem.nativeDone]
    BY <1>1, <1>3 DEF InstallFields
  <2> DEFINE b == mem.failed \/ mem.nativeDone
  <2>2. b \in {mem.failed, TRUE}
    BY <1>1
  <2> HIDE DEF b
  <2>3. mem'.native = rest /\ mem'.failed = b /\ Stays({"native", "failed"})
    BY <1>1, <2>1 DEF Stays, InstallFields, b
  <2> QED
    BY <1>0, <1>3, <2>2, <2>3 DEF rest
<1>4. CASE /\ files' = files
           /\ (IF mem.nativeDone THEN {} ELSE DOMAIN mem.native) \subseteq notes'
           /\ mem' = [mem EXCEPT !.native = [g \in {} |-> None], !.failed = @ \/ mem.nativeDone]
  <2> DEFINE b == mem.failed \/ mem.nativeDone
             none == [g \in {} |-> None]
  <2>1. b \in {mem.failed, TRUE} /\ (b = TRUE \/ DOMAIN mem.native \subseteq notes') /\ DOMAIN none = {}
    BY <1>1, <1>4
  <2>2. mem' = [mem EXCEPT !.native = none, !.failed = b]
    BY <1>4
  <2> HIDE DEF b, none
  <2>3. mem'.native = none /\ mem'.failed = b /\ Stays({"native", "failed"})
    BY <1>1, <2>2 DEF Stays, InstallFields
  <2> QED
    BY <1>0, <1>4, <2>1, <2>3
<1> QED
  BY <1>2, <1>3, <1>4 DEF RollBackRole, f, rest, FaultTearing

LEMMA RollBackAddedEffect ==
    ASSUME IInv, Typed, RollBackAdded
    PROVE  /\ pc = "rb_roles" /\ pc' = "rb_roles" /\ Frame /\ UNCHANGED <<disk, config, files>>
           /\ Stays({"added", "failed"}) /\ mem'.failed \in {mem.failed, TRUE}
           /\ DOMAIN mem.native = {}
           /\ \E p \in mem.added :
                /\ mem'.added = mem.added \ {p}
                /\ \/ installed' = installed \ {p}
                   \/ installed' = installed /\ mem'.failed = TRUE
<1> DEFINE p == First(Holy, mem.added)
           m == [mem EXCEPT !.added = @ \ {p}]
<1>0. /\ pc = "rb_roles" /\ pc \in Failing /\ p \in mem.added /\ pc' = pc /\ DOMAIN mem.native = {}
      /\ Frame /\ UNCHANGED <<disk, config, files>>
  BY FreshPcs DEF RollBackAdded, First, Frame, Keep, Fault, FaultTearing
<1>1. InstallFields \subseteq DOMAIN mem
  BY <1>0, Memory
<1> HIDE DEF p
<1>2. CASE mem' = m /\ installed' = installed \ {p}
  BY <1>0, <1>1, <1>2 DEF Stays, InstallFields
<1>3. CASE /\ mem' = [m EXCEPT !.failed = TRUE] /\ installed' \in {installed, installed \ {p}}
  BY <1>0, <1>1, <1>3 DEF Stays, InstallFields
<1> QED
  BY <1>2, <1>3 DEF RollBackAdded, p

LEMMA RollBackRemovedEffect ==
    ASSUME IInv, Typed, RollBackRemoved
    PROVE  /\ pc = "rb_roles" /\ pc' = "rb_roles" /\ Frame
           /\ UNCHANGED <<active, conflicted, config, files>>
           /\ Stays({"gone", "jr", "failed"}) /\ JournalStays({"owned"})
           /\ mem'.failed \in {mem.failed, TRUE} /\ mem'.jr \in TransactionJournals
           /\ DOMAIN mem.native = {} /\ mem.added = {} /\ preparing' = mem'.jr
           /\ \E p \in mem.gone :
                /\ mem'.gone = mem.gone \ {p} /\ mem'.jr.owned = mem.jr.owned \cup {p}
                /\ installed' \in {installed, installed \cup {p}}
<1> DEFINE p == First(Holy, mem.gone)
           m == [mem EXCEPT !.gone = @ \ {p}, !.jr.owned = @ \cup {p}]
           j == [mem.jr EXCEPT !.owned = @ \cup {p}]
<1>0. /\ pc = "rb_roles" /\ pc \in Failing /\ p \in mem.gone /\ pc' = pc /\ DOMAIN mem.native = {}
      /\ mem.added = {} /\ Frame /\ UNCHANGED <<active, conflicted, config, files>>
  BY FreshPcs DEF RollBackRemoved, First, Frame, Keep, Fault, FaultTearing
<1>1. /\ InstallFields \subseteq DOMAIN mem /\ DOMAIN mem.jr = JournalFields
      /\ mem.jr \in TransactionJournals /\ p \in Plugins /\ mem.failed \in BOOLEAN
  BY <1>0, Memory DEF TypedInstall
<1> HIDE DEF p
<1>2. /\ j \in TransactionJournals /\ j.owned = mem.jr.owned \cup {p}
      /\ \A field \in JournalFields \ {"owned"} : j[field] = mem.jr[field]
  BY <1>1 DEF TransactionJournals
<1>3. /\ m.jr = j /\ m.gone = mem.gone \ {p} /\ DOMAIN m = DOMAIN mem
      /\ \A field \in InstallFields \ {"gone", "jr"} : m[field] = mem[field]
  BY <1>1 DEF InstallFields
<1>4. preparing' = m.jr /\ mem' \in {m, [m EXCEPT !.failed = TRUE]}
      /\ installed' \in {installed, installed \cup {p}}
  BY DEF RollBackRemoved, p
<1> HIDE DEF j, m
<1>5. /\ mem'.jr = j /\ mem'.gone = m.gone /\ mem'.failed \in {mem.failed, TRUE}
      /\ \A field \in InstallFields \ {"failed"} : mem'[field] = m[field]
  BY <1>1, <1>3, <1>4 DEF InstallFields
<1> QED
  BY <1>0, <1>2, <1>3, <1>4, <1>5 DEF Stays, JournalStays

LEMMA RollBackEndEffect ==
    ASSUME IInv, Typed, RollBackEnd
    PROVE  /\ pc = "rb_roles" /\ pc' = "rb_end" /\ Frame /\ UNCHANGED <<disk, config, files, installed>>
           /\ Stays({"failed", "jr"}) /\ JournalStays({"after"}) /\ mem'.jr \in TransactionJournals
           /\ mem'.failed = (mem.failed \/ mem.unsure # {})
           /\ DOMAIN mem.native = {} /\ mem.added = {} /\ mem.gone = {}
<1> DEFINE after == IF pref = mem.jr.before THEN mem.jr.before ELSE mem.jr.after
           j == [mem.jr EXCEPT !.after = after]
           b == mem.failed \/ mem.unsure # {}
<1>0. /\ pc = "rb_roles" /\ pc \in Failing
      /\ DOMAIN mem.native = {} /\ mem.added = {} /\ mem.gone = {} /\ pc' = "rb_end"
      /\ Frame /\ UNCHANGED <<disk, config, files, installed>>
  BY FreshPcs DEF RollBackEnd, Frame, Keep
<1>1. /\ InstallFields \subseteq DOMAIN mem /\ DOMAIN mem.jr = JournalFields
      /\ mem.jr \in TransactionJournals
  BY <1>0, Memory DEF TypedInstall
<1>2. /\ j \in TransactionJournals
      /\ \A field \in JournalFields \ {"after"} : j[field] = mem.jr[field]
  BY <1>1 DEF TransactionJournals
<1>3. mem' = [mem EXCEPT !.failed = b, !.jr = j]
  BY <1>1 DEF RollBackEnd, InstallFields
<1> HIDE DEF j, b
<1>4. mem'.jr = j /\ mem'.failed = b /\ Stays({"failed", "jr"})
  BY <1>1, <1>3 DEF Stays, InstallFields
<1> QED
  BY <1>0, <1>2, <1>4 DEF JournalStays, b

LEMMA ReportEffect ==
    ASSUME IInv, Typed, ReportFailure
    PROVE  /\ pc = "rb_end" /\ Frame /\ UNCHANGED <<active, preparing, config, files, installed>>
           /\ \/ mem.failed /\ pc' = "rb_clear" /\ mem' = mem /\ conflicted' = mem.jr
              \/ mem.failed /\ pc' = "idle" /\ conflicted' = mem.jr
              \/ pc' = "idle" /\ conflicted' = conflicted /\ Leaked \subseteq notes'
              \/ ~mem.failed /\ pc' = "rb_clear" /\ mem' = mem /\ conflicted' = conflicted
BY DEF ReportFailure, Frame, Keep, Fault, FaultTearing

LEMMA DropPreparingEffect ==
    ASSUME IInv, Typed, DropPreparing
    PROVE  /\ pc = "rb_clear" /\ pc' = "idle" /\ Frame
           /\ UNCHANGED <<active, conflicted, config, files, installed>>
           /\ preparing' \in {NoRec, preparing}
BY DEF DropPreparing, Frame, Keep, Fault, FaultTearing

(***************************************************************************)
(* The steps of a removal, field by field.                                 *)
(***************************************************************************)
RemovalStays(S) == \A field \in RemovalFields \ S : mem'[field] = mem[field]
StopsWith(rec) == pc' = "rm_stop" /\ RemovalStays({"now"}) /\ mem'.now = rec

LEMMA RemovalSame ==
    ASSUME IInv, Typed, pc \in Removing
    PROVE  /\ RemovalFields \subseteq DOMAIN mem /\ TypedRemoval(mem)
           /\ DOMAIN mem.now = JournalFields
           /\ mem' = mem => RemovalStays({})
           /\ \A rec : StopWith(rec) => StopsWith(rec)
BY RemovalRunning
   DEF Typed, TypedRemoval, TransactionJournals, JournalFields, RecordFields, RemovalStays, StopWith,
       StopsWith, RemovalFields

LEMMA RemovalPcs ==
    {"rm_config", "rm_checkpoint", "rm_stop", "rm_roles", "rm_plugins", "rm_options",
     "rm_preparing", "rm_conflicted", "rm_dirs", "restart"} \subseteq Removing
BY DEF Removing

LEMMA BeginEffect ==
    ASSUME NEW after, NEW accept, BeginRemoval(after, accept)
    PROVE  LET rec == RecoveryState(active, preparing, conflicted) IN
           /\ rec # NoRec /\ pc' = "rm_config" /\ UNCHANGED <<disk, config, files, installed>>
           /\ mem'.rec = AsJournal(rec) /\ mem'.now = AsJournal(rec) /\ mem'.todo = rec.owned
           /\ mem'.conflicts = RemovalConflicts(rec) /\ mem'.accept = accept
           /\ mem'.doc.key = key /\ mem'.roles = {f \in Files : rec.arts[f] # None}
           /\ mem'.preserved = FALSE
           /\ notes' = notes \cup {c \in {"accepted"} : accept /\ "key" \in RemovalConflicts(rec)}
BY DEF BeginRemoval

LEMMA CleanEffect ==
    ASSUME IInv, Typed, CleanConfig
    PROVE  /\ pc = "rm_config" /\ Frame /\ UNCHANGED <<disk, files, installed>>
           /\ pref' \in {pref, PrefAfterRemoval}
           /\ \/ StopsWith(mem.rec) /\ key' = key
              \/ /\ key' = KeyCleaned /\ key = mem.doc.key /\ ~Declined("key")
                 /\ \/ StopsWith(mem.rec)
                    \/ /\ pc' = "rm_checkpoint" /\ RemovalStays({"now"})
                       /\ mem'.now = [mem.now EXCEPT !.entry = NoEntry]
<1>1. pc = "rm_config" /\ pc \in Removing /\ Frame /\ UNCHANGED <<disk, files, installed>>
  BY RemovalPcs DEF CleanConfig, Frame, Keep, Fault, FaultTearing
<1>2. RemovalFields \subseteq DOMAIN mem /\ (StopWith(mem.rec) => StopsWith(mem.rec))
  BY <1>1, RemovalSame
<1>3. CASE StopWith(mem.rec) /\ UNCHANGED config
  BY <1>1, <1>2, <1>3 DEF config
<1>4. CASE /\ SameText /\ ~Declined("key") /\ key' = KeyCleaned /\ pref' = PrefAfterRemoval
           /\ \/ pc' = "rm_checkpoint" /\ mem' = [mem EXCEPT !.now.entry = NoEntry]
              \/ StopWith(mem.rec)
  <2>1. mem' = [mem EXCEPT !.now.entry = NoEntry] =>
            RemovalStays({"now"}) /\ mem'.now = [mem.now EXCEPT !.entry = NoEntry]
    BY <1>2 DEF RemovalStays, RemovalFields
  <2> QED
    BY <1>1, <1>2, <1>4, <2>1 DEF SameText
<1> QED
  BY <1>3, <1>4 DEF CleanConfig

LEMMA CheckpointEffect ==
    ASSUME IInv, Typed, Checkpoint
    PROVE  /\ pc = "rm_checkpoint" /\ Frame
           /\ UNCHANGED <<active, preparing, config, files, installed>>
           /\ \/ pc' = "rm_roles" /\ conflicted' = mem.now /\ mem' = mem
              \/ StopsWith(mem.now) /\ conflicted' \in {conflicted, mem.now}
BY RemovalSame, RemovalPcs DEF Checkpoint, Frame, Keep, Fault, FaultTearing

LEMMA WriteConflictEffect ==
    ASSUME IInv, Typed, WriteConflict
    PROVE  /\ pc = "rm_stop" /\ pc' = "idle" /\ Frame /\ conflicted' \in {conflicted, mem.now}
           /\ UNCHANGED <<active, preparing, config, files, installed>>
BY DEF WriteConflict, Stop, Frame, Keep, Fault, FaultTearing

LEMMA RemoveRoleEffect ==
    ASSUME IInv, Typed, RemoveRole
    PROVE  /\ pc = "rm_roles" /\ pc' = "rm_roles" /\ Frame /\ UNCHANGED <<disk, config, installed>>
           /\ RemovalStays({"roles", "preserved"})
           /\ \E f \in mem.roles :
                /\ mem'.roles = mem.roles \ {f}
                /\ \/ files' = [files EXCEPT ![f] = None] /\ mem'.preserved = mem.preserved
                   \/ files' = files /\ mem'.preserved = TRUE
<1> DEFINE f == First(Catalog, mem.roles)
           m == [mem EXCEPT !.roles = @ \ {f}]
<1>1. /\ pc = "rm_roles" /\ pc \in Removing /\ pc' = pc /\ Frame /\ UNCHANGED <<disk, config, installed>>
      /\ f \in mem.roles
  BY RemovalPcs DEF RemoveRole, First, Frame, Keep, Fault, FaultTearing
<1>2. RemovalFields \subseteq DOMAIN mem
  BY <1>1, RemovalSame
<1> HIDE DEF f
<1>3. /\ m.roles = mem.roles \ {f} /\ DOMAIN m = DOMAIN mem /\ m.preserved = mem.preserved
      /\ \A field \in RemovalFields \ {"roles"} : m[field] = mem[field]
  BY <1>2 DEF RemovalFields
<1>4. \/ files' = [files EXCEPT ![f] = None] /\ mem' = m
      \/ files' = files /\ mem' = [m EXCEPT !.preserved = TRUE]
  BY DEF RemoveRole, f
<1> HIDE DEF m
<1> QED
  BY <1>1, <1>2, <1>3, <1>4 DEF RemovalStays, RemovalFields

LEMMA RolesRemovedEffect ==
    ASSUME IInv, Typed, RolesRemoved
    PROVE  /\ pc = "rm_roles" /\ Frame /\ UNCHANGED <<disk, config, files, installed>>
           /\ mem.roles = {}
           /\ \/ StopsWith(mem.now)
              \/ pc' = "rm_plugins" /\ mem' = mem /\ ~mem.preserved
BY RemovalSame, RemovalPcs DEF RolesRemoved, Frame, Keep

LEMMA RemovePluginEffect ==
    ASSUME IInv, Typed, RemovePlugin
    PROVE  /\ pc = "rm_plugins" /\ Frame /\ UNCHANGED <<disk, config, files>>
           /\ \E p \in mem.todo :
                \/ /\ pc' = "rm_plugins" /\ installed' = installed \ {p} /\ RemovalStays({"todo"})
                   /\ mem'.todo = mem.todo \ {p}
                \/ StopsWith(mem.now) /\ installed' \in {installed, installed \ {p}}
<1> DEFINE p == First(Holy, mem.todo)
<1>1. /\ pc = "rm_plugins" /\ pc \in Removing /\ Frame /\ UNCHANGED <<disk, config, files>>
      /\ p \in mem.todo
  BY RemovalPcs DEF RemovePlugin, First, Frame, Keep, Fault, FaultTearing
<1>2. RemovalFields \subseteq DOMAIN mem /\ (StopWith(mem.now) => StopsWith(mem.now))
  BY <1>1, RemovalSame
<1> HIDE DEF p
<1>3. CASE installed' = installed \ {p} /\ mem' = [mem EXCEPT !.todo = @ \ {p}] /\ pc' = pc
  BY <1>1, <1>2, <1>3 DEF RemovalStays, RemovalFields
<1>4. CASE StopWith(mem.now) /\ installed' \in {installed, installed \ {p}}
  BY <1>1, <1>2, <1>4
<1> QED
  BY <1>3, <1>4 DEF RemovePlugin, p

LEMMA DropEffect ==
    ASSUME IInv, Typed, DropActive \/ DropOptions
    PROVE  /\ Frame /\ UNCHANGED <<preparing, conflicted, config, files, installed>>
           /\ \/ /\ pc = "rm_plugins" /\ mem.todo = {}
                 /\ \/ active' = NoRec /\ pc' = "rm_options" /\ mem' = mem
                    \/ active' = active /\ StopsWith(mem.rec)
              \/ /\ pc = "rm_options" /\ active' = active
                 /\ \/ pc' = "rm_preparing" /\ mem' = mem
                    \/ StopsWith(mem.rec)
BY RemovalSame, RemovalPcs DEF DropActive, DropOptions, Frame, Keep, Fault, FaultTearing, disk

LEMMA DropJournalsEffect ==
    ASSUME IInv, Typed, DropJournals
    PROVE  /\ Frame /\ UNCHANGED <<active, config, files, installed>>
           /\ \/ /\ pc = "rm_preparing" /\ pc' = "rm_conflicted" /\ conflicted' = conflicted
                 /\ RemovalStays({"preserved"})
                 /\ preparing' = NoRec \/ (preparing' = preparing /\ mem'.preserved = TRUE)
              \/ /\ pc = "rm_conflicted" /\ preparing' = preparing
                 /\ \/ pc' = "rm_dirs" /\ mem' = mem /\ conflicted' = NoRec
                    \/ pc' = "idle" /\ conflicted' = conflicted
<1>1. pc \in Removing /\ Frame /\ UNCHANGED <<active, config, files, installed>>
  BY RemovalPcs DEF DropJournals, Frame, Keep, Fault, FaultTearing
<1>2. RemovalFields \subseteq DOMAIN mem /\ (mem' = mem => RemovalStays({}))
  BY <1>1, RemovalSame
<1> QED
  BY <1>1, <1>2 DEF DropJournals, Stop, RemovalStays, RemovalFields

LEMMA DirectoriesEffect ==
    ASSUME IInv, Typed, RemoveDirectories
    PROVE  /\ pc = "rm_dirs" /\ Frame /\ UNCHANGED <<disk, config, files, installed>>
           /\ \/ pc' = "idle"
              \/ pc' = "restart" /\ mem' = mem /\ ~mem.preserved /\ \A f \in Files : files[f] = None
BY DEF RemoveDirectories, Stop, Frame, Keep

(* The entry an install is about to write, and the start of an install. *)
EntryPlanned(sel, decision) ==
    IF KeptBefore THEN active.entry
    ELSE IF decision = "keep" THEN KeptEntry(EntryOf(active), key)
    ELSE Merged(EntryOf(active), key, sel)

LEMMA PreflightEffect ==
    ASSUME NEW sel, NEW decision, Preflight(sel, decision)
    PROVE  /\ pc' = "journal" /\ UNCHANGED <<disk, config, files, installed>>
           /\ decision = "keep" => KeyConflict(sel)
           /\ mem'.sel = sel /\ mem'.prev = active /\ mem'.jr = FirstJournal(sel)
           /\ mem'.doc.key = key /\ mem'.doc.pref = pref /\ mem'.live = key
           /\ mem'.holding = Holding(sel, decision) /\ mem'.entry = EntryPlanned(sel, decision)
           /\ mem'.before = (IF active = NoRec THEN pref ELSE active.before)
           /\ mem'.snap = {} /\ mem'.todo = Wanted(sel) /\ mem'.added = {} /\ mem'.unsure = {}
           /\ mem'.gone = {} /\ mem'.roles = FilesOf(sel) /\ DOMAIN mem'.native = {}
           /\ mem'.effects = FALSE /\ mem'.recorded = FALSE /\ mem'.failed = FALSE
           /\ mem'.reviewed = [f \in FilesOf(sel) |-> IF RoleConflict(f) THEN files[f] ELSE None]
BY DEF Preflight, EntryPlanned

(***************************************************************************)
(* Types.                                                                  *)
(***************************************************************************)
LEMMA SystemTyped ==
    ASSUME Typed, Frame, key' \in KeyValues, pref' \in Prefs, DOMAIN files' = Files,
           installed' \subseteq Plugins
    PROVE  TypedSystem'
BY DEF Typed, TypedSystem, Frame, Spend

LEMMA SystemStays ==
    ASSUME Typed, Frame, UNCHANGED <<config, files, installed>>
    PROVE  TypedSystem'
BY SystemTyped DEF Typed, TypedSystem, config

LEMMA RecordsTyped ==
    ASSUME Typed, NEW rec \in TransactionJournals \cup {NoRec},
           NEW a \in ActiveRecords \cup {NoRec},
           active' \in {active, a}, preparing' \in {preparing, rec, NoRec},
           conflicted' \in {conflicted, rec, NoRec}
    PROVE  TypedRecords'
BY DEF Typed, TypedRecords

LEMMA InstallTyped ==
    ASSUME TypedRecords', TypedSystem', pc' \in Fresh \cup Failing, TypedInstall(mem)'
    PROVE  Typed'
BY Pcs DEF Typed

LEMMA IdleTyped ==
    ASSUME TypedRecords', TypedSystem', pc' = "idle"
    PROVE  Typed'
BY Pcs DEF Typed

LEMMA RemovalTyped ==
    ASSUME TypedRecords', TypedSystem', pc' \in Removing, TypedRemoval(mem)'
    PROVE  Typed'
BY Pcs DEF Typed

(* The memory of an install. *)
LEMMA MemoryTyped ==
    ASSUME IInv, Typed, pc \in Fresh \cup Failing, Stays({"jr", "todo", "added", "gone", "roles", "native",
               "effects", "recorded", "failed", "live", "snap", "current", "kept", "target",
               "nativeDone", "failing", "unsure"}),
           mem'.jr \in TransactionJournals, mem'.live \in KeyValues, mem'.snap \subseteq Plugins,
           mem'.todo \subseteq Plugins, mem'.added \subseteq Plugins, mem'.gone \subseteq Plugins,
           mem'.roles \subseteq Files, DOMAIN mem'.native \subseteq Files,
           mem'.effects \in BOOLEAN, mem'.recorded \in BOOLEAN, mem'.failed \in BOOLEAN
    PROVE  TypedInstall(mem)'
<1>1. /\ mem'.sel = mem.sel /\ mem'.prev = mem.prev /\ mem'.doc = mem.doc /\ mem'.entry = mem.entry
      /\ mem'.before = mem.before /\ mem'.holding = mem.holding
  BY DEF Stays, InstallFields
<1> QED
  BY <1>1, Memory DEF TypedInstall

LEMMA MemorySame ==
    ASSUME IInv, Typed, pc \in Fresh \cup Failing, mem' = mem
    PROVE  TypedInstall(mem)'
BY Memory DEF TypedInstall

LEMMA EntryAfterTyped ==
    ASSUME TypedInstall(mem)
    PROVE  EntryAfter \in Entries
BY DEF TypedInstall, EntryAfter, Entries

LEMMA ResultTyped ==
    ASSUME TypedInstall(mem), key \in KeyValues
    PROVE  Result \in KeyValues
BY DEF TypedInstall, Result, KeyValues

LEMMA TypedForward1 ==
    ASSUME IInv, Typed,
           \/ WriteFirstJournal \/ JournalRoles \/ JournalPlan \/ JournalOwnership \/ JournalConfig
           \/ JournalOmission \/ Snapshot \/ ReadRoles \/ InstallRole
    PROVE  Typed'
<1>1. CASE WriteFirstJournal
  <2>1. /\ pc = "journal" /\ pc \in Fresh /\ mem.jr \in TransactionJournals /\ "snapshot" \in Fresh
    BY <1>1, WriteFirstEffect, FreshPcs, Memory DEF TypedInstall
  <2>2. TypedRecords' /\ TypedSystem'
    BY <1>1, <2>1, WriteFirstEffect, RecordsTyped, SystemStays DEF Typed, TypedRecords
  <2> QED
    BY <1>1, <2>1, <2>2, WriteFirstEffect, MemorySame, InstallTyped, IdleTyped
<1>2. CASE JournalRoles \/ JournalPlan \/ JournalOwnership \/ JournalConfig \/ JournalOmission
  <2>1. /\ pc \in Fresh /\ pc' \in Fresh \cup Failing /\ mem'.jr \in TransactionJournals
    BY <1>2, WriteEffect, FreshPcs
  <2>2. TypedRecords' /\ TypedSystem'
    BY <1>2, <2>1, WriteEffect, RecordsTyped, SystemStays DEF Typed, TypedRecords
  <2>3. TypedInstall(mem) /\ OwnedBy(mem.prev) \subseteq Plugins
    BY <2>1, Memory, RecordTyped DEF TypedInstall
  <2>4. /\ Stays({"jr", "nativeDone", "effects", "failing", "todo"})
        /\ mem'.effects = IF pc = "plan" THEN TRUE ELSE mem.effects
        /\ mem'.todo = IF pc = "published" THEN OwnedBy(mem.prev) \ Wanted(mem.sel) ELSE mem.todo
    BY <1>2, WriteEffect
  <2>5. TypedInstall(mem)'
    BY <2>1, <2>3, <2>4, MemoryTyped DEF TypedInstall, Stays, InstallFields
  <2> QED
    BY <2>1, <2>2, <2>5, InstallTyped
<1>3. CASE Snapshot
  <2>1. pc \in Fresh /\ pc' \in Fresh \cup Failing
    BY <1>3, SnapshotEffect, FreshPcs
  <2>2. TypedRecords' /\ TypedSystem'
    BY <1>3, SnapshotEffect, RecordsTyped, SystemStays DEF Typed, TypedRecords, disk
  <2>3. TypedInstall(mem) /\ key \in KeyValues /\ installed \subseteq Plugins
    BY <2>1, Memory DEF Typed, TypedSystem
  <2>4. /\ Stays({"snap", "live"}) /\ mem'.live \in {mem.live, key}
        /\ mem'.snap \in {mem.snap, installed \cap (Wanted(mem.sel) \cup OwnedBy(mem.prev))}
    BY <1>3, SnapshotEffect
  <2>5. TypedInstall(mem)'
    BY <2>1, <2>3, <2>4, MemoryTyped DEF TypedInstall, Stays, InstallFields
  <2> QED
    BY <2>1, <2>2, <2>5, InstallTyped
<1>4. CASE ReadRoles
  <2>1. pc \in Fresh /\ pc' \in Fresh \cup Failing
    BY <1>4, ReadEffect, FreshPcs
  <2>2. TypedRecords' /\ TypedSystem'
    BY <1>4, ReadEffect, RecordsTyped, SystemStays DEF Typed, TypedRecords, disk
  <2>3. TypedInstall(mem) /\ Stays({"current", "kept"})
    BY <1>4, <2>1, Memory, ReadEffect
  <2>4. TypedInstall(mem)'
    BY <2>1, <2>3, MemoryTyped DEF TypedInstall, Stays, InstallFields
  <2> QED
    BY <2>1, <2>2, <2>4, InstallTyped
<1>5. CASE InstallRole
  <2>1. pc \in Fresh /\ pc' \in Fresh \cup Failing /\ Frame /\ UNCHANGED <<disk, config, installed>>
    BY <1>5, RoleEffect, FreshPcs DEF RoleOutcome
  <2>2. DOMAIN files' = Files
    BY <1>5, RoleEffect DEF RoleOutcome, Typed, TypedSystem
  <2>3. TypedRecords' /\ TypedSystem'
    BY <2>1, <2>2, RecordsTyped, SystemTyped DEF Typed, TypedRecords, TypedSystem, disk, config
  <2>4. TypedInstall(mem)
    BY <2>1, Memory
  <2>5. CASE mem' = mem
    BY <2>1, <2>3, <2>5, MemorySame, InstallTyped
  <2>6. ASSUME NEW f \in mem.roles, NEW content, RoleOutcome(f, content)
        PROVE  Typed'
    <3>1. /\ Stays({"roles", "jr", "native"}) /\ mem'.roles = mem.roles \ {f}
          /\ mem'.jr \in TransactionJournals
      BY <2>6 DEF RoleOutcome
    <3>2. DOMAIN mem'.native \subseteq Files
      <4>1. mem'.native = mem.native \/ mem'.native = WithOriginal(f)
        BY <2>6 DEF RoleOutcome
      <4>2. f \in Files
        BY <2>4 DEF TypedInstall
      <4> QED
        BY <2>4, <4>1, <4>2 DEF TypedInstall, WithOriginal
    <3>3. TypedInstall(mem)'
      BY <2>1, <2>4, <3>1, <3>2, MemoryTyped DEF TypedInstall, Stays, InstallFields
    <3> QED
      BY <2>1, <2>3, <3>3, InstallTyped
  <2> QED
    BY <1>5, <2>5, <2>6, RoleEffect
<1> QED
  BY <1>1, <1>2, <1>3, <1>4, <1>5

LEMMA TypedForward2 ==
    ASSUME IInv, Typed,
           SetUpPlugins \/ AddPlugin \/ PublishConfig \/ OmitPlugin \/ Verify \/ PublishRecord \/ ClearJournal
    PROVE  Typed'
<1>0. ASSUME UNCHANGED disk PROVE TypedRecords'
  BY <1>0, RecordsTyped DEF Typed, TypedRecords, disk
<1>1. CASE SetUpPlugins
  <2>1. pc \in Fresh /\ pc' \in Fresh \cup Failing /\ mem' = mem
    BY <1>1, SetUpEffect, FreshPcs
  <2>2. TypedSystem'
    BY <1>1, SetUpEffect, SystemTyped DEF Typed, TypedSystem, Prefs
  <2> QED
    BY <1>0, <1>1, <2>1, <2>2, SetUpEffect, MemorySame, InstallTyped
<1>2. CASE AddPlugin
  <2>1. pc \in Fresh /\ TypedInstall(mem)
    BY <1>2, AddEffect, FreshPcs, Memory
  <2>2. PICK p \in mem.todo :
            \/ /\ pc' = "plugins" /\ installed' = installed /\ Stays({"todo"})
               /\ mem'.todo = mem.todo \ {p}
            \/ pc' = "rb_record" /\ mem' = mem /\ installed' = installed
            \/ /\ pc' = "own" /\ installed' \in {installed, installed \cup {p}}
               /\ Stays({"todo", "jr", "added", "unsure", "failing"}) /\ JournalStays({"owned"})
               /\ mem'.todo = mem.todo \ {p} /\ mem'.jr \in TransactionJournals
               /\ mem'.jr.owned = mem.jr.owned \cup {p}
               /\ mem.added \subseteq mem'.added /\ mem'.added \subseteq mem.added \cup {p}
               /\ mem.unsure \subseteq mem'.unsure /\ p \in mem'.added \cup mem'.unsure
    BY <1>2, AddEffect
  <2>3. p \in Plugins /\ pc' \in Fresh \cup Failing
    BY <2>1, <2>2, FreshPcs DEF TypedInstall
  <2>4. TypedSystem' /\ TypedRecords'
    BY <1>0, <1>2, <2>2, <2>3, AddEffect, SystemTyped DEF Typed, TypedSystem, config
  <2>5. CASE mem' = mem
    BY <2>1, <2>3, <2>4, <2>5, MemorySame, InstallTyped
  <2>6. CASE Stays({"todo"}) /\ mem'.todo = mem.todo \ {p}
    <3>1. TypedInstall(mem)'
      BY <2>1, <2>6, MemoryTyped DEF TypedInstall, Stays, InstallFields
    <3> QED
      BY <2>3, <2>4, <3>1, InstallTyped
  <2>7. CASE /\ Stays({"todo", "jr", "added", "unsure", "failing"}) /\ mem'.todo = mem.todo \ {p}
             /\ mem'.jr \in TransactionJournals /\ mem'.added \subseteq mem.added \cup {p}
    <3>1. TypedInstall(mem)'
      BY <2>1, <2>3, <2>7, MemoryTyped DEF TypedInstall, Stays, InstallFields
    <3> QED
      BY <2>3, <2>4, <3>1, InstallTyped
  <2> QED
    BY <2>2, <2>5, <2>6, <2>7
<1>3. CASE PublishConfig
  <2>1. pc \in Fresh /\ TypedInstall(mem) /\ pc' \in Fresh \cup Failing
    BY <1>3, PublishEffect, FreshPcs, Memory
  <2>2. key' \in {key, Result} /\ key \in KeyValues
    BY <1>3, PublishEffect DEF Typed, TypedSystem
  <2>3. TypedSystem' /\ TypedRecords'
    BY <1>0, <1>3, <2>1, <2>2, PublishEffect, SystemTyped, ResultTyped DEF Typed, TypedSystem
  <2>4. CASE mem' = mem
    BY <2>1, <2>3, <2>4, MemorySame, InstallTyped
  <2>5. CASE Stays({"jr", "target"}) /\ mem'.jr \in TransactionJournals
    <3>1. TypedInstall(mem)'
      BY <2>1, <2>5, MemoryTyped DEF TypedInstall, Stays, InstallFields
    <3> QED
      BY <2>1, <2>3, <3>1, InstallTyped
  <2> QED
    BY <1>3, <2>1, <2>4, <2>5, PublishEffect, EntryAfterTyped
<1>4. CASE OmitPlugin
  <2>1. pc \in Fresh /\ TypedInstall(mem) /\ pc' \in Fresh \cup Failing
    BY <1>4, OmitEffect, FreshPcs, Memory
  <2>2. PICK p \in mem.todo :
            /\ mem'.todo \in {mem.todo, mem.todo \ {p}}
            /\ mem.gone \subseteq mem'.gone /\ mem'.gone \subseteq mem.gone \cup {p}
            /\ \/ installed' = installed \ {p} /\ mem'.jr.owned \in {mem.jr.owned, mem.jr.owned \ {p}}
               \/ installed' = installed /\ mem'.jr.owned = mem.jr.owned
    BY <1>4, OmitEffect
  <2>3. TypedSystem' /\ TypedRecords'
    BY <1>0, <1>4, <2>2, OmitEffect, SystemTyped DEF Typed, TypedSystem, config
  <2>4. Stays({"todo", "jr", "gone", "failing"}) /\ mem'.jr \in TransactionJournals
    BY <1>4, OmitEffect
  <2>5. TypedInstall(mem)'
    BY <2>1, <2>2, <2>4, MemoryTyped DEF TypedInstall, Stays, InstallFields
  <2> QED
    BY <2>1, <2>3, <2>5, InstallTyped
<1>5. CASE Verify
  <2>1. pc \in Fresh /\ TypedInstall(mem) /\ pc' \in Fresh \cup Failing
    BY <1>5, VerifyEffect, FreshPcs, Memory
  <2>2. TypedSystem' /\ TypedRecords'
    BY <1>0, <1>5, VerifyEffect, SystemStays
  <2>3. CASE mem' = mem
    BY <2>1, <2>2, <2>3, MemorySame, InstallTyped
  <2>4. CASE Stays({"recorded"}) /\ mem'.recorded = TRUE
    <3>1. TypedInstall(mem)'
      BY <2>1, <2>4, MemoryTyped DEF TypedInstall, Stays, InstallFields
    <3> QED
      BY <2>1, <2>2, <3>1, InstallTyped
  <2> QED
    BY <1>5, <2>3, <2>4, VerifyEffect
<1>6. CASE PublishRecord
  <2>1. pc \in Fresh /\ TypedInstall(mem) /\ pc' \in Fresh \cup Failing /\ mem' = mem
    BY <1>6, PublishRecordEffect, FreshPcs, Memory
  <2>2. ActiveRecord \in ActiveRecords
    BY <2>1 DEF ActiveRecord, ActiveRecords, TypedInstall, TransactionJournals, Prefs, Typed, TypedSystem
  <2>3. TypedSystem' /\ TypedRecords'
    <3>1. /\ active' \in {active, ActiveRecord} /\ UNCHANGED <<preparing, conflicted>>
      BY <1>6, PublishRecordEffect
    <3> QED
      BY <1>6, <2>2, <3>1, PublishRecordEffect, SystemStays DEF Typed, TypedRecords
  <2> QED
    BY <2>1, <2>3, MemorySame, InstallTyped
<1>7. CASE ClearJournal
  <2>1. pc \in Fresh /\ pc' \in {"idle"} \cup Failing
    BY <1>7, ClearEffect, FreshPcs
  <2>2. TypedSystem' /\ TypedRecords'
    BY <1>7, ClearEffect, SystemStays DEF Typed, TypedRecords
  <2> QED
    BY <1>7, <2>1, <2>2, ClearEffect, MemorySame, InstallTyped, IdleTyped
<1> QED
  BY <1>1, <1>2, <1>3, <1>4, <1>5, <1>6, <1>7

LEMMA TypedRollBack ==
    ASSUME IInv, Typed, RollBack
    PROVE  Typed'
<1>0. /\ pc \in Failing /\ pc \in Fresh \cup Failing
  BY FreshPcs DEF RollBack, RollBackRecord, RollBackConfig, RollBackRole, RollBackAdded, RollBackRemoved,
     RollBackEnd, ReportFailure, DropPreparing
<1>1. TypedInstall(mem) /\ mem.jr \in TransactionJournals /\ mem.prev \in ActiveRecords \cup {NoRec}
  BY <1>0, Memory DEF TypedInstall
<1>2. ASSUME UNCHANGED disk PROVE TypedRecords'
  BY <1>2, RecordsTyped DEF Typed, TypedRecords, disk
<1>3. CASE RollBackRecord
  <2>1. TypedSystem' /\ TypedRecords' /\ pc' \in Failing
    BY <1>1, <1>3, RollBackRecordEffect, SystemStays, FreshPcs DEF Typed, TypedRecords
  <2>2. Stays({"failed"}) /\ mem'.failed \in BOOLEAN
    BY <1>1, <1>3, RollBackRecordEffect DEF TypedInstall
  <2>3. TypedInstall(mem)'
    BY <1>0, <1>1, <2>2, MemoryTyped DEF TypedInstall, Stays, InstallFields
  <2> QED
    BY <2>1, <2>3, InstallTyped
<1>4. CASE RollBackConfig
  <2>1. /\ key' \in {key, KeyRolledBack} /\ pref' \in {pref, PrefCleaned(mem.jr, pref)} /\ Frame
        /\ UNCHANGED <<disk, files, installed>> /\ pc' \in Failing
        /\ Stays({"failed"}) /\ mem'.failed \in BOOLEAN
    BY <1>1, <1>4, RollBackConfigEffect, FreshPcs DEF TypedInstall
  <2>2. KeyRolledBack \in KeyValues /\ PrefCleaned(mem.jr, pref) \in Prefs
    BY <1>1 DEF KeyRolledBack, PrefCleaned, TypedInstall, Typed, TypedSystem, TransactionJournals
  <2>3. TypedSystem' /\ TypedRecords'
    BY <1>2, <2>1, <2>2, SystemTyped DEF Typed, TypedSystem
  <2>4. TypedInstall(mem)'
    BY <1>0, <1>1, <2>1, MemoryTyped DEF TypedInstall, Stays, InstallFields
  <2> QED
    BY <2>1, <2>3, <2>4, InstallTyped
<1>5. CASE RollBackRole
  <2>1. /\ Frame /\ UNCHANGED <<disk, config, installed>> /\ pc' \in Failing
        /\ Stays({"native", "failed"}) /\ mem'.failed \in BOOLEAN
    BY <1>1, <1>5, RollBackRoleEffect, FreshPcs DEF TypedInstall
  <2>2. DOMAIN files' = Files /\ DOMAIN mem'.native \subseteq DOMAIN mem.native
    BY <1>5, RollBackRoleEffect DEF Typed, TypedSystem
  <2>3. TypedSystem' /\ TypedRecords'
    BY <1>2, <2>1, <2>2, SystemTyped DEF Typed, TypedSystem, config
  <2>4. TypedInstall(mem)'
    BY <1>0, <1>1, <2>1, <2>2, MemoryTyped DEF TypedInstall, Stays, InstallFields
  <2> QED
    BY <2>1, <2>3, <2>4, InstallTyped
<1>6. CASE RollBackAdded
  <2>1. /\ Frame /\ UNCHANGED <<disk, config, files>> /\ pc' \in Failing
        /\ Stays({"added", "failed"}) /\ mem'.failed \in BOOLEAN
        /\ installed' \subseteq installed /\ mem'.added \subseteq mem.added
    BY <1>1, <1>6, RollBackAddedEffect, FreshPcs DEF TypedInstall
  <2>2. TypedSystem' /\ TypedRecords'
    BY <1>2, <2>1, SystemTyped DEF Typed, TypedSystem, config
  <2>3. TypedInstall(mem)'
    BY <1>0, <1>1, <2>1, MemoryTyped DEF TypedInstall, Stays, InstallFields
  <2> QED
    BY <2>1, <2>2, <2>3, InstallTyped
<1>7. CASE RollBackRemoved
  <2>1. /\ Frame /\ UNCHANGED <<active, conflicted, config, files>> /\ pc' \in Failing
        /\ Stays({"gone", "jr", "failed"}) /\ mem'.failed \in BOOLEAN /\ mem'.jr \in TransactionJournals
        /\ preparing' = mem'.jr /\ mem'.gone \subseteq mem.gone
    BY <1>1, <1>7, RollBackRemovedEffect, FreshPcs DEF TypedInstall
  <2>2. installed' \subseteq Plugins
    BY <1>1, <1>7, RollBackRemovedEffect DEF TypedInstall, Typed, TypedSystem
  <2>3. TypedSystem' /\ TypedRecords'
    BY <2>1, <2>2, SystemTyped DEF Typed, TypedSystem, TypedRecords, config
  <2>4. TypedInstall(mem)'
    BY <1>0, <1>1, <2>1, MemoryTyped DEF TypedInstall, Stays, InstallFields
  <2> QED
    BY <2>1, <2>3, <2>4, InstallTyped
<1>8. CASE RollBackEnd
  <2>1. /\ pc' \in Failing /\ Stays({"jr", "failed"}) /\ mem'.failed \in BOOLEAN
        /\ mem'.jr \in TransactionJournals
    BY <1>1, <1>8, RollBackEndEffect, FreshPcs DEF TypedInstall
  <2>2. TypedSystem' /\ TypedRecords'
    BY <1>2, <1>8, RollBackEndEffect, SystemStays
  <2>3. TypedInstall(mem)'
    BY <1>0, <1>1, <2>1, MemoryTyped DEF TypedInstall, Stays, InstallFields
  <2> QED
    BY <2>1, <2>2, <2>3, InstallTyped
<1>9. CASE ReportFailure
  <2>1. /\ TypedSystem' /\ TypedRecords'
    BY <1>1, <1>9, ReportEffect, SystemStays DEF Typed, TypedRecords
  <2>2. pc' = "idle" \/ (pc' \in Failing /\ mem' = mem)
    BY <1>9, ReportEffect, FreshPcs
  <2> QED
    BY <1>0, <2>1, <2>2, MemorySame, InstallTyped, IdleTyped
<1>10. CASE DropPreparing
  <2>1. /\ TypedSystem' /\ TypedRecords'
    BY <1>1, <1>10, DropPreparingEffect, SystemStays DEF Typed, TypedRecords
  <2> QED
    BY <1>10, <2>1, DropPreparingEffect, IdleTyped
<1> QED
  BY <1>3, <1>4, <1>5, <1>6, <1>7, <1>8, <1>9, <1>10 DEF RollBack

LEMMA RemovalMemoryTyped ==
    ASSUME IInv, Typed, pc \in Removing, RemovalStays({"now", "roles", "todo", "preserved"}),
           mem'.now \in TransactionJournals, mem'.roles \subseteq mem.roles, mem'.todo \subseteq mem.todo
    PROVE  TypedRemoval(mem)'
<1>1. mem'.rec = mem.rec
  BY DEF RemovalStays, RemovalFields
<1> QED
  BY <1>1, RemovalSame DEF TypedRemoval

(* A removal that stops, and a step that changes nothing in memory. *)
LEMMA StopTyped ==
    ASSUME IInv, Typed, pc \in Removing, TypedRecords', TypedSystem',
           NEW rec \in {mem.rec, mem.now}, StopsWith(rec)
    PROVE  Typed'
<1>1. TypedRemoval(mem) /\ pc' \in Removing
  BY RemovalSame, RemovalPcs DEF StopsWith
<1>2. TypedRemoval(mem)'
  BY <1>1, RemovalMemoryTyped DEF StopsWith, RemovalStays, RemovalFields, TypedRemoval
<1> QED
  BY <1>1, <1>2, RemovalTyped

LEMMA SameRemovalTyped ==
    ASSUME IInv, Typed, pc \in Removing, TypedRecords', TypedSystem', mem' = mem, pc' \in Removing
    PROVE  Typed'
BY RemovalSame, RemovalTyped DEF TypedRemoval

LEMMA TypedRemovalSteps ==
    ASSUME IInv, Typed, Removal, ~Restart
    PROVE  Typed'
<1>0. /\ pc \in Removing
  BY RemovalPcs DEF Removal, CleanConfig, Checkpoint, WriteConflict, RemoveRole, RolesRemoved,
     RemovePlugin, DropActive, DropOptions, DropJournals, RemoveDirectories
<1>1. TypedRemoval(mem)
  BY <1>0, RemovalSame
<1>2. ASSUME UNCHANGED disk PROVE TypedRecords'
  BY <1>2, RecordsTyped DEF Typed, TypedRecords, disk
<1>3. CASE CleanConfig
  <2>1. /\ key' \in {key, KeyCleaned} /\ pref' \in {pref, PrefAfterRemoval} /\ Frame
        /\ UNCHANGED <<disk, files, installed>>
    BY <1>3, CleanEffect
  <2>2. KeyCleaned \in KeyValues /\ PrefAfterRemoval \in Prefs
    BY <1>1 DEF KeyCleaned, Cleaned, Cleanable, PrefAfterRemoval, PrefCleaned, TypedRemoval, Typed,
       TypedSystem, TransactionJournals, Entries, KeyValues, Prefs
  <2>3. TypedSystem' /\ TypedRecords'
    BY <1>2, <2>1, <2>2, SystemTyped DEF Typed, TypedSystem
  <2>4. CASE StopsWith(mem.rec)
    BY <1>0, <2>3, <2>4, StopTyped
  <2>5. CASE /\ pc' = "rm_checkpoint" /\ RemovalStays({"now"})
             /\ mem'.now = [mem.now EXCEPT !.entry = NoEntry]
    <3>1. mem'.now \in TransactionJournals
      BY <1>1, <2>5 DEF TypedRemoval, TransactionJournals, Entries
    <3>2. TypedRemoval(mem)'
      BY <1>0, <2>5, <3>1, RemovalMemoryTyped DEF RemovalStays, RemovalFields
    <3> QED
      BY <2>3, <2>5, <3>2, RemovalTyped, RemovalPcs
  <2> QED
    BY <1>3, <2>4, <2>5, CleanEffect
<1>4. CASE Checkpoint
  <2>1. TypedSystem' /\ TypedRecords'
    BY <1>1, <1>4, CheckpointEffect, SystemStays DEF Typed, TypedRecords, TypedRemoval, StopsWith
  <2> QED
    BY <1>0, <1>4, <2>1, CheckpointEffect, StopTyped, SameRemovalTyped, RemovalPcs
<1>5. CASE WriteConflict
  <2>1. TypedSystem' /\ TypedRecords'
    BY <1>1, <1>5, WriteConflictEffect, SystemStays DEF Typed, TypedRecords, TypedRemoval
  <2> QED
    BY <1>5, <2>1, WriteConflictEffect, IdleTyped
<1>6. CASE RemoveRole
  <2>1. /\ pc' \in Removing /\ Frame /\ UNCHANGED <<disk, config, installed>>
        /\ RemovalStays({"roles", "preserved"}) /\ mem'.roles \subseteq mem.roles
    BY <1>6, RemoveRoleEffect, RemovalPcs
  <2>2. DOMAIN files' = Files
    BY <1>6, RemoveRoleEffect DEF Typed, TypedSystem
  <2>3. TypedSystem' /\ TypedRecords'
    BY <1>2, <2>1, <2>2, SystemTyped DEF Typed, TypedSystem, config
  <2>4. TypedRemoval(mem)'
    BY <1>0, <1>1, <2>1, RemovalMemoryTyped DEF RemovalStays, RemovalFields, TypedRemoval
  <2> QED
    BY <2>1, <2>3, <2>4, RemovalTyped
<1>7. CASE RolesRemoved
  <2>1. TypedSystem' /\ TypedRecords'
    BY <1>2, <1>7, RolesRemovedEffect, SystemStays
  <2> QED
    BY <1>0, <1>7, <2>1, RolesRemovedEffect, StopTyped, SameRemovalTyped, RemovalPcs
<1>8. CASE RemovePlugin
  <2>1. /\ Frame /\ UNCHANGED <<disk, config, files>> /\ installed' \subseteq installed
    BY <1>8, RemovePluginEffect
  <2>2. TypedSystem' /\ TypedRecords'
    BY <1>2, <2>1, SystemTyped DEF Typed, TypedSystem, config
  <2>3. CASE StopsWith(mem.now)
    BY <1>0, <2>2, <2>3, StopTyped
  <2>4. CASE \E p \in mem.todo : pc' = "rm_plugins" /\ RemovalStays({"todo"}) /\ mem'.todo = mem.todo \ {p}
    <3>1. TypedRemoval(mem)'
      BY <1>0, <1>1, <2>4, RemovalMemoryTyped DEF RemovalStays, RemovalFields, TypedRemoval
    <3> QED
      BY <2>2, <2>4, <3>1, RemovalTyped, RemovalPcs
  <2> QED
    BY <1>8, <2>3, <2>4, RemovePluginEffect
<1>9. CASE DropActive \/ DropOptions
  <2>1. TypedSystem' /\ TypedRecords'
    BY <1>9, DropEffect, SystemStays DEF Typed, TypedRecords
  <2> QED
    BY <1>0, <1>9, <2>1, DropEffect, StopTyped, SameRemovalTyped, RemovalPcs
<1>10. CASE DropJournals
  <2>1. TypedSystem' /\ TypedRecords'
    BY <1>10, DropJournalsEffect, SystemStays DEF Typed, TypedRecords
  <2>2. ASSUME RemovalStays({"preserved"}), pc' \in Removing
        PROVE  Typed'
    <3>1. TypedRemoval(mem)'
      BY <1>0, <1>1, <2>2, RemovalMemoryTyped DEF RemovalStays, RemovalFields, TypedRemoval
    <3> QED
      BY <2>1, <2>2, <3>1, RemovalTyped
  <2> QED
    BY <1>0, <1>10, <2>1, <2>2, DropJournalsEffect, SameRemovalTyped, IdleTyped, RemovalPcs
<1>11. CASE RemoveDirectories
  <2>1. TypedSystem' /\ TypedRecords'
    BY <1>2, <1>11, DirectoriesEffect, SystemStays
  <2> QED
    BY <1>0, <1>11, <2>1, DirectoriesEffect, SameRemovalTyped, IdleTyped, RemovalPcs
<1> QED
  BY <1>3, <1>4, <1>5, <1>6, <1>7, <1>8, <1>9, <1>10, <1>11 DEF Removal

(***************************************************************************)
(* A command begins; the user; the environment.                            *)
(***************************************************************************)
LEMMA JournalFormTyped ==
    ASSUME NEW rec \in ActiveRecords \cup TransactionJournals
    PROVE  /\ AsJournal(rec) \in TransactionJournals /\ AsJournal(rec).entry = rec.entry
           /\ AsJournal(rec).owned = rec.owned /\ AsJournal(rec).arts = rec.arts
           /\ AsJournal(rec).id = rec.id
           /\ rec \in TransactionJournals => AsJournal(rec) = rec
           /\ rec \in ActiveRecords => AsJournal(rec).digest = rec
<1>1. CASE rec \in TransactionJournals
  <2>1. AsJournal(rec) = rec
    BY <1>1 DEF AsJournal, TransactionJournals
  <2>2. rec \notin ActiveRecords
    BY <1>1 DEF TransactionJournals, ActiveRecords
  <2> QED
    BY <1>1, <2>1, <2>2
<1>2. CASE rec \in ActiveRecords
  <2>1. "digest" \notin DOMAIN rec /\ rec # NoRec /\ rec \notin TransactionJournals
    BY <1>2, InstallAssumption DEF ActiveRecords, TransactionJournals
  <2> DEFINE j == [id |-> rec.id, digest |-> rec, sel |-> rec.sel, entry |-> rec.entry,
          before |-> rec.before, after |-> rec.after, owned |-> rec.owned, arts |-> rec.arts]
  <2>2. AsJournal(rec) = j
    BY <2>1 DEF AsJournal, DigestOf
  <2>3. j \in TransactionJournals
    BY <1>2 DEF TransactionJournals, ActiveRecords
  <2> QED
    BY <2>1, <2>2, <2>3
<1> QED
  BY <1>1, <1>2

LEMMA RecoveryTyped ==
    ASSUME TypedRecords
    PROVE  RecoveryState(active, preparing, conflicted)
              \in ActiveRecords \cup TransactionJournals \cup {NoRec}
BY DEF TypedRecords, RecoveryState, Interrupted

LEMMA BeginTyped ==
    ASSUME Typed, NEW after, NEW accept, BeginRemoval(after, accept), TypedSystem'
    PROVE  Typed'
<1> DEFINE rec == RecoveryState(active, preparing, conflicted)
<1>1. rec \in ActiveRecords \cup TransactionJournals
  BY BeginEffect, RecoveryTyped DEF Typed
<1>2. AsJournal(rec) \in TransactionJournals /\ rec.owned \subseteq Plugins
  BY <1>1, JournalFormTyped DEF ActiveRecords, TransactionJournals
<1> HIDE DEF rec
<1>3. TypedRemoval(mem)' /\ pc' \in Removing
  BY <1>2, BeginEffect, RemovalPcs DEF TypedRemoval, rec
<1>4. TypedRecords'
  BY BeginEffect DEF Typed, TypedRecords, disk
<1> QED
  BY <1>3, <1>4, RemovalTyped

LEMMA PlannedTyped ==
    ASSUME Typed, NEW sel \in Selections, NEW decision \in {"replace", "keep"}
    PROVE  /\ EntryPlanned(sel, decision) \in Entries
           /\ Holding(sel, decision) \in {"managed", "taken", "kept", "kept before"}
           /\ Holding(sel, decision) = "kept before" => KeptBefore /\ EntryPlanned(sel, decision) # NoEntry
<1>1. active \in ActiveRecords \cup {NoRec} /\ key \in KeyValues /\ EntryOf(active) \in Entries
  BY RecordTyped DEF Typed, TypedRecords, TypedSystem
<1>2. KeptBefore => active.entry = EntryOf(active) /\ EntryOf(active) # NoEntry
  BY DEF KeptBefore, EntryOf
<1>3. sel \in KeyValues
  BY DEF KeyValues
<1>4. KeptEntry(EntryOf(active), key) \in Entries /\ Merged(EntryOf(active), key, sel) \in Entries
  BY <1>1, <1>3 DEF KeptEntry, Merged, Entry, Entries
<1> QED
  BY <1>1, <1>2, <1>4 DEF EntryPlanned, Holding

LEMMA FirstJournalTyped ==
    ASSUME Typed, NEW sel \in Selections
    PROVE  FirstJournal(sel) \in TransactionJournals
<1>1. /\ EntryOf(active) \in Entries /\ OwnedBy(active) \subseteq Plugins
      /\ ArtsOf(active) \in [Files -> Int]
  BY RecordTyped DEF Typed, TypedRecords
<1>2. (IF active = NoRec THEN left.commands ELSE active.id) \in Nat
  BY DEF Typed, TypedRecords, TypedSystem, ActiveRecords
<1>3. DigestOf(active) \in ActiveRecords \cup {NoRec}
  BY DEF DigestOf, NoDigest, Typed, TypedRecords
<1>4. pref \in Prefs
  BY DEF Typed, TypedSystem
<1> QED
  BY <1>1, <1>2, <1>3, <1>4 DEF FirstJournal, TransactionJournals

LEMMA PreflightTyped ==
    ASSUME Typed, NEW sel \in Selections, NEW decision \in {"replace", "keep"},
           Preflight(sel, decision), TypedSystem'
    PROVE  Typed'
<1>1. /\ EntryPlanned(sel, decision) \in Entries
      /\ Holding(sel, decision) \in {"managed", "taken", "kept", "kept before"}
      /\ Holding(sel, decision) = "kept before" => EntryPlanned(sel, decision) # NoEntry
      /\ FirstJournal(sel) \in TransactionJournals
  BY PlannedTyped, FirstJournalTyped
<1>2. active \in ActiveRecords \cup {NoRec} /\ key \in KeyValues /\ pref \in Prefs
  BY DEF Typed, TypedRecords, TypedSystem
<1>3. (IF active = NoRec THEN pref ELSE active.before) \in Prefs
  BY <1>2 DEF ActiveRecords
<1>4. Wanted(sel) \subseteq Plugins /\ FilesOf(sel) \subseteq Files
  BY SelectionAssumption DEF Wanted, Plugins, FilesOf, Files
<1>5. TypedInstall(mem)' /\ pc' \in Fresh
  <2>1. /\ mem'.sel = sel /\ mem'.prev = active /\ mem'.jr = FirstJournal(sel)
        /\ mem'.doc.key = key /\ mem'.doc.pref = pref /\ mem'.live = key
        /\ mem'.holding = Holding(sel, decision) /\ mem'.entry = EntryPlanned(sel, decision)
        /\ mem'.snap = {} /\ mem'.todo = Wanted(sel) /\ mem'.added = {}
        /\ mem'.gone = {} /\ mem'.roles = FilesOf(sel) /\ DOMAIN mem'.native = {}
        /\ mem'.effects = FALSE /\ mem'.recorded = FALSE /\ mem'.failed = FALSE
    BY DEF Preflight, EntryPlanned
  <2>2. pc' \in Fresh /\ mem'.before = IF active = NoRec THEN pref ELSE active.before
    BY PreflightEffect, FreshPcs
  <2> QED
    BY <1>1, <1>2, <1>3, <1>4, <2>1, <2>2 DEF TypedInstall
<1>6. TypedRecords'
  BY PreflightEffect DEF Typed, TypedRecords, disk
<1> QED
  BY <1>5, <1>6, InstallTyped

LEMMA TypedCommands ==
    ASSUME IInv, Typed, (\E sel \in Selections : StartInstall(sel)) \/ StartRemove \/ Restart
    PROVE  Typed'
<1>1. UNCHANGED <<config, files, installed, mine, release>>
  BY DEF StartInstall, StartRemove, Restart, Keep, Preflight, BeginRemoval
<1>2. left' \in [commands : Nat, troubles : Nat, releases : Nat]
  BY DEF StartInstall, StartRemove, Restart, Keep, Spend, Typed, TypedSystem
<1>3. TypedSystem'
  BY <1>1, <1>2 DEF Typed, TypedSystem, config
<1>4. CASE \E sel \in Selections : StartInstall(sel)
  <2>1. PICK sel \in Selections : StartInstall(sel)
    BY <1>4
  <2>2. CASE UNCHANGED <<disk, config, files, installed, pc, mem, notes>>
    BY <1>3, <2>1, <2>2, IdleTyped DEF StartInstall, Typed, TypedRecords, disk
  <2> QED
    BY <1>3, <2>1, <2>2, BeginTyped, PreflightTyped DEF StartInstall
<1>5. CASE StartRemove
  BY <1>3, <1>5, BeginTyped DEF StartRemove
<1>6. CASE Restart
  <2>1. mem.after \in Selections
    BY <1>6 DEF Restart, IInv, RemovalInv, Removing
  <2> QED
    BY <1>3, <1>6, <2>1, PreflightTyped DEF Restart
<1> QED
  BY <1>4, <1>5, <1>6

LEMMA TypedOthers ==
    ASSUME IInv, Typed, User \/ NewRelease \/ Crash
    PROVE  Typed'
<1>1. TypedRecords'
  BY DEF User, EditKey, EditFile, TogglePlugin, NewRelease, Crash, disk, Typed, TypedRecords
<1>2. \A what \in {"commands", "troubles", "releases"} :
        Spend(what) => left' \in [commands : Nat, troubles : Nat, releases : Nat]
  BY DEF Spend, Typed, TypedSystem
<1>3. TypedSystem'
  <2>1. CASE \E v \in UserValues \cup {Absent} : EditKey(v)
    BY <1>2, <2>1 DEF EditKey, Typed, TypedSystem, KeyValues
  <2>2. CASE \E f \in Files : EditFile(f)
    BY <1>2, <2>2 DEF EditFile, Typed, TypedSystem, config
  <2>3. CASE \E p \in Plugins : TogglePlugin(p)
    BY <1>2, <2>3 DEF TogglePlugin, Typed, TypedSystem, config
  <2>4. CASE NewRelease
    BY <1>2, <2>4 DEF NewRelease, Typed, TypedSystem, config
  <2>5. CASE Crash
    BY <1>2, <2>5 DEF Crash, Typed, TypedSystem, config
  <2> QED
    BY <2>1, <2>2, <2>3, <2>4, <2>5 DEF User
<1>4. CASE pc' = "idle"
  BY <1>1, <1>3, <1>4, IdleTyped
<1>5. CASE UNCHANGED <<pc, mem>>
  BY <1>1, <1>3, <1>5, MemorySame, InstallTyped, SameRemovalTyped, IdleTyped DEF IInv
<1> QED
  BY <1>4, <1>5 DEF User, EditKey, EditFile, TogglePlugin, NewRelease, Crash

LEMMA TypedInit == Init => Typed
BY InstallAssumption, Pcs DEF Init, Typed, TypedRecords, TypedSystem, KeyValues, NoArts, Prefs

LEMMA TypedNext == IInv /\ Typed /\ [Next]_vars => Typed'
<1> SUFFICES ASSUME IInv, Typed, [Next]_vars PROVE Typed'
  OBVIOUS
<1>1. CASE UNCHANGED vars
  <2>1. TypedRecords' /\ TypedSystem'
    BY <1>1 DEF vars, disk, config, Typed, TypedRecords, TypedSystem
  <2> QED
    BY <1>1, <2>1, MemorySame, InstallTyped, SameRemovalTyped, IdleTyped DEF vars, IInv
<1>2. CASE Forward
  BY <1>2, TypedForward1, TypedForward2 DEF Forward
<1>3. CASE RollBack
  BY <1>3, TypedRollBack
<1>4. CASE Removal
  BY <1>4, TypedRemovalSteps, TypedCommands
<1>5. CASE (\E sel \in Selections : StartInstall(sel)) \/ StartRemove
  BY <1>5, TypedCommands
<1>6. CASE User \/ NewRelease \/ Crash
  BY <1>6, TypedOthers
<1> QED
  BY <1>1, <1>2, <1>3, <1>4, <1>5, <1>6 DEF Next, Step

(***************************************************************************)
(* The records.  While an install runs, its journal is bound to the active *)
(* record it has found, which stays until the new one is published; while  *)
(* a removal runs, what it acts on is bound to the active record.          *)
(***************************************************************************)
BeforePublish == {"journal", "snapshot", "read", "roles", "plan", "setup", "plugins", "own"}
AfterPublish == {"published", "omit", "unown", "record", "clear"}
Clean == {"rm_roles", "rm_plugins", "rm_options", "rm_preparing", "rm_conflicted", "rm_dirs", "restart"}
Dropped == {"rm_options", "rm_preparing", "rm_conflicted", "rm_dirs", "restart"}

Recovery == RecoveryState(active, preparing, conflicted)
SameAsJournal(rec) ==
    rec.id = mem.jr.id /\ rec.entry = mem.jr.entry /\ rec.owned = mem.jr.owned /\ rec.arts = mem.jr.arts

InstallShape ==
    /\ mem.jr.digest = mem.prev /\ (mem.prev # NoRec => mem.jr.id = mem.prev.id)
    /\ conflicted = NoRec \/ (pc = "rb_clear" /\ conflicted = mem.jr)
    /\ preparing = NoRec <=> pc = "journal"
    /\ preparing # NoRec => /\ preparing.id = mem.jr.id /\ preparing.digest = mem.prev
                            /\ preparing.entry \in {EntryOf(mem.prev), mem.jr.entry}
    /\ \/ active = mem.prev /\ pc # "clear"
       \/ active # NoRec /\ SameAsJournal(active) /\ SameAsJournal(preparing)
            /\ mem.recorded /\ pc \in {"clear", "rb_record"}
    /\ pc \in Fresh => (mem.recorded <=> pc \in {"record", "clear"})
    /\ pc \in {"omit", "record", "clear"} => preparing = mem.jr
    /\ pc = "rb_record" /\ mem.recorded => preparing = mem.jr
    /\ pc \in BeforePublish => mem.jr.entry = EntryOf(mem.prev)
    /\ pc = "journal" => mem.jr.owned = OwnedBy(mem.prev) /\ mem.jr.arts = ArtsOf(mem.prev)
    /\ pc \in Fresh => ~mem.failed
    /\ pc \in {"journal", "snapshot", "read", "rb_end"} => DOMAIN mem.native = {}

RemovalShape ==
    /\ Usable(active, mem.rec) /\ Usable(active, mem.now)
    /\ mem.now = mem.rec \/ mem.now = [mem.rec EXCEPT !.entry = NoEntry]
    /\ pc \in {"rm_config", "rm_checkpoint"} => mem.rec = AsJournal(Recovery)
    /\ pc = "rm_config" => mem.now = mem.rec
    /\ pc \in {"rm_roles", "rm_plugins", "rm_options", "rm_preparing"} => conflicted # NoRec
    /\ pc \in Dropped => active = NoRec
    /\ pc \in {"rm_conflicted", "rm_dirs", "restart"} => preparing = NoRec \/ mem.preserved
    /\ pc \in {"rm_dirs", "restart"} => conflicted = NoRec
    /\ pc = "restart" => ~mem.preserved

Shaped ==
    /\ conflicted # NoRec => Usable(active, conflicted)
    /\ pc \in Fresh \cup Failing => InstallShape
    /\ pc \in Removing => RemovalShape

(* A failure to put the active record back gives everything up. *)
Sane == ~({"key"} \cup Plugins \cup Files \subseteq notes)
Shape == Sane => Shaped

(***************************************************************************)
(* The key: HolyCodex's own value is told by a record, and the record a    *)
(* removal would act on has an entry for it.                               *)
(***************************************************************************)
OfSelection(e) == e # NoEntry => e.orig \notin Selections
KeyIs(S) == key \in Selections => key \in S

KeyInstall ==
    /\ OfSelection(mem.jr.entry) /\ OfSelection(mem.entry) /\ OfSelection(EntryOf(mem.prev))
    /\ mem.doc.key \in Selections =>
         EntryOf(mem.prev).last = mem.doc.key /\ mem.entry # NoEntry /\ mem.jr.entry # NoEntry
    /\ mem.live \in Selections => mem.live = mem.doc.key
    /\ mem.holding \in {"managed", "taken"} => mem.entry.last = mem.sel
    /\ mem.holding = "kept" /\ mem.doc.key \in Selections => mem.entry.last = mem.doc.key
    /\ pc \in BeforePublish => KeyIs({mem.doc.key})
    /\ pc \in {"setup", "plugins", "own"} \cup AfterPublish => mem.effects
    /\ pc \in AfterPublish => KeyIs({mem.jr.entry.last})
    /\ pc \in {"rb_record", "rb_config"} => KeyIs({mem.doc.key}) \/ (mem.effects /\ KeyIs({mem.jr.entry.last}))
    /\ pc \in {"rb_roles", "rb_end"} => mem.failed \/ KeyIs({mem.doc.key})
    /\ pc \in {"rb_roles", "rb_end", "rb_clear"} => KeyIs({mem.doc.key, mem.jr.entry.last})
    /\ pc = "rb_clear" => conflicted # NoRec \/ KeyIs({mem.doc.key})

KeyHeld == key \in Selections => EntryOf(Recovery) # NoEntry /\ KeyTold

KeyRemoval ==
    /\ OfSelection(mem.rec.entry) /\ OfSelection(mem.now.entry)
    /\ pc \in {"rm_config", "rm_stop"} => KeyHeld
    /\ mem.rec.entry # NoEntry /\ mem.doc.key # mem.rec.entry.last => "key" \in mem.conflicts
    /\ pc = "rm_stop" => (key \in Selections => mem.now.entry = EntryOf(Recovery))
    /\ pc \in {"rm_checkpoint"} \cup Clean => key \notin Selections

KeyOk ==
    /\ \A rec \in Records : OfSelection(rec.entry)
    /\ pc = "idle" => KeyHeld
    /\ pc \in Fresh \cup Failing => KeyInstall
    /\ pc \in Removing => KeyRemoval
KeyInv == "key" \notin notes => KeyOk

(* What the user had at first is the original value of every entry.        *)
Original(e) == e # NoEntry => e.orig = mine.key
OriginalInstall ==
    /\ {mem.doc.key, mem.live} \subseteq Selections \cup {mine.key}
    /\ Original(mem.jr.entry) /\ Original(mem.entry) /\ Original(EntryOf(mem.prev))
OriginalRemoval ==
    /\ Original(mem.rec.entry) /\ Original(mem.now.entry)
    /\ ~("key" \in mem.conflicts /\ mem.accept)
OriginalOk ==
    /\ key \in Selections \cup {mine.key}
    /\ \A rec \in Records : Original(rec.entry)
    /\ pc \in Fresh \cup Failing => OriginalInstall
    /\ pc \in Removing => OriginalRemoval
OriginalInv == notes = {} => OriginalOk

(***************************************************************************)
(* Plugins and role assets, one by one.                                    *)
(***************************************************************************)
Found(p) == p \in OwnedBy(mem.prev)
PluginInstall(p) ==
    /\ p \in installed => p \in mem.jr.owned
    /\ mem.gone \subseteq OwnedBy(mem.prev)
    /\ pc \in {"omit", "unown"} => mem.todo \subseteq OwnedBy(mem.prev)
    /\ p \in installed /\ pc # "rb_clear" => Found(p) \/ p \in mem.added \cup mem.unsure \/ mem.failed
    /\ p \in installed /\ pc = "rb_end" => Found(p) \/ mem.failed
    /\ p \in installed /\ pc = "rb_clear" => Found(p) \/ conflicted # NoRec
    /\ preparing # NoRec /\ p \in installed /\ Found(p) => p \in preparing.owned
    /\ pc \in BeforePublish /\ Found(p) => p \in mem.jr.owned /\ (preparing # NoRec => p \in preparing.owned)

PluginHeld(p) == p \in installed => p \in OwnedBy(Recovery)
PluginRemoval(p) ==
    /\ PluginHeld(p)
    /\ p \in installed => p \in mem.rec.owned
    /\ pc \in {"rm_config", "rm_checkpoint", "rm_roles", "rm_plugins"} => (p \in installed => p \in mem.todo)
    /\ pc \in Dropped => p \notin installed

PluginOk(p) ==
    /\ pc = "idle" => PluginHeld(p)
    /\ pc \in Fresh \cup Failing => PluginInstall(p)
    /\ pc \in Removing => PluginRemoval(p)
PluginInv == \A p \in Plugins \ (mine.plugins \cup notes) : PluginOk(p)

Live(content) == content \notin {None, Edited}
HasArt(rec, f) == ArtsOf(rec)[f] # None
FileInstall(f) ==
    /\ Live(files[f]) => HasArt(mem.jr, f)
    /\ HasArt(mem.prev, f) => HasArt(mem.jr, f) /\ (preparing # NoRec => HasArt(preparing, f))
    /\ Live(files[f]) /\ pc # "rb_clear" => HasArt(mem.prev, f) \/ f \in DOMAIN mem.native \/ mem.failed
    /\ Live(files[f]) /\ pc = "rb_clear" => HasArt(mem.prev, f) \/ conflicted # NoRec
    /\ f \in DOMAIN mem.native =>
        /\ pc = "roles" => f \notin mem.roles
        /\ HasArt(mem.jr, f) /\ (Live(files[f]) => files[f] = Contents(f, release))
        /\ Live(mem.native[f]) => HasArt(mem.prev, f)
    /\ pc \in {"journal", "snapshot", "read"} =>
        (f \in mem.roles /\ mem.reviewed[f] = None /\ Live(files[f]) =>
            files[f] \in {Contents(f, release), ArtsOf(mem.prev)[f]})
    /\ pc = "roles" /\ f \in mem.roles =>
        /\ f \in DOMAIN mem.current /\ (Live(mem.current[f]) => HasArt(mem.prev, f))
        /\ f \in mem.kept => ~Live(files[f])

FileHeld(f) == Live(files[f]) => HasArt(Recovery, f)
FileRemoval(f) ==
    /\ FileHeld(f)
    /\ Live(files[f]) => HasArt(mem.rec, f)
    /\ pc \in {"rm_config", "rm_checkpoint", "rm_roles"} => (Live(files[f]) => f \in mem.roles \/ mem.preserved)
    /\ pc \in {"rm_plugins"} \cup Dropped => ~Live(files[f])

FileOk(f) ==
    /\ pc = "idle" => FileHeld(f)
    /\ pc \in Fresh \cup Failing => FileInstall(f)
    /\ pc \in Removing => FileRemoval(f)
FileInv == \A f \in Files \ notes : FileOk(f)

(* The record a removal would act on. *)
LEMMA RecoveryIs ==
    ASSUME NEW a, NEW q, NEW c
    PROVE  /\ Usable(a, c) => RecoveryState(a, q, c) = c
           /\ Usable(a, q) => RecoveryState(a, q, NoRec) = q
           /\ RecoveryState(a, NoRec, NoRec) = a
BY DEF RecoveryState, Interrupted, Usable

LEMMA RecoveryStays ==
    ASSUME UNCHANGED disk
    PROVE  Recovery' = Recovery /\ Records' = Records
BY DEF disk, Recovery, Records

LEMMA NoJournals ==
    ASSUME Shaped, InstallMayStart(active, preparing, conflicted),
           Interrupted(active, preparing, conflicted) = NoRec
    PROVE  preparing = NoRec /\ conflicted = NoRec
<1>1. conflicted = NoRec
  BY DEF Shaped, Interrupted, Usable
<1>2. CASE preparing # NoRec
  <2>1. active # NoRec /\ ~IsBound(preparing, active)
    BY <1>1, <1>2 DEF Interrupted, Usable
  <2>2. Relation(active, preparing, conflicted, preparing) = "stale"
    BY <2>1 DEF Relation
  <2>3. "stale" \in Relations(active, preparing, conflicted)
    BY <1>2, <2>2 DEF Relations, Journals
  <2> QED
    BY <2>3 DEF InstallMayStart
<1> QED
  BY <1>1, <1>2

(***************************************************************************)
(* The records keep their shape.                                           *)
(***************************************************************************)
LEMMA ShapedInstall ==
    ASSUME pc' \in Fresh \cup Failing, InstallShape', conflicted' # NoRec => Usable(active', conflicted')
    PROVE  Shaped'
BY Pcs DEF Shaped

LEMMA ShapedIdle ==
    ASSUME pc' = "idle", conflicted' # NoRec => Usable(active', conflicted')
    PROVE  Shaped'
BY Pcs DEF Shaped

LEMMA ShapedRemoval ==
    ASSUME pc' \in Removing, RemovalShape', conflicted' # NoRec => Usable(active', conflicted')
    PROVE  Shaped'
BY Pcs DEF Shaped

(* What every step of an install starts from. *)
LEMMA Ready ==
    ASSUME IInv, Typed, Shaped, pc \in Fresh \cup Failing
    PROVE  /\ InstallShape /\ TypedInstall(mem) /\ mem.jr \in TransactionJournals /\ mem.jr # NoRec
           /\ mem.prev \in ActiveRecords \cup {NoRec} /\ Usable(mem.prev, mem.jr)
<1>1. InstallShape /\ TypedInstall(mem)
  BY Memory DEF Shaped
<1>2. mem.jr \in TransactionJournals /\ mem.jr # NoRec /\ mem.prev \in ActiveRecords \cup {NoRec}
  BY <1>1, InstallAssumption DEF TypedInstall
<1> QED
  BY <1>1, <1>2 DEF Usable, IsBound, DigestOf, InstallShape

LEMMA ShapedForward ==
    ASSUME IInv, Typed, Shaped, Forward
    PROVE  Shaped'
<1> USE DEF Fresh, Failing, BeforePublish
<1>0. pc \in Fresh
  BY DEF Forward, WriteFirstJournal, Snapshot, ReadRoles, InstallRole, JournalRoles, JournalPlan,
     SetUpPlugins, AddPlugin, JournalOwnership, PublishConfig, JournalConfig, OmitPlugin,
     JournalOmission, Verify, PublishRecord, ClearJournal
<1>1. /\ InstallShape /\ TypedInstall(mem) /\ mem.jr \in TransactionJournals /\ mem.jr # NoRec
      /\ mem.prev \in ActiveRecords \cup {NoRec} /\ conflicted = NoRec
  BY <1>0, Ready DEF InstallShape
<1>2. CASE WriteFirstJournal
  <2>1. /\ pc = "journal" /\ UNCHANGED <<active, conflicted>>
        /\ \/ pc' = "snapshot" /\ mem' = mem /\ preparing' = mem.jr
           \/ pc' = "idle"
    BY <1>2, WriteFirstEffect
  <2>2. pc' = "snapshot" => InstallShape'
    BY <1>1, <2>1 DEF InstallShape, SameAsJournal
  <2> QED
    BY <1>1, <2>1, <2>2, ShapedInstall, ShapedIdle
<1>3. CASE JournalRoles \/ JournalPlan \/ JournalOwnership \/ JournalConfig \/ JournalOmission
  <2>1. /\ UNCHANGED <<active, conflicted>> /\ pc \in {"roles", "plan", "own", "published", "unown"}
        /\ \/ pc' = "rb_record" /\ preparing' \in {preparing, mem'.jr}
           \/ /\ preparing' = mem'.jr
              /\ <<pc, pc'>> \in {<<"roles", "plan">>, <<"plan", "setup">>, <<"own", "plugins">>,
                                  <<"published", "omit">>, <<"unown", "omit">>}
    BY <1>3, WriteEffect
  <2>2. /\ mem'.prev = mem.prev /\ mem'.recorded = mem.recorded /\ mem'.failed = mem.failed
        /\ mem'.jr.id = mem.jr.id /\ mem'.jr.digest = mem.jr.digest /\ mem'.jr.entry = mem.jr.entry
        /\ mem'.jr \in TransactionJournals /\ mem'.jr # NoRec
    BY <1>3, WriteEffect, InstallAssumption DEF Stays, InstallFields, JournalStays, JournalFields, RecordFields
  <2>3. InstallShape'
    BY <1>1, <2>1, <2>2 DEF InstallShape
  <2> QED
    BY <1>1, <2>1, <2>3, ShapedInstall
<1>4. CASE Snapshot \/ ReadRoles \/ SetUpPlugins
  <2>1. /\ UNCHANGED disk /\ mem'.jr = mem.jr /\ mem'.prev = mem.prev /\ mem'.recorded = mem.recorded
        /\ mem'.failed = mem.failed /\ mem'.native = mem.native
        /\ <<pc, pc'>> \in {<<"snapshot", "read">>, <<"snapshot", "rb_record">>, <<"read", "roles">>,
                <<"read", "rb_record">>, <<"setup", "plugins">>, <<"setup", "rb_record">>}
    BY <1>4, SnapshotEffect, ReadEffect, SetUpEffect DEF Stays, InstallFields
  <2>2. InstallShape'
    BY <1>1, <2>1 DEF InstallShape, disk
  <2> QED
    BY <1>1, <2>1, <2>2, ShapedInstall DEF disk
<1>5. CASE InstallRole
  <2>1. /\ UNCHANGED disk /\ pc = "roles" /\ pc' \in {"roles", "rb_record"}
    BY <1>5, RoleEffect DEF RoleOutcome
  <2>2. /\ mem'.prev = mem.prev /\ mem'.recorded = mem.recorded /\ mem'.failed = mem.failed
        /\ mem'.jr.id = mem.jr.id /\ mem'.jr.digest = mem.jr.digest /\ mem'.jr.entry = mem.jr.entry
    BY <1>5, RoleEffect DEF RoleOutcome, Stays, InstallFields, JournalStays, JournalFields, RecordFields
  <2>3. InstallShape'
    BY <1>1, <2>1, <2>2 DEF InstallShape, disk
  <2> QED
    BY <1>1, <2>1, <2>3, ShapedInstall DEF disk
<1>6. CASE AddPlugin \/ OmitPlugin
  <2>1. /\ UNCHANGED disk
        /\ <<pc, pc'>> \in {<<"plugins", "plugins">>, <<"plugins", "rb_record">>, <<"plugins", "own">>,
                <<"omit", "unown">>}
    BY <1>6, AddEffect, OmitEffect
  <2>2. /\ mem'.prev = mem.prev /\ mem'.recorded = mem.recorded /\ mem'.failed = mem.failed
        /\ mem'.jr.id = mem.jr.id /\ mem'.jr.digest = mem.jr.digest /\ mem'.jr.entry = mem.jr.entry
    BY <1>6, AddEffect, OmitEffect DEF Stays, InstallFields, JournalStays, JournalFields, RecordFields
  <2>3. InstallShape'
    BY <1>1, <2>1, <2>2 DEF InstallShape, disk
  <2> QED
    BY <1>1, <2>1, <2>3, ShapedInstall DEF disk
<1>7. CASE PublishConfig
  <2>1. /\ UNCHANGED disk /\ pc = "plugins" /\ pc' \in {"published", "rb_record"}
    BY <1>7, PublishEffect
  <2>2. /\ mem'.prev = mem.prev /\ mem'.recorded = mem.recorded /\ mem'.failed = mem.failed
        /\ mem'.jr.id = mem.jr.id /\ mem'.jr.digest = mem.jr.digest
    BY <1>7, PublishEffect DEF Stays, InstallFields, JournalStays, JournalFields, RecordFields
  <2>3. InstallShape'
    BY <1>1, <2>1, <2>2 DEF InstallShape, disk
  <2> QED
    BY <1>1, <2>1, <2>3, ShapedInstall DEF disk
<1>8. CASE Verify
  <2>1. /\ UNCHANGED disk /\ pc = "omit" /\ mem'.jr = mem.jr /\ mem'.prev = mem.prev
        /\ mem'.failed = mem.failed
        /\ \/ pc' = "record" /\ mem'.recorded = TRUE
           \/ pc' = "rb_record" /\ mem'.recorded = mem.recorded
    BY <1>8, VerifyEffect DEF Stays, InstallFields
  <2>2. InstallShape'
    BY <1>1, <2>1 DEF InstallShape, disk
  <2> QED
    BY <1>1, <2>1, <2>2, ShapedInstall DEF disk
<1>9. CASE PublishRecord
  <2>1. /\ pc = "record" /\ UNCHANGED <<preparing, conflicted>> /\ mem' = mem
        /\ \/ pc' = "clear" /\ active' = ActiveRecord
           \/ pc' = "rb_record" /\ active' \in {active, ActiveRecord}
    BY <1>9, PublishRecordEffect
  <2>2. ActiveRecord \in ActiveRecords
    BY <1>1 DEF ActiveRecord, ActiveRecords, TypedInstall, TransactionJournals, Prefs, Typed, TypedSystem
  <2>3. ActiveRecord # NoRec
    BY <2>2, InstallAssumption
  <2>4. SameAsJournal(ActiveRecord) /\ SameAsJournal(mem.jr)
    BY DEF SameAsJournal, ActiveRecord
  <2>5. active = mem.prev /\ mem.recorded /\ preparing = mem.jr
    BY <1>1, <2>1 DEF InstallShape
  <2>6. /\ mem.jr.digest = mem.prev /\ (mem.prev # NoRec => mem.jr.id = mem.prev.id)
        /\ mem.jr.entry \in {EntryOf(mem.prev), mem.jr.entry}
    BY <1>1 DEF InstallShape
  <2>7. InstallShape'
    BY <1>1, <2>1, <2>3, <2>4, <2>5, <2>6 DEF InstallShape, SameAsJournal
  <2> QED
    BY <1>1, <2>1, <2>7, ShapedInstall
<1>10. CASE ClearJournal
  <2>1. /\ pc = "clear" /\ UNCHANGED active
        /\ \/ pc' = "idle" /\ conflicted' = NoRec
           \/ pc' = "rb_record" /\ mem' = mem /\ UNCHANGED <<preparing, conflicted>>
    BY <1>10, ClearEffect
  <2>2. pc' = "rb_record" => InstallShape'
    BY <1>1, <2>1 DEF InstallShape, SameAsJournal
  <2> QED
    BY <1>1, <2>1, <2>2, ShapedInstall, ShapedIdle
<1> QED
  BY <1>2, <1>3, <1>4, <1>5, <1>6, <1>7, <1>8, <1>9, <1>10 DEF Forward

LEMMA ShapedRollBack ==
    ASSUME IInv, Typed, Shaped, RollBack, Sane'
    PROVE  Shaped'
<1> USE DEF Fresh, Failing, BeforePublish
<1>0. pc \in Failing
  BY DEF RollBack, RollBackRecord, RollBackConfig, RollBackRole, RollBackAdded, RollBackRemoved,
     RollBackEnd, ReportFailure, DropPreparing
<1>1. /\ InstallShape /\ TypedInstall(mem) /\ mem.jr \in TransactionJournals /\ mem.jr # NoRec
      /\ mem.prev \in ActiveRecords \cup {NoRec} /\ Usable(mem.prev, mem.jr)
  BY <1>0, Ready
<1>2. CASE RollBackRecord
  <2>1. /\ pc = "rb_record" /\ pc' = "rb_config" /\ UNCHANGED <<preparing, conflicted>>
        /\ mem' = mem /\ active' = IF mem.recorded THEN mem.prev ELSE active
    BY <1>2, RollBackRecordEffect DEF Sane
  <2>2. active' = mem.prev /\ conflicted = NoRec
    BY <1>1, <2>1 DEF InstallShape
  <2>3. InstallShape'
    BY <1>1, <2>1, <2>2 DEF InstallShape
  <2> QED
    BY <2>1, <2>2, <2>3, ShapedInstall
<1>3. CASE RollBackConfig \/ RollBackRole \/ RollBackAdded
  <2>1. /\ UNCHANGED disk /\ mem'.jr = mem.jr /\ mem'.prev = mem.prev /\ mem'.recorded = mem.recorded
        /\ <<pc, pc'>> \in {<<"rb_config", "rb_roles">>, <<"rb_roles", "rb_roles">>}
    BY <1>3, RollBackConfigEffect, RollBackRoleEffect, RollBackAddedEffect DEF Stays, InstallFields
  <2>2. InstallShape'
    BY <1>1, <2>1 DEF InstallShape, disk
  <2> QED
    BY <1>1, <2>1, <2>2, ShapedInstall DEF disk, InstallShape
<1>4. CASE RollBackRemoved
  <2>1. /\ pc = "rb_roles" /\ pc' = "rb_roles" /\ UNCHANGED <<active, conflicted>>
        /\ preparing' = mem'.jr /\ mem'.jr \in TransactionJournals /\ mem'.jr # NoRec
    BY <1>4, RollBackRemovedEffect, InstallAssumption
  <2>2. /\ mem'.prev = mem.prev /\ mem'.recorded = mem.recorded
        /\ mem'.jr.id = mem.jr.id /\ mem'.jr.digest = mem.jr.digest /\ mem'.jr.entry = mem.jr.entry
    BY <1>4, RollBackRemovedEffect DEF Stays, InstallFields, JournalStays, JournalFields, RecordFields
  <2>3. InstallShape'
    BY <1>1, <2>1, <2>2 DEF InstallShape
  <2> QED
    BY <1>1, <2>1, <2>3, ShapedInstall DEF InstallShape
<1>5. CASE RollBackEnd
  <2>1. /\ pc = "rb_roles" /\ pc' = "rb_end" /\ UNCHANGED disk /\ DOMAIN mem'.native = {}
    BY <1>5, RollBackEndEffect DEF Stays, InstallFields
  <2>2. /\ mem'.prev = mem.prev /\ mem'.recorded = mem.recorded
        /\ mem'.jr.id = mem.jr.id /\ mem'.jr.digest = mem.jr.digest /\ mem'.jr.entry = mem.jr.entry
    BY <1>5, RollBackEndEffect DEF Stays, InstallFields, JournalStays, JournalFields, RecordFields
  <2>3. InstallShape'
    BY <1>1, <2>1, <2>2 DEF InstallShape, disk
  <2> QED
    BY <1>1, <2>1, <2>3, ShapedInstall DEF InstallShape, disk
<1>6. CASE ReportFailure
  <2>1. /\ pc = "rb_end" /\ UNCHANGED <<active, preparing>> /\ active = mem.prev /\ conflicted = NoRec
        /\ conflicted' \in {conflicted, mem.jr}
        /\ pc' = "idle" \/ (pc' = "rb_clear" /\ mem' = mem)
    BY <1>1, <1>6, ReportEffect DEF InstallShape
  <2>2. conflicted' # NoRec => Usable(active', conflicted')
    BY <1>1, <2>1
  <2>3. pc' = "rb_clear" => InstallShape'
    BY <1>1, <2>1 DEF InstallShape
  <2> QED
    BY <2>1, <2>2, <2>3, ShapedInstall, ShapedIdle
<1>7. CASE DropPreparing
  <2>1. pc' = "idle" /\ UNCHANGED <<active, conflicted>>
    BY <1>7, DropPreparingEffect
  <2> QED
    BY <2>1, ShapedIdle DEF Shaped
<1> QED
  BY <1>2, <1>3, <1>4, <1>5, <1>6, <1>7 DEF RollBack

(* What every step of a removal starts from. *)
LEMMA RemovalReady ==
    ASSUME IInv, Typed, Shaped, pc \in Removing
    PROVE  /\ RemovalShape /\ TypedRemoval(mem)
           /\ mem.rec # NoRec /\ mem.now # NoRec
           /\ mem.now.owned = mem.rec.owned /\ mem.now.arts = mem.rec.arts
<1>1. RemovalShape /\ TypedRemoval(mem)
  BY RemovalSame DEF Shaped
<1>2. mem.rec # NoRec /\ mem.now # NoRec
  BY <1>1 DEF RemovalShape, Usable
<1>3. mem.now.owned = mem.rec.owned /\ mem.now.arts = mem.rec.arts
  BY <1>1 DEF RemovalShape, TypedRemoval, TransactionJournals
<1> QED
  BY <1>1, <1>2, <1>3

(* A removal that stops with what it began with, or with its progress. *)
LEMMA ShapedStop ==
    ASSUME IInv, Typed, Shaped, pc \in Removing, NEW rec \in {mem.rec, mem.now}, StopsWith(rec),
           UNCHANGED active, conflicted' \in {conflicted, mem.now}
    PROVE  Shaped'
<1>1. RemovalShape
  BY RemovalReady
<1>2. pc' = "rm_stop" /\ mem'.now = rec /\ mem'.rec = mem.rec
  BY DEF StopsWith, RemovalStays, RemovalFields
<1>3. RemovalShape'
  BY <1>1, <1>2 DEF RemovalShape, Clean, Dropped
<1>4. conflicted' # NoRec => Usable(active', conflicted')
  BY <1>1 DEF RemovalShape, Shaped
<1> QED
  BY <1>2, <1>3, <1>4, ShapedRemoval, RemovalPcs

LEMMA ShapedRemovalSteps ==
    ASSUME IInv, Typed, Shaped, Removal, ~Restart
    PROVE  Shaped'
<1>0. pc \in Removing
  BY RemovalPcs DEF Removal, CleanConfig, Checkpoint, WriteConflict, RemoveRole, RolesRemoved,
     RemovePlugin, DropActive, DropOptions, DropJournals, RemoveDirectories
<1>1. RemovalShape /\ mem.now # NoRec /\ TypedRemoval(mem)
  BY <1>0, RemovalReady
<1>2. conflicted # NoRec => Usable(active, conflicted)
  BY DEF Shaped
<1>3. CASE CleanConfig
  <2>1. CASE StopsWith(mem.rec)
    BY <1>0, <1>3, <2>1, CleanEffect, ShapedStop DEF disk
  <2>2. CASE /\ pc = "rm_config" /\ pc' = "rm_checkpoint" /\ RemovalStays({"now"}) /\ UNCHANGED disk
             /\ mem'.now = [mem.now EXCEPT !.entry = NoEntry]
    <3>1. mem'.rec = mem.rec /\ mem.now = mem.rec /\ mem.rec = AsJournal(Recovery) /\ Recovery' = Recovery
      BY <1>1, <2>2, RecoveryStays DEF RemovalStays, RemovalFields, RemovalShape
    <3>2. mem'.now # NoRec /\ mem'.now.id = mem.now.id /\ mem'.now.digest = mem.now.digest
      <4>1. mem'.now \in TransactionJournals
        BY <1>1, <2>2 DEF TypedRemoval, TransactionJournals, Entries
      <4>2. mem'.now.id = mem.now.id /\ mem'.now.digest = mem.now.digest
        BY <1>1, <2>2 DEF TypedRemoval, TransactionJournals
      <4> QED
        BY <4>1, <4>2, InstallAssumption
    <3>3. Usable(active', mem'.now)
      BY <1>1, <2>2, <3>2 DEF disk, RemovalShape, Usable, IsBound
    <3>4. RemovalShape'
      <4>1. Usable(active', mem'.rec) /\ mem'.rec = AsJournal(Recovery')
        BY <1>1, <2>2, <3>1 DEF disk, RemovalShape
      <4> QED
        BY <1>1, <2>2, <3>1, <3>3, <4>1 DEF RemovalShape, Dropped, AsJournal
    <3> QED
      BY <1>2, <2>2, <3>4, ShapedRemoval, RemovalPcs DEF disk
  <2> QED
    BY <1>3, <2>1, <2>2, CleanEffect
<1>4. CASE Checkpoint
  <2>1. CASE StopsWith(mem.now)
    BY <1>0, <1>4, <2>1, CheckpointEffect, ShapedStop
  <2>2. CASE pc' = "rm_roles" /\ conflicted' = mem.now /\ mem' = mem
    <3>1. pc = "rm_checkpoint" /\ UNCHANGED <<active, preparing>>
      BY <1>4, CheckpointEffect
    <3>2. RemovalShape'
      BY <1>1, <2>2, <3>1 DEF RemovalShape, Dropped
    <3> QED
      BY <1>1, <2>2, <3>1, <3>2, ShapedRemoval, RemovalPcs DEF RemovalShape
  <2> QED
    BY <1>4, <2>1, <2>2, CheckpointEffect
<1>5. CASE WriteConflict
  <2>1. pc' = "idle" /\ UNCHANGED active /\ conflicted' \in {conflicted, mem.now}
    BY <1>5, WriteConflictEffect
  <2> QED
    BY <1>1, <1>2, <2>1, ShapedIdle DEF RemovalShape
<1>6. CASE RemoveRole \/ RolesRemoved \/ RemovePlugin
  <2>1. CASE StopsWith(mem.now) /\ UNCHANGED disk
    BY <1>0, <2>1, ShapedStop DEF disk
  <2>2. CASE /\ UNCHANGED disk /\ mem'.rec = mem.rec /\ mem'.now = mem.now
             /\ <<pc, pc'>> \in {<<"rm_roles", "rm_roles">>, <<"rm_roles", "rm_plugins">>,
                                 <<"rm_plugins", "rm_plugins">>}
    <3>1. RemovalShape'
      BY <1>1, <2>2 DEF RemovalShape, Dropped, disk
    <3> QED
      BY <1>2, <2>2, <3>1, ShapedRemoval, RemovalPcs DEF disk
  <2> QED
    BY <1>6, <2>1, <2>2, RemoveRoleEffect, RolesRemovedEffect, RemovePluginEffect
       DEF RemovalStays, RemovalFields
<1>7. CASE DropActive \/ DropOptions
  <2>1. CASE StopsWith(mem.rec) /\ UNCHANGED <<active, conflicted>>
    BY <1>0, <2>1, ShapedStop
  <2>2. CASE /\ mem' = mem /\ UNCHANGED <<preparing, conflicted>> /\ active' = NoRec
             /\ <<pc, pc'>> \in {<<"rm_plugins", "rm_options">>, <<"rm_options", "rm_preparing">>}
    <3>1. RemovalShape'
      BY <1>1, <2>2 DEF RemovalShape, Dropped, Usable
    <3>2. conflicted' # NoRec => Usable(active', conflicted')
      BY <2>2 DEF Usable
    <3> QED
      BY <2>2, <3>1, <3>2, ShapedRemoval, RemovalPcs
  <2>3. pc = "rm_options" => active = NoRec
    BY <1>1 DEF RemovalShape, Dropped
  <2> QED
    BY <1>7, <2>1, <2>2, <2>3, DropEffect
<1>8. CASE DropJournals
  <2>1. CASE /\ pc = "rm_preparing" /\ pc' = "rm_conflicted" /\ UNCHANGED <<active, conflicted>>
             /\ RemovalStays({"preserved"})
             /\ preparing' = NoRec \/ (preparing' = preparing /\ mem'.preserved = TRUE)
    <3>1. mem'.rec = mem.rec /\ mem'.now = mem.now
      BY <2>1 DEF RemovalStays, RemovalFields
    <3>2. RemovalShape'
      BY <1>1, <2>1, <3>1 DEF RemovalShape, Dropped
    <3> QED
      BY <1>2, <2>1, <3>2, ShapedRemoval, RemovalPcs
  <2>2. CASE pc = "rm_conflicted" /\ UNCHANGED <<active, preparing>> /\ pc' = "rm_dirs" /\ mem' = mem
             /\ conflicted' = NoRec
    <3>1. RemovalShape'
      BY <1>1, <2>2 DEF RemovalShape, Dropped
    <3> QED
      BY <2>2, <3>1, ShapedRemoval, RemovalPcs
  <2>3. CASE pc' = "idle" /\ UNCHANGED <<active, conflicted>>
    BY <1>2, <2>3, ShapedIdle
  <2> QED
    BY <1>8, <2>1, <2>2, <2>3, DropJournalsEffect
<1>9. CASE RemoveDirectories
  <2>1. /\ pc = "rm_dirs" /\ UNCHANGED disk
        /\ pc' = "idle" \/ (pc' = "restart" /\ mem' = mem /\ ~mem.preserved)
    BY <1>9, DirectoriesEffect
  <2>2. pc' = "restart" => RemovalShape'
    BY <1>1, <2>1 DEF RemovalShape, Dropped, disk
  <2> QED
    BY <1>2, <2>1, <2>2, ShapedRemoval, ShapedIdle, RemovalPcs DEF disk
<1> QED
  BY <1>3, <1>4, <1>5, <1>6, <1>7, <1>8, <1>9 DEF Removal

(* A removal begins with what it will act on, in the form of a journal. *)
LEMMA ShapedBegin ==
    ASSUME Typed, NEW after, NEW accept, BeginRemoval(after, accept),
           conflicted # NoRec => Usable(active, conflicted)
    PROVE  Shaped'
<1>1. /\ Recovery # NoRec /\ pc' = "rm_config" /\ UNCHANGED disk
      /\ mem'.rec = AsJournal(Recovery) /\ mem'.now = AsJournal(Recovery)
  BY BeginEffect DEF Recovery
<1>2. AsJournal(Recovery) \in TransactionJournals /\ Usable(active, AsJournal(Recovery))
  <2>1. CASE Interrupted(active, preparing, conflicted) # NoRec
    <3>1. Recovery \in TransactionJournals /\ Usable(active, Recovery)
      BY <2>1 DEF Recovery, RecoveryState, Interrupted, Typed, TypedRecords
    <3> QED
      BY <3>1, JournalFormTyped
  <2>2. CASE Interrupted(active, preparing, conflicted) = NoRec
    <3>1. Recovery = active /\ active \in ActiveRecords
      BY <1>1, <2>2 DEF Recovery, RecoveryState, Typed, TypedRecords
    <3>2. AsJournal(active) \in TransactionJournals /\ AsJournal(active).digest = active
          /\ AsJournal(active).id = active.id
      BY <3>1, JournalFormTyped
    <3> QED
      BY <1>1, <3>1, <3>2, InstallAssumption DEF Usable, IsBound, DigestOf
  <2> QED
    BY <2>1, <2>2
<1>3. Recovery' = Recovery /\ active' = active /\ conflicted' = conflicted
  BY <1>1, RecoveryStays DEF disk
<1>4. RemovalShape'
  <2>1. mem'.rec = AsJournal(Recovery') /\ mem'.now = mem'.rec
    BY <1>1, <1>3
  <2>2. Usable(active', mem'.rec)
    BY <1>1, <1>2, <1>3
  <2> QED
    BY <1>1, <2>1, <2>2 DEF RemovalShape, AsJournal, Clean, Dropped
<1> QED
  BY <1>1, <1>3, <1>4, ShapedRemoval, RemovalPcs

LEMMA ShapedPreflight ==
    ASSUME Typed, NEW sel \in Selections, NEW decision, Preflight(sel, decision),
           preparing = NoRec, conflicted = NoRec
    PROVE  Shaped'
<1>1. /\ pc' = "journal" /\ UNCHANGED disk /\ mem'.prev = active /\ mem'.jr = FirstJournal(sel)
      /\ DOMAIN mem'.native = {} /\ mem'.recorded = FALSE /\ mem'.failed = FALSE
  BY DEF Preflight
<1>2. /\ FirstJournal(sel).digest = active /\ (active # NoRec => FirstJournal(sel).id = active.id)
      /\ FirstJournal(sel).entry = EntryOf(active)
      /\ FirstJournal(sel).owned = OwnedBy(active) /\ FirstJournal(sel).arts = ArtsOf(active)
  BY DEF FirstJournal, DigestOf, NoDigest
<1>3. InstallShape'
  BY <1>1, <1>2 DEF InstallShape, disk, Fresh, BeforePublish
<1> QED
  BY <1>1, <1>3, ShapedInstall, FreshPcs DEF disk

LEMMA ShapedCommands ==
    ASSUME IInv, Typed, Shaped, (\E sel \in Selections : StartInstall(sel)) \/ StartRemove \/ Restart
    PROVE  Shaped'
<1>0. conflicted # NoRec => Usable(active, conflicted)
  BY DEF Shaped
<1>1. CASE \E sel \in Selections : StartInstall(sel)
  <2>1. PICK sel \in Selections : StartInstall(sel)
    BY <1>1
  <2>2. CASE UNCHANGED <<disk, config, files, installed, pc, mem, notes>>
    BY <1>0, <2>1, <2>2, ShapedIdle DEF StartInstall, disk
  <2>3. CASE \E accept \in BOOLEAN : BeginRemoval(sel, accept)
    BY <1>0, <2>3, ShapedBegin
  <2>4. CASE /\ InstallMayStart(active, preparing, conflicted)
             /\ Interrupted(active, preparing, conflicted) = NoRec
             /\ \E decision \in {"replace", "keep"} : Preflight(sel, decision)
    BY <2>4, NoJournals, ShapedPreflight
  <2> QED
    BY <2>1, <2>2, <2>3, <2>4 DEF StartInstall
<1>2. CASE StartRemove
  BY <1>0, <1>2, ShapedBegin DEF StartRemove
<1>3. CASE Restart
  <2>1. pc = "restart" /\ pc \in Removing
    BY <1>3, RemovalPcs DEF Restart
  <2>2. preparing = NoRec /\ conflicted = NoRec
    BY <2>1, RemovalReady DEF RemovalShape
  <2>3. mem.after \in Selections
    BY <2>1 DEF IInv, RemovalInv
  <2> QED
    BY <1>3, <2>2, <2>3, ShapedPreflight DEF Restart
<1> QED
  BY <1>1, <1>2, <1>3

LEMMA ShapedSame ==
    ASSUME Shaped, UNCHANGED <<disk, pc, mem>>
    PROVE  Shaped'
BY RecoveryStays DEF Shaped, InstallShape, RemovalShape, SameAsJournal, disk

LEMMA NotesGrow ==
    ASSUME [Next]_vars
    PROVE  notes \subseteq notes'
<1>1. CASE UNCHANGED vars
  BY <1>1 DEF vars
<1>2. CASE Forward
  BY <1>2 DEF Forward, WriteFirstJournal, Write, Snapshot, ReadRoles, InstallRole, JournalRoles,
     JournalPlan, SetUpPlugins, AddPlugin, JournalOwnership, PublishConfig, JournalConfig, OmitPlugin,
     JournalOmission, Verify, PublishRecord, ClearJournal, Keep, Fault, FaultTearing
<1>3. CASE RollBack
  BY <1>3 DEF RollBack, RollBackRecord, RollBackConfig, RollBackRole, RollBackAdded, RollBackRemoved,
     RollBackEnd, ReportFailure, DropPreparing, Keep, Fault, FaultTearing
<1>4. CASE Removal
  BY <1>4 DEF Removal, CleanConfig, Checkpoint, WriteConflict, RemoveRole, RolesRemoved,
     RemovePlugin, DropActive, DropOptions, DropJournals, RemoveDirectories, Restart, Keep, Fault, FaultTearing
<1>5. CASE (\E sel \in Selections : StartInstall(sel)) \/ StartRemove
  BY <1>5 DEF StartInstall, StartRemove, BeginRemoval
<1>6. CASE User \/ NewRelease \/ Crash
  BY <1>6 DEF User, EditKey, EditFile, TogglePlugin, NewRelease, Crash
<1> QED
  BY <1>1, <1>2, <1>3, <1>4, <1>5, <1>6 DEF Next, Step

LEMMA ShapedNext ==
    ASSUME IInv, Typed, Shaped, [Next]_vars, Sane'
    PROVE  Shaped'
<1>1. CASE UNCHANGED vars
  BY <1>1, ShapedSame DEF vars, disk
<1>2. CASE Forward
  BY <1>2, ShapedForward
<1>3. CASE RollBack
  BY <1>3, ShapedRollBack
<1>4. CASE Removal
  BY <1>4, ShapedRemovalSteps, ShapedCommands
<1>5. CASE (\E sel \in Selections : StartInstall(sel)) \/ StartRemove
  BY <1>5, ShapedCommands
<1>6. CASE User \/ NewRelease
  <2>1. UNCHANGED <<disk, pc, mem>>
    BY <1>6 DEF User, EditKey, EditFile, TogglePlugin, NewRelease
  <2> QED
    BY <2>1, ShapedSame
<1>7. CASE Crash
  BY <1>7, ShapedIdle DEF Crash, Shaped, disk
<1> QED
  BY <1>1, <1>2, <1>3, <1>4, <1>5, <1>6, <1>7 DEF Next, Step

LEMMA ShapeNext == IInv /\ Typed /\ Shape /\ [Next]_vars => Shape'
<1> SUFFICES ASSUME IInv, Typed, Shape, [Next]_vars, Sane' PROVE Shaped'
  BY DEF Shape
<1>1. Sane
  BY NotesGrow DEF Sane
<1> QED
  BY <1>1, ShapedNext DEF Shape

LEMMA ShapeInit == Init => Shape
BY ShapedIdle, Pcs DEF Init, Shape, Shaped

(* What is told is held by the record a removal would act on.              *)
LEMMA InstallRecovery ==
    ASSUME IInv, Typed, Shaped, pc \in Fresh \cup Failing
    PROVE  \/ /\ active = mem.prev /\ preparing = NoRec /\ conflicted = NoRec /\ Recovery = active
              /\ pc = "journal"
           \/ /\ active = mem.prev /\ preparing # NoRec /\ conflicted = NoRec /\ Recovery = preparing
           \/ /\ active = mem.prev /\ preparing # NoRec /\ conflicted = mem.jr /\ Recovery = mem.jr
              /\ pc = "rb_clear"
           \/ /\ active # NoRec /\ SameAsJournal(active) /\ preparing # NoRec
              /\ SameAsJournal(preparing) /\ conflicted = NoRec /\ Recovery \in {active, preparing}
<1>1. InstallShape /\ mem.jr # NoRec /\ Usable(mem.prev, mem.jr)
  BY Ready
<1>2. CASE active = mem.prev /\ pc # "clear"
  <2>1. CASE preparing = NoRec
    <3>1. conflicted = NoRec /\ pc = "journal"
      BY <1>1, <2>1 DEF InstallShape
    <3> QED
      BY <1>2, <2>1, <3>1, RecoveryIs DEF Recovery
  <2>2. CASE preparing # NoRec
    <3>1. Usable(active, preparing)
      BY <1>1, <1>2, <2>2 DEF InstallShape, Usable, IsBound, DigestOf
    <3>2. CASE conflicted = NoRec
      BY <1>2, <2>2, <3>1, <3>2, RecoveryIs DEF Recovery
    <3>3. CASE pc = "rb_clear" /\ conflicted = mem.jr
      BY <1>1, <1>2, <2>2, <3>3, RecoveryIs DEF Recovery
    <3> QED
      BY <1>1, <3>2, <3>3 DEF InstallShape
  <2> QED
    BY <2>1, <2>2
<1>3. CASE /\ active # NoRec /\ SameAsJournal(active) /\ SameAsJournal(preparing)
           /\ pc \in {"clear", "rb_record"}
  <2>1. preparing # NoRec /\ conflicted = NoRec
    BY <1>1, <1>3 DEF InstallShape
  <2>2. Recovery \in {active, preparing}
    BY <2>1 DEF Recovery, RecoveryState, Interrupted
  <2> QED
    BY <1>3, <2>1, <2>2
<1> QED
  BY <1>1, <1>2, <1>3 DEF InstallShape

(***************************************************************************)
(* Each plugin.                                                            *)
(***************************************************************************)
LEMMA PluginInstalling ==
    ASSUME NEW p, pc' \in Fresh \cup Failing, PluginInstall(p)'
    PROVE  PluginOk(p)'
BY Pcs DEF PluginOk

LEMMA PluginAtRest ==
    ASSUME NEW p, pc' = "idle", PluginHeld(p)'
    PROVE  PluginOk(p)'
BY Pcs DEF PluginOk

LEMMA PluginRemoving ==
    ASSUME NEW p, pc' \in Removing, PluginRemoval(p)'
    PROVE  PluginOk(p)'
BY Pcs DEF PluginOk

LEMMA PluginRecovered ==
    ASSUME IInv, Typed, Shaped, pc \in Fresh \cup Failing, NEW p, PluginInstall(p), p \notin mine.plugins,
           PluginTold(p)
    PROVE  PluginHeld(p)
<1> SUFFICES ASSUME p \in installed PROVE p \in OwnedBy(Recovery)
  BY DEF PluginHeld
<1>1. /\ p \in mem.jr.owned /\ mem.jr # NoRec
      /\ preparing # NoRec /\ Found(p) => p \in preparing.owned
  BY Ready DEF PluginInstall
<1>2. PICK rec \in Records : p \in rec.owned
  BY DEF PluginTold
<1>3. rec # NoRec /\ rec \in {active, preparing, conflicted}
  BY <1>2 DEF Records
<1>4. CASE /\ active = mem.prev /\ preparing = NoRec /\ conflicted = NoRec /\ Recovery = active
  BY <1>2, <1>3, <1>4 DEF OwnedBy
<1>5. CASE /\ active = mem.prev /\ preparing # NoRec /\ conflicted = NoRec /\ Recovery = preparing
  BY <1>1, <1>2, <1>3, <1>5 DEF OwnedBy, Found
<1>6. CASE Recovery = mem.jr
  BY <1>1, <1>6 DEF OwnedBy
<1>7. CASE /\ active # NoRec /\ SameAsJournal(active) /\ preparing # NoRec
           /\ SameAsJournal(preparing) /\ Recovery \in {active, preparing}
  BY <1>1, <1>7 DEF OwnedBy, SameAsJournal
<1> QED
  BY <1>4, <1>5, <1>6, <1>7, InstallRecovery

LEMMA PluginQuiet ==
    ASSUME IInv, Typed, Shaped, NEW p, PluginOk(p), pc \in Fresh \cup Failing, pc' \in Fresh \cup Failing,
           installed' = installed, mem'.prev = mem.prev, mem'.jr.owned = mem.jr.owned,
           mem'.gone = mem.gone, mem'.added = mem.added, mem'.unsure = mem.unsure,
           mem'.failed \in {mem.failed, TRUE}, preparing' \in {preparing, mem'.jr},
           pc' \in {"omit", "unown"} => mem'.todo \subseteq OwnedBy(mem.prev),
           pc' \in BeforePublish => pc \in BeforePublish, pc' \notin {"rb_end", "rb_clear"}, pc # "rb_clear"
    PROVE  PluginOk(p)'
<1>1. PluginInstall(p)
  BY DEF PluginOk
<1>2. PluginInstall(p)'
  BY <1>1 DEF PluginInstall, Found
<1> QED
  BY <1>2, PluginInstalling

LEMMA PluginForward ==
    ASSUME IInv, Typed, Shaped, NEW p \in Plugins, PluginOk(p), Forward
    PROVE  PluginOk(p)'
<1> USE DEF Fresh, Failing, BeforePublish
<1>0. pc \in Fresh
  BY DEF Forward, WriteFirstJournal, Snapshot, ReadRoles, InstallRole, JournalRoles, JournalPlan,
     SetUpPlugins, AddPlugin, JournalOwnership, PublishConfig, JournalConfig, OmitPlugin,
     JournalOmission, Verify, PublishRecord, ClearJournal
<1>1. /\ InstallShape /\ TypedInstall(mem) /\ mem.jr \in TransactionJournals /\ mem.jr # NoRec
      /\ PluginInstall(p) /\ conflicted = NoRec /\ Usable(mem.prev, mem.jr)
  BY <1>0, Ready DEF InstallShape, PluginOk
<1>2. CASE WriteFirstJournal
  <2>1. /\ pc = "journal" /\ UNCHANGED <<active, conflicted, installed>>
        /\ \/ pc' = "snapshot" /\ mem' = mem /\ preparing' = mem.jr
           \/ pc' = "idle" /\ preparing' \in {preparing, mem.jr}
    BY <1>2, WriteFirstEffect
  <2>2. CASE pc' = "snapshot"
    BY <1>0, <2>1, <2>2, PluginQuiet
  <2>3. CASE pc' = "idle"
    <3>1. active = mem.prev /\ preparing = NoRec /\ mem.jr.owned = OwnedBy(mem.prev)
      BY <1>1, <2>1 DEF InstallShape
    <3>2. Recovery' = mem.jr \/ Recovery' = mem.prev
      BY <1>1, <2>1, <2>3, <3>1, RecoveryIs DEF Recovery
    <3>3. PluginHeld(p)'
      BY <1>1, <2>1, <3>1, <3>2 DEF PluginHeld, PluginInstall, OwnedBy
    <3> QED
      BY <2>3, <3>3, PluginAtRest
  <2> QED
    BY <2>1, <2>2, <2>3
<1>3. CASE JournalRoles \/ JournalPlan \/ JournalOwnership \/ JournalConfig \/ JournalOmission
  <2>1. /\ pc \in {"roles", "plan", "own", "published", "unown"} /\ UNCHANGED installed
        /\ preparing' \in {preparing, mem'.jr}
        /\ \/ pc' = "rb_record"
           \/ <<pc, pc'>> \in {<<"roles", "plan">>, <<"plan", "setup">>, <<"own", "plugins">>,
                                <<"published", "omit">>, <<"unown", "omit">>}
        /\ mem'.todo = IF pc = "published" THEN OwnedBy(mem.prev) \ Wanted(mem.sel) ELSE mem.todo
    BY <1>3, WriteEffect
  <2>2. /\ mem'.prev = mem.prev /\ mem'.failed = mem.failed /\ mem'.jr.owned = mem.jr.owned
        /\ mem'.gone = mem.gone /\ mem'.added = mem.added /\ mem'.unsure = mem.unsure
    BY <1>3, WriteEffect DEF Stays, InstallFields, JournalStays, JournalFields, RecordFields
  <2>3. pc' \in {"omit", "unown"} => mem'.todo \subseteq OwnedBy(mem.prev)
    BY <1>1, <2>1 DEF PluginInstall
  <2> QED
    BY <1>0, <2>1, <2>2, <2>3, PluginQuiet
<1>4. CASE Snapshot \/ ReadRoles \/ SetUpPlugins \/ InstallRole \/ Verify
  <2>1. /\ UNCHANGED <<preparing, installed>> /\ mem'.prev = mem.prev /\ mem'.failed = mem.failed
        /\ mem'.jr.owned = mem.jr.owned
        /\ mem'.gone = mem.gone /\ mem'.added = mem.added /\ mem'.unsure = mem.unsure
        /\ <<pc, pc'>> \in {<<"snapshot", "read">>, <<"snapshot", "rb_record">>, <<"read", "roles">>,
                <<"read", "rb_record">>, <<"setup", "plugins">>, <<"setup", "rb_record">>,
                <<"roles", "roles">>, <<"roles", "rb_record">>, <<"omit", "record">>,
                <<"omit", "rb_record">>}
    BY <1>4, SnapshotEffect, ReadEffect, SetUpEffect, RoleEffect, VerifyEffect
       DEF Stays, InstallFields, disk, RoleOutcome, JournalStays, JournalFields, RecordFields
  <2> QED
    BY <1>0, <2>1, PluginQuiet
<1>5. CASE PublishConfig
  <2>1. /\ UNCHANGED <<preparing, installed>> /\ pc = "plugins" /\ pc' \in {"published", "rb_record"}
        /\ mem'.prev = mem.prev /\ mem'.failed = mem.failed /\ mem'.jr.owned = mem.jr.owned
        /\ mem'.gone = mem.gone /\ mem'.added = mem.added /\ mem'.unsure = mem.unsure
    BY <1>5, PublishEffect DEF Stays, InstallFields, disk, JournalStays, JournalFields, RecordFields
  <2> QED
    BY <1>0, <2>1, PluginQuiet
<1>6. CASE PublishRecord
  <2>1. UNCHANGED <<preparing, installed>> /\ mem' = mem /\ pc' \in {"clear", "rb_record"}
    BY <1>6, PublishRecordEffect
  <2>2. mem.failed \in {mem.failed, TRUE}
    OBVIOUS
  <2> QED
    BY <1>0, <2>1, <2>2, PluginQuiet
<1>7. CASE AddPlugin
  <2>1. pc = "plugins" /\ UNCHANGED disk
    BY <1>7, AddEffect
  <2>2. PICK q \in mem.todo :
            \/ /\ pc' = "plugins" /\ installed' = installed /\ Stays({"todo"})
               /\ mem'.todo = mem.todo \ {q}
            \/ pc' = "rb_record" /\ mem' = mem /\ installed' = installed
            \/ /\ pc' = "own" /\ installed' \in {installed, installed \cup {q}}
               /\ Stays({"todo", "jr", "added", "unsure", "failing"}) /\ JournalStays({"owned"})
               /\ mem'.todo = mem.todo \ {q} /\ mem'.jr \in TransactionJournals
               /\ mem'.jr.owned = mem.jr.owned \cup {q}
               /\ mem.added \subseteq mem'.added /\ mem'.added \subseteq mem.added \cup {q}
               /\ mem.unsure \subseteq mem'.unsure /\ q \in mem'.added \cup mem'.unsure
    BY <1>7, AddEffect
  <2>3. CASE pc' # "own"
    <3>1. /\ UNCHANGED <<preparing, installed>> /\ pc' \in {"plugins", "rb_record"}
          /\ mem'.prev = mem.prev /\ mem'.failed = mem.failed /\ mem'.jr.owned = mem.jr.owned
          /\ mem'.gone = mem.gone /\ mem'.added = mem.added /\ mem'.unsure = mem.unsure
      BY <2>1, <2>2, <2>3 DEF Stays, InstallFields, disk
    <3> QED
      BY <1>0, <2>1, <3>1, PluginQuiet
  <2>4. CASE pc' = "own"
    <3>1. /\ mem'.prev = mem.prev /\ mem'.gone = mem.gone
          /\ mem'.jr.owned = mem.jr.owned \cup {q} /\ installed' \subseteq installed \cup {q}
          /\ mem.added \cup mem.unsure \cup {q} \subseteq mem'.added \cup mem'.unsure
          /\ mem'.failed = mem.failed
      BY <2>2, <2>4 DEF Stays, InstallFields
    <3>2. preparing' = preparing /\ preparing # NoRec
      BY <1>1, <2>1 DEF disk, InstallShape
    <3>3. PluginInstall(p)'
      BY <1>1, <2>1, <2>4, <3>1, <3>2 DEF PluginInstall, Found
    <3> QED
      BY <2>4, <3>3, PluginInstalling
  <2> QED
    BY <2>3, <2>4
<1>8. CASE OmitPlugin
  <2>1. /\ pc = "omit" /\ pc' = "unown" /\ UNCHANGED disk
        /\ mem'.prev = mem.prev /\ mem'.added = mem.added /\ mem'.unsure = mem.unsure
        /\ mem'.failed = mem.failed
    BY <1>8, OmitEffect DEF Stays, InstallFields
  <2>2. PICK q \in mem.todo :
            /\ mem'.todo \in {mem.todo, mem.todo \ {q}}
            /\ mem.gone \subseteq mem'.gone /\ mem'.gone \subseteq mem.gone \cup {q}
            /\ \/ installed' = installed \ {q} /\ mem'.jr.owned \in {mem.jr.owned, mem.jr.owned \ {q}}
               \/ installed' = installed /\ mem'.jr.owned = mem.jr.owned
    BY <1>8, OmitEffect
  <2>3. PluginInstall(p)'
    BY <1>1, <2>1, <2>2 DEF PluginInstall, Found, disk
  <2> QED
    BY <2>1, <2>3, PluginInstalling
<1>9. CASE ClearJournal
  <2>1. /\ pc = "clear" /\ UNCHANGED <<active, installed>>
        /\ \/ pc' = "idle" /\ preparing' = NoRec /\ conflicted' = NoRec
           \/ pc' = "rb_record" /\ mem' = mem /\ UNCHANGED preparing
    BY <1>9, ClearEffect
  <2>2. CASE pc' = "rb_record"
    <3>1. mem.failed \in {mem.failed, TRUE} /\ mem' = mem
      BY <2>1, <2>2
    <3> QED
      BY <1>0, <2>1, <2>2, <3>1, PluginQuiet
  <2>3. CASE pc' = "idle"
    <3>1. Recovery' = active /\ active # NoRec /\ active.owned = mem.jr.owned
      BY <1>1, <2>1, <2>3, RecoveryIs DEF Recovery, InstallShape, SameAsJournal
    <3>2. PluginHeld(p)'
      BY <1>1, <2>1, <3>1 DEF PluginHeld, PluginInstall, OwnedBy
    <3> QED
      BY <2>3, <3>2, PluginAtRest
  <2> QED
    BY <2>1, <2>2, <2>3
<1> QED
  BY <1>2, <1>3, <1>4, <1>5, <1>6, <1>7, <1>8, <1>9 DEF Forward

LEMMA PluginRollBack ==
    ASSUME IInv, Typed, Shaped, NEW p \in Plugins, p \notin mine.plugins, PluginOk(p), RollBack,
           p \notin notes'
    PROVE  PluginOk(p)'
<1> USE DEF Fresh, Failing, BeforePublish
<1>0. pc \in Failing
  BY DEF RollBack, RollBackRecord, RollBackConfig, RollBackRole, RollBackAdded, RollBackRemoved,
     RollBackEnd, ReportFailure, DropPreparing
<1>1. /\ InstallShape /\ TypedInstall(mem) /\ mem.jr \in TransactionJournals /\ mem.jr # NoRec
      /\ PluginInstall(p) /\ Usable(mem.prev, mem.jr)
  BY <1>0, Ready DEF PluginOk
<1>2. CASE RollBackRecord \/ RollBackConfig \/ RollBackRole
  <2>1. /\ UNCHANGED <<preparing, installed>> /\ mem'.prev = mem.prev /\ mem'.jr = mem.jr
        /\ mem'.gone = mem.gone /\ mem'.added = mem.added /\ mem'.unsure = mem.unsure
        /\ mem'.failed \in {mem.failed, TRUE} /\ pc' \in {"rb_config", "rb_roles"}
        /\ pc \in {"rb_record", "rb_config", "rb_roles"}
    BY <1>2, RollBackRecordEffect, RollBackConfigEffect, RollBackRoleEffect
       DEF Stays, InstallFields, disk
  <2> QED
    BY <1>0, <2>1, PluginQuiet
<1>3. CASE RollBackAdded
  <2>1. /\ pc = "rb_roles" /\ pc' = "rb_roles" /\ UNCHANGED disk
        /\ mem'.prev = mem.prev /\ mem'.jr = mem.jr /\ mem'.gone = mem.gone /\ mem'.unsure = mem.unsure
        /\ mem'.failed \in {mem.failed, TRUE}
    BY <1>3, RollBackAddedEffect DEF Stays, InstallFields
  <2>2. PICK q \in mem.added :
            /\ mem'.added = mem.added \ {q}
            /\ \/ installed' = installed \ {q}
               \/ installed' = installed /\ mem'.failed = TRUE
    BY <1>3, RollBackAddedEffect
  <2>3. PluginInstall(p)'
    BY <1>1, <2>1, <2>2 DEF PluginInstall, Found, disk
  <2> QED
    BY <2>1, <2>3, PluginInstalling
<1>4. CASE RollBackRemoved
  <2>1. /\ pc = "rb_roles" /\ pc' = "rb_roles" /\ preparing' = mem'.jr /\ mem.added = {}
        /\ mem'.prev = mem.prev /\ mem'.added = mem.added /\ mem'.unsure = mem.unsure
        /\ mem'.failed \in {mem.failed, TRUE}
    BY <1>4, RollBackRemovedEffect DEF Stays, InstallFields
  <2>2. PICK q \in mem.gone :
            /\ mem'.gone = mem.gone \ {q} /\ mem'.jr.owned = mem.jr.owned \cup {q}
            /\ installed' \in {installed, installed \cup {q}}
    BY <1>4, RollBackRemovedEffect
  <2>3. PluginInstall(p)'
    BY <1>1, <2>1, <2>2 DEF PluginInstall, Found
  <2> QED
    BY <2>1, <2>3, PluginInstalling
<1>5. CASE RollBackEnd
  <2>1. /\ pc = "rb_roles" /\ pc' = "rb_end" /\ UNCHANGED <<disk, installed>> /\ mem.added = {}
        /\ mem'.failed = (mem.failed \/ mem.unsure # {})
        /\ mem'.prev = mem.prev /\ mem'.added = mem.added /\ mem'.unsure = mem.unsure
        /\ mem'.gone = mem.gone /\ mem'.jr.owned = mem.jr.owned
    BY <1>5, RollBackEndEffect DEF Stays, InstallFields, JournalStays, JournalFields, RecordFields
  <2>2. PluginInstall(p)'
    BY <1>1, <2>1 DEF PluginInstall, Found, disk
  <2> QED
    BY <2>1, <2>2, PluginInstalling
<1>6. CASE ReportFailure
  <2>1. /\ pc = "rb_end" /\ UNCHANGED <<active, preparing, installed>> /\ active = mem.prev
        /\ \/ mem.failed /\ pc' = "rb_clear" /\ mem' = mem /\ conflicted' = mem.jr
           \/ mem.failed /\ pc' = "idle" /\ conflicted' = mem.jr
           \/ pc' = "idle" /\ conflicted' = conflicted /\ Leaked \subseteq notes'
           \/ ~mem.failed /\ pc' = "rb_clear" /\ mem' = mem /\ conflicted' = conflicted
    BY <1>1, <1>6, ReportEffect DEF InstallShape
  <2>2. CASE pc' = "rb_clear"
    <3>1. PluginInstall(p)'
      BY <1>1, <2>1, <2>2 DEF PluginInstall, Found
    <3> QED
      BY <2>2, <3>1, PluginInstalling
  <2>3. CASE pc' = "idle" /\ conflicted' = mem.jr
    <3>1. Recovery' = mem.jr
      BY <1>1, <2>1, <2>3, RecoveryIs DEF Recovery
    <3>2. PluginHeld(p)'
      BY <1>1, <2>1, <3>1 DEF PluginHeld, PluginInstall, OwnedBy
    <3> QED
      BY <2>3, <3>2, PluginAtRest
  <2>4. CASE pc' = "idle" /\ conflicted' = conflicted /\ Leaked \subseteq notes'
    <3>1. Recovery' = Recovery
      BY <2>1, <2>4, RecoveryStays DEF disk
    <3>2. p \in installed => PluginTold(p)
      BY <2>4 DEF Leaked
    <3>3. PluginHeld(p)
      BY <1>0, <1>1, <3>2, PluginRecovered DEF PluginHeld
    <3>4. PluginHeld(p)'
      BY <2>1, <3>1, <3>3 DEF PluginHeld
    <3> QED
      BY <2>4, <3>4, PluginAtRest
  <2> QED
    BY <2>1, <2>2, <2>3, <2>4
<1>7. CASE DropPreparing
  <2>1. /\ pc = "rb_clear" /\ pc' = "idle" /\ UNCHANGED <<active, conflicted, installed>>
        /\ preparing' \in {NoRec, preparing} /\ active = mem.prev /\ preparing # NoRec
        /\ conflicted = NoRec \/ conflicted = mem.jr
    BY <1>1, <1>7, DropPreparingEffect DEF InstallShape
  <2>2. CASE conflicted = mem.jr
    <3>1. Recovery' = mem.jr
      BY <1>1, <2>1, <2>2, RecoveryIs DEF Recovery
    <3>2. PluginHeld(p)'
      BY <1>1, <2>1, <3>1 DEF PluginHeld, PluginInstall, OwnedBy
    <3> QED
      BY <2>1, <3>2, PluginAtRest
  <2>3. CASE conflicted = NoRec
    <3>1. Usable(active, preparing)
      BY <1>1, <2>1, <2>3 DEF InstallShape, Usable, IsBound, DigestOf
    <3>2. Recovery' = mem.prev \/ Recovery' = preparing
      BY <2>1, <2>3, <3>1, RecoveryIs DEF Recovery
    <3>3. p \in installed => Found(p) /\ p \in preparing.owned
      BY <1>1, <2>1, <2>3 DEF PluginInstall
    <3>4. PluginHeld(p)'
      BY <2>1, <3>2, <3>3 DEF PluginHeld, OwnedBy, Found
    <3> QED
      BY <2>1, <3>4, PluginAtRest
  <2> QED
    BY <2>1, <2>2, <2>3
<1> QED
  BY <1>2, <1>3, <1>4, <1>5, <1>6, <1>7 DEF RollBack

(* A removal. *)
LEMMA RemovalRecovery ==
    ASSUME IInv, Typed, Shaped, pc \in Removing, UNCHANGED <<active, preparing>>,
           conflicted' \in {conflicted, mem.now}
    PROVE  Recovery' \in {Recovery, mem.now}
<1>1. Usable(active, mem.now)
  BY RemovalReady DEF RemovalShape
<1> QED
  BY <1>1, RecoveryIs, RecoveryStays DEF Recovery, disk

LEMMA PluginStop ==
    ASSUME IInv, Typed, Shaped, pc \in Removing, NEW p, PluginOk(p), pc' = "idle" \/ StopsWith(mem.rec)
               \/ StopsWith(mem.now),
           UNCHANGED <<active, preparing>>, conflicted' \in {conflicted, mem.now},
           installed' \subseteq installed
    PROVE  PluginOk(p)'
<1>1. PluginRemoval(p) /\ mem.now # NoRec /\ mem.now.owned = mem.rec.owned
  BY RemovalReady DEF PluginOk
<1>2. PluginHeld(p)'
  BY <1>1, RemovalRecovery DEF PluginRemoval, PluginHeld, OwnedBy
<1>3. CASE pc' = "idle"
  BY <1>2, <1>3, PluginAtRest
<1>4. CASE StopsWith(mem.rec) \/ StopsWith(mem.now)
  <2>1. pc' = "rm_stop" /\ mem'.rec = mem.rec
    BY <1>4 DEF StopsWith, RemovalStays, RemovalFields
  <2>2. PluginRemoval(p)'
    BY <1>1, <1>2, <2>1 DEF PluginRemoval, Dropped
  <2> QED
    BY <2>1, <2>2, PluginRemoving, RemovalPcs
<1> QED
  BY <1>3, <1>4

LEMMA PluginRemovalSteps ==
    ASSUME IInv, Typed, Shaped, NEW p \in Plugins, PluginOk(p), Removal, ~Restart
    PROVE  PluginOk(p)'
<1>0. pc \in Removing
  BY RemovalPcs DEF Removal, CleanConfig, Checkpoint, WriteConflict, RemoveRole, RolesRemoved,
     RemovePlugin, DropActive, DropOptions, DropJournals, RemoveDirectories
<1>1. /\ PluginRemoval(p) /\ RemovalShape /\ mem.now # NoRec /\ mem.now.owned = mem.rec.owned
  BY <1>0, RemovalReady DEF PluginOk
<1>2. CASE CleanConfig
  <2>1. CASE StopsWith(mem.rec)
    BY <1>0, <1>2, <2>1, CleanEffect, PluginStop DEF disk
  <2>2. CASE pc' = "rm_checkpoint" /\ RemovalStays({"now"})
    <3>1. /\ pc = "rm_config" /\ UNCHANGED <<disk, installed>>
          /\ mem'.rec = mem.rec /\ mem'.todo = mem.todo
      BY <1>2, <2>2, CleanEffect DEF RemovalStays, RemovalFields
    <3>2. PluginRemoval(p)'
      BY <1>1, <2>2, <3>1, RecoveryStays DEF PluginRemoval, PluginHeld, Dropped
    <3> QED
      BY <2>2, <3>2, PluginRemoving, RemovalPcs
  <2> QED
    BY <1>2, <2>1, <2>2, CleanEffect
<1>3. CASE Checkpoint
  <2>1. CASE StopsWith(mem.now)
    BY <1>0, <1>3, <2>1, CheckpointEffect, PluginStop
  <2>2. CASE pc' = "rm_roles" /\ conflicted' = mem.now /\ mem' = mem
    <3>1. pc = "rm_checkpoint" /\ UNCHANGED <<active, preparing, installed>>
      BY <1>3, CheckpointEffect
    <3>2. Recovery' \in {Recovery, mem.now}
      BY <1>0, <2>2, <3>1, RemovalRecovery
    <3>3. PluginRemoval(p)'
      BY <1>1, <2>2, <3>1, <3>2 DEF PluginRemoval, PluginHeld, OwnedBy, Dropped
    <3> QED
      BY <2>2, <3>3, PluginRemoving, RemovalPcs
  <2> QED
    BY <1>3, <2>1, <2>2, CheckpointEffect
<1>4. CASE WriteConflict
  BY <1>0, <1>4, WriteConflictEffect, PluginStop
<1>5. CASE RemoveRole \/ RolesRemoved
  <2>1. /\ pc = "rm_roles" /\ UNCHANGED <<disk, installed>>
        /\ \/ /\ pc' \in {"rm_roles", "rm_plugins"} /\ mem'.rec = mem.rec /\ mem'.todo = mem.todo
           \/ StopsWith(mem.now)
    BY <1>5, RemoveRoleEffect, RolesRemovedEffect DEF RemovalStays, RemovalFields
  <2>2. CASE StopsWith(mem.now)
    BY <1>0, <2>1, <2>2, PluginStop DEF disk
  <2>3. CASE pc' \in {"rm_roles", "rm_plugins"} /\ mem'.rec = mem.rec /\ mem'.todo = mem.todo
    <3>1. PluginRemoval(p)'
      BY <1>1, <2>1, <2>3, RecoveryStays DEF PluginRemoval, PluginHeld, Dropped
    <3> QED
      BY <2>3, <3>1, PluginRemoving, RemovalPcs
  <2> QED
    BY <2>1, <2>2, <2>3
<1>6. CASE RemovePlugin
  <2>1. /\ pc = "rm_plugins" /\ UNCHANGED disk
    BY <1>6, RemovePluginEffect
  <2>2. PICK q \in mem.todo :
            \/ /\ pc' = "rm_plugins" /\ installed' = installed \ {q} /\ RemovalStays({"todo"})
               /\ mem'.todo = mem.todo \ {q}
            \/ StopsWith(mem.now) /\ installed' \in {installed, installed \ {q}}
    BY <1>6, RemovePluginEffect
  <2>3. CASE StopsWith(mem.now) /\ installed' \in {installed, installed \ {q}}
    BY <1>0, <2>1, <2>3, PluginStop DEF disk
  <2>4. CASE /\ pc' = "rm_plugins" /\ installed' = installed \ {q} /\ RemovalStays({"todo"})
             /\ mem'.todo = mem.todo \ {q}
    <3>1. mem'.rec = mem.rec
      BY <2>4 DEF RemovalStays, RemovalFields
    <3>2. PluginRemoval(p)'
      BY <1>1, <2>1, <2>4, <3>1, RecoveryStays DEF PluginRemoval, PluginHeld, Dropped
    <3> QED
      BY <2>4, <3>2, PluginRemoving, RemovalPcs
  <2> QED
    BY <2>2, <2>3, <2>4
<1>7. CASE DropActive \/ DropOptions
  <2>1. UNCHANGED <<preparing, conflicted, installed>>
    BY <1>7, DropEffect
  <2>2. CASE StopsWith(mem.rec) /\ UNCHANGED active
    BY <1>0, <2>1, <2>2, PluginStop
  <2>3. CASE /\ mem' = mem /\ pc' \in {"rm_options", "rm_preparing"}
             /\ (pc = "rm_plugins" /\ mem.todo = {}) \/ pc = "rm_options"
    <3>1. p \notin installed
      BY <1>1, <2>3 DEF PluginRemoval, Dropped
    <3>2. PluginRemoval(p)'
      BY <2>1, <2>3, <3>1 DEF PluginRemoval, PluginHeld
    <3> QED
      BY <2>3, <3>2, PluginRemoving, RemovalPcs
  <2> QED
    BY <1>7, <2>2, <2>3, DropEffect
<1>8. CASE DropJournals \/ RemoveDirectories
  <2>1. /\ pc \in {"rm_preparing", "rm_conflicted", "rm_dirs"} /\ UNCHANGED installed
        /\ pc' \in {"rm_conflicted", "rm_dirs", "restart", "idle"}
    BY <1>8, DropJournalsEffect, DirectoriesEffect
  <2>2. p \notin installed'
    BY <1>1, <2>1 DEF PluginRemoval, Dropped
  <2>3. PluginRemoval(p)' /\ PluginHeld(p)'
    BY <2>2 DEF PluginRemoval, PluginHeld
  <2> QED
    BY <2>1, <2>3, PluginRemoving, PluginAtRest, RemovalPcs
<1> QED
  BY <1>2, <1>3, <1>4, <1>5, <1>6, <1>7, <1>8 DEF Removal

(* A command begins. *)
LEMMA PluginBegin ==
    ASSUME Typed, NEW p \in Plugins, PluginHeld(p), NEW after, NEW accept, BeginRemoval(after, accept)
    PROVE  PluginOk(p)'
<1>1. /\ pc' = "rm_config" /\ UNCHANGED <<disk, installed>> /\ Recovery # NoRec
      /\ mem'.rec = AsJournal(Recovery) /\ mem'.todo = Recovery.owned
  BY BeginEffect DEF Recovery
<1>2. AsJournal(Recovery).owned = Recovery.owned
  BY <1>1, RecoveryTyped, JournalFormTyped DEF Recovery, Typed
<1>3. PluginRemoval(p)'
  BY <1>1, <1>2, RecoveryStays DEF PluginRemoval, PluginHeld, OwnedBy, Dropped
<1> QED
  BY <1>1, <1>3, PluginRemoving, RemovalPcs

LEMMA PluginPreflight ==
    ASSUME Typed, NEW p \in Plugins, p \in installed => p \in OwnedBy(active),
           NEW sel \in Selections, NEW decision, Preflight(sel, decision),
           preparing = NoRec, conflicted = NoRec
    PROVE  PluginOk(p)'
<1>1. /\ pc' = "journal" /\ UNCHANGED <<disk, installed>> /\ mem'.prev = active
      /\ mem'.jr = FirstJournal(sel) /\ mem'.gone = {}
  BY DEF Preflight
<1>2. FirstJournal(sel).owned = OwnedBy(active)
  BY DEF FirstJournal
<1>3. PluginInstall(p)'
  BY <1>1, <1>2 DEF PluginInstall, Found, disk
<1> QED
  BY <1>1, <1>3, PluginInstalling, FreshPcs

LEMMA PluginCommands ==
    ASSUME IInv, Typed, Shaped, NEW p \in Plugins, PluginOk(p),
           (\E sel \in Selections : StartInstall(sel)) \/ StartRemove \/ Restart
    PROVE  PluginOk(p)'
<1>1. CASE \E sel \in Selections : StartInstall(sel)
  <2>1. PICK sel \in Selections : StartInstall(sel)
    BY <1>1
  <2>2. PluginHeld(p) /\ pc = "idle"
    BY <2>1 DEF StartInstall, PluginOk
  <2>3. CASE UNCHANGED <<disk, config, files, installed, pc, mem, notes>>
    <3>1. PluginHeld(p)' /\ pc' = "idle"
      BY <2>2, <2>3, RecoveryStays DEF PluginHeld
    <3> QED
      BY <3>1, PluginAtRest
  <2>4. CASE \E accept \in BOOLEAN : BeginRemoval(sel, accept)
    BY <2>2, <2>4, PluginBegin
  <2>5. CASE /\ InstallMayStart(active, preparing, conflicted)
             /\ Interrupted(active, preparing, conflicted) = NoRec
             /\ \E decision \in {"replace", "keep"} : Preflight(sel, decision)
    <3>1. preparing = NoRec /\ conflicted = NoRec
      BY <2>5, NoJournals
    <3>2. Recovery = active
      BY <3>1, RecoveryIs DEF Recovery
    <3> QED
      BY <2>2, <2>5, <3>1, <3>2, PluginPreflight DEF PluginHeld
  <2> QED
    BY <2>1, <2>3, <2>4, <2>5 DEF StartInstall
<1>2. CASE StartRemove
  BY <1>2, PluginBegin DEF StartRemove, PluginOk
<1>3. CASE Restart
  <2>1. pc = "restart" /\ pc \in Removing
    BY <1>3, RemovalPcs DEF Restart
  <2>2. preparing = NoRec /\ conflicted = NoRec
    BY <2>1, RemovalReady DEF RemovalShape
  <2>3. mem.after \in Selections
    BY <2>1 DEF IInv, RemovalInv
  <2>4. p \notin installed
    BY <2>1 DEF PluginOk, PluginRemoval, Dropped
  <2> QED
    BY <1>3, <2>2, <2>3, <2>4, PluginPreflight DEF Restart
<1> QED
  BY <1>1, <1>2, <1>3

LEMMA PluginShrinks ==
    ASSUME NEW p, PluginOk(p), UNCHANGED <<disk, pc, mem>>, p \in installed' => p \in installed
    PROVE  PluginOk(p)'
BY RecoveryStays DEF PluginOk, PluginHeld, PluginInstall, PluginRemoval, Found, disk

LEMMA PluginCrash ==
    ASSUME IInv, Typed, Shaped, NEW p \in Plugins, p \notin mine.plugins, PluginOk(p), Crash, p \notin notes'
    PROVE  PluginOk(p)'
<1>1. pc' = "idle" /\ UNCHANGED <<disk, installed>> /\ Leaked \subseteq notes'
  BY DEF Crash
<1>2. p \in installed => PluginTold(p)
  BY <1>1 DEF Leaked
<1>3. PluginHeld(p)
  <2>1. CASE pc \in Fresh \cup Failing
    BY <1>2, <2>1, PluginRecovered DEF PluginOk, PluginHeld
  <2>2. CASE pc \in Removing \/ pc = "idle"
    BY <2>2 DEF PluginOk, PluginRemoval
  <2> QED
    BY <2>1, <2>2 DEF IInv
<1>4. PluginHeld(p)'
  BY <1>1, <1>3, RecoveryStays DEF PluginHeld
<1> QED
  BY <1>1, <1>4, PluginAtRest

LEMMA MineStays ==
    ASSUME [Next]_vars
    PROVE  mine' = mine
<1>1. CASE UNCHANGED vars
  BY <1>1 DEF vars
<1>2. CASE Forward
  BY <1>2 DEF Forward, WriteFirstJournal, Write, Snapshot, ReadRoles, InstallRole, JournalRoles,
     JournalPlan, SetUpPlugins, AddPlugin, JournalOwnership, PublishConfig, JournalConfig, OmitPlugin,
     JournalOmission, Verify, PublishRecord, ClearJournal, Keep, Fault, FaultTearing
<1>3. CASE RollBack
  BY <1>3 DEF RollBack, RollBackRecord, RollBackConfig, RollBackRole, RollBackAdded, RollBackRemoved,
     RollBackEnd, ReportFailure, DropPreparing, Keep, Fault, FaultTearing
<1>4. CASE Removal
  BY <1>4 DEF Removal, CleanConfig, Checkpoint, WriteConflict, RemoveRole, RolesRemoved,
     RemovePlugin, DropActive, DropOptions, DropJournals, RemoveDirectories, Restart, Keep, Fault, FaultTearing
<1>5. CASE (\E sel \in Selections : StartInstall(sel)) \/ StartRemove
  BY <1>5 DEF StartInstall, StartRemove, BeginRemoval
<1>6. CASE User \/ NewRelease \/ Crash
  BY <1>6 DEF User, EditKey, EditFile, TogglePlugin, NewRelease, Crash
<1> QED
  BY <1>1, <1>2, <1>3, <1>4, <1>5, <1>6 DEF Next, Step

LEMMA PluginNext == IInv /\ Typed /\ Shape /\ PluginInv /\ [Next]_vars => PluginInv'
<1> SUFFICES ASSUME IInv, Typed, Shape, PluginInv, [Next]_vars,
                    NEW p \in Plugins, p \notin mine'.plugins, p \notin notes'
             PROVE  PluginOk(p)'
  BY DEF PluginInv
<1>1. p \notin mine.plugins /\ p \notin notes /\ PluginOk(p)
  BY MineStays, NotesGrow DEF PluginInv
<1>2. Shaped
  BY <1>1 DEF Shape, Sane
<1>3. CASE UNCHANGED vars
  BY <1>1, <1>3, PluginShrinks DEF vars
<1>4. CASE Forward
  BY <1>1, <1>2, <1>4, PluginForward
<1>5. CASE RollBack
  BY <1>1, <1>2, <1>5, PluginRollBack
<1>6. CASE Removal
  BY <1>1, <1>2, <1>6, PluginRemovalSteps, PluginCommands
<1>7. CASE (\E sel \in Selections : StartInstall(sel)) \/ StartRemove
  BY <1>1, <1>2, <1>7, PluginCommands
<1>8. CASE User \/ NewRelease
  <2>1. UNCHANGED <<disk, pc, mem>>
    BY <1>8 DEF User, EditKey, EditFile, TogglePlugin, NewRelease
  <2>2. p \in installed' => p \in installed
    BY <1>8 DEF User, EditKey, EditFile, TogglePlugin, NewRelease
  <2> QED
    BY <1>1, <2>1, <2>2, PluginShrinks
<1>9. CASE Crash
  BY <1>1, <1>2, <1>9, PluginCrash
<1> QED
  BY <1>3, <1>4, <1>5, <1>6, <1>7, <1>8, <1>9 DEF Next, Step

LEMMA PluginInit == Init => PluginInv
BY PluginAtRest, Pcs DEF Init, PluginInv, PluginOk, PluginHeld

(***************************************************************************)
(* Each role asset.                                                        *)
(***************************************************************************)
LEMMA FileInstalling ==
    ASSUME NEW f, pc' \in Fresh \cup Failing, FileInstall(f)'
    PROVE  FileOk(f)'
BY Pcs DEF FileOk

LEMMA FileAtRest ==
    ASSUME NEW f, pc' = "idle", FileHeld(f)'
    PROVE  FileOk(f)'
BY Pcs DEF FileOk

LEMMA FileRemoving ==
    ASSUME NEW f, pc' \in Removing, FileRemoval(f)'
    PROVE  FileOk(f)'
BY Pcs DEF FileOk

LEMMA FileRecovered ==
    ASSUME IInv, Typed, Shaped, pc \in Fresh \cup Failing, NEW f, FileInstall(f), FileTold(f)
    PROVE  FileHeld(f)
<1> SUFFICES ASSUME Live(files[f]) PROVE HasArt(Recovery, f)
  BY DEF FileHeld
<1>1. /\ HasArt(mem.jr, f) /\ mem.jr # NoRec
      /\ preparing # NoRec /\ HasArt(mem.prev, f) => HasArt(preparing, f)
  BY Ready DEF FileInstall
<1>2. PICK rec \in Records : rec.arts[f] # None
  BY DEF FileTold
<1>3. rec # NoRec /\ rec \in {active, preparing, conflicted} /\ HasArt(rec, f)
  BY <1>2 DEF Records, HasArt, ArtsOf
<1>4. CASE /\ active = mem.prev /\ preparing = NoRec /\ conflicted = NoRec /\ Recovery = active
  BY <1>3, <1>4
<1>5. CASE /\ active = mem.prev /\ preparing # NoRec /\ conflicted = NoRec /\ Recovery = preparing
  BY <1>1, <1>3, <1>5
<1>6. CASE Recovery = mem.jr
  BY <1>1, <1>6
<1>7. CASE /\ active # NoRec /\ SameAsJournal(active) /\ preparing # NoRec
           /\ SameAsJournal(preparing) /\ Recovery \in {active, preparing}
  BY <1>1, <1>7 DEF HasArt, ArtsOf, SameAsJournal
<1> QED
  BY <1>4, <1>5, <1>6, <1>7, InstallRecovery

LEMMA FileQuiet ==
    ASSUME IInv, Typed, Shaped, NEW f, FileOk(f), pc \in Fresh \cup Failing, pc' \in Fresh \cup Failing,
           files' = files, release' = release, mem'.prev = mem.prev, mem'.jr # NoRec,
           mem'.jr.arts = mem.jr.arts, mem'.native = mem.native, mem'.failed \in {mem.failed, TRUE},
           mem'.roles = mem.roles, mem'.reviewed = mem.reviewed,
           pc' = "roles" => mem'.kept = mem.kept /\ mem'.current = mem.current,
           preparing' \in {preparing, mem'.jr},
           pc' = "roles" => pc = "roles", pc' \in {"journal", "snapshot", "read"} => pc \in {"journal", "snapshot", "read"},
           pc' # "rb_clear", pc # "rb_clear"
    PROVE  FileOk(f)'
<1>1. FileInstall(f) /\ mem.jr # NoRec
  BY Ready DEF FileOk
<1>2. (HasArt(mem.jr, f) <=> HasArt(mem'.jr, f))
  BY <1>1 DEF HasArt, ArtsOf
<1>3. FileInstall(f)'
  BY <1>1, <1>2 DEF FileInstall, HasArt
<1> QED
  BY <1>3, FileInstalling

LEMMA FileRole ==
    ASSUME IInv, Typed, Shaped, NEW f \in Files, FileInstall(f), pc = "roles", UNCHANGED <<disk, release>>,
           NEW g \in mem.roles, NEW content, RoleOutcome(g, content)
    PROVE  FileInstall(f)'
<1>1. /\ mem'.prev = mem.prev /\ mem'.failed = mem.failed /\ mem'.kept = mem.kept
      /\ mem'.current = mem.current /\ mem'.reviewed = mem.reviewed /\ mem'.roles = mem.roles \ {g}
      /\ pc' = "roles" /\ mem'.jr.arts = [mem.jr.arts EXCEPT ![g] = content]
      /\ mem'.jr \in TransactionJournals
  BY DEF RoleOutcome, Stays, InstallFields
<1>2. /\ mem'.jr # NoRec /\ mem.jr # NoRec /\ g \in Files /\ DOMAIN mem.jr.arts = Files
      /\ DOMAIN files = Files /\ release \in Nat \ {0} /\ pc \in Fresh
  BY <1>1, Memory, FreshPcs, InstallAssumption DEF TypedInstall, Typed, TypedSystem
<1>3. UNCHANGED <<preparing, release>>
  BY DEF disk
<1>4. CASE f # g
  <2>1. HasArt(mem'.jr, f) <=> HasArt(mem.jr, f)
    BY <1>1, <1>2, <1>4 DEF HasArt, ArtsOf
  <2>2. files'[f] = files[f]
    BY <1>2, <1>4 DEF RoleOutcome
  <2>3. /\ f \in DOMAIN mem'.native <=> f \in DOMAIN mem.native
        /\ f \in DOMAIN mem.native => mem'.native[f] = mem.native[f]
    BY <1>4 DEF RoleOutcome, WithOriginal
  <2> QED
    BY <1>1, <1>2, <1>3, <1>4, <2>1, <2>2, <2>3 DEF FileInstall, HasArt
<1>5. CASE f = g
  <2>1. /\ f \in mem.roles /\ f \notin DOMAIN mem.native
        /\ Live(mem.current[f]) => HasArt(mem.prev, f)
        /\ f \in mem.kept => ~Live(files[f])
        /\ Live(files[f]) => HasArt(mem.prev, f) \/ mem.failed
    BY <1>5 DEF FileInstall
  <2>2. HasArt(mem'.jr, f) <=> content # None
    BY <1>1, <1>2, <1>5 DEF HasArt, ArtsOf
  <2>3. Contents(f, release) # None
    BY <1>2 DEF Contents, None
  <2>4. HasArt(mem.prev, f) => HasArt(preparing, f)
    BY <1>2, Ready DEF FileInstall, InstallShape
  <2>5. CASE /\ f \in mem.kept /\ content = ArtsOf(mem.prev)[f] /\ files' = files
             /\ mem'.native = mem.native
    BY <1>1, <1>3, <1>5, <2>1, <2>2, <2>4, <2>5 DEF FileInstall, HasArt
  <2>6. CASE f \notin mem.kept /\ content = Contents(f, release) /\ files' = files
             /\ mem'.native = mem.native
    BY <1>1, <1>3, <1>5, <2>1, <2>2, <2>3, <2>4, <2>6 DEF FileInstall, HasArt
  <2>7. CASE /\ content = Contents(f, release) /\ files' = [files EXCEPT ![f] = content]
             /\ mem'.native = WithOriginal(f)
    <3>1. /\ files'[f] = Contents(f, release) /\ f \in DOMAIN mem'.native
          /\ mem'.native[f] = mem.current[f]
      BY <1>2, <2>7 DEF WithOriginal
    <3> QED
      BY <1>1, <1>3, <1>5, <2>1, <2>2, <2>3, <2>4, <2>7, <3>1 DEF FileInstall, HasArt
  <2> QED
    BY <1>5, <2>5, <2>6, <2>7 DEF RoleOutcome
<1> QED
  BY <1>4, <1>5

LEMMA FileForward ==
    ASSUME IInv, Typed, Shaped, NEW f \in Files, FileOk(f), Forward, f \notin notes'
    PROVE  FileOk(f)'
<1> USE DEF Fresh, Failing, BeforePublish
<1>0. pc \in Fresh
  BY DEF Forward, WriteFirstJournal, Snapshot, ReadRoles, InstallRole, JournalRoles, JournalPlan,
     SetUpPlugins, AddPlugin, JournalOwnership, PublishConfig, JournalConfig, OmitPlugin,
     JournalOmission, Verify, PublishRecord, ClearJournal
<1>1. /\ InstallShape /\ TypedInstall(mem) /\ mem.jr \in TransactionJournals /\ mem.jr # NoRec
      /\ FileInstall(f) /\ conflicted = NoRec /\ Usable(mem.prev, mem.jr)
  BY <1>0, Ready DEF InstallShape, FileOk
<1>2. CASE WriteFirstJournal
  <2>1. /\ pc = "journal" /\ UNCHANGED <<active, conflicted, files, release>>
        /\ \/ pc' = "snapshot" /\ mem' = mem /\ preparing' = mem.jr
           \/ pc' = "idle" /\ preparing' \in {preparing, mem.jr}
    BY <1>2, WriteFirstEffect DEF Frame
  <2>2. CASE pc' = "snapshot"
    BY <1>0, <1>1, <2>1, <2>2, FileQuiet
  <2>3. CASE pc' = "idle"
    <3>1. active = mem.prev /\ preparing = NoRec /\ mem.jr.arts = ArtsOf(mem.prev)
      BY <1>1, <2>1 DEF InstallShape
    <3>2. Recovery' = mem.jr \/ Recovery' = mem.prev
      BY <1>1, <2>1, <2>3, <3>1, RecoveryIs DEF Recovery
    <3>3. HasArt(mem.jr, f) <=> HasArt(mem.prev, f)
      BY <1>1, <3>1 DEF HasArt, ArtsOf
    <3>4. FileHeld(f)'
      BY <1>1, <2>1, <3>2, <3>3 DEF FileHeld, FileInstall, HasArt
    <3> QED
      BY <2>3, <3>4, FileAtRest
  <2> QED
    BY <2>1, <2>2, <2>3
<1>3. CASE JournalRoles \/ JournalPlan \/ JournalOwnership \/ JournalConfig \/ JournalOmission
  <2>1. /\ pc \in {"roles", "plan", "own", "published", "unown"} /\ UNCHANGED <<files, release>>
        /\ preparing' \in {preparing, mem'.jr}
        /\ pc' \in {"rb_record", "plan", "setup", "plugins", "omit"}
    BY <1>3, WriteEffect DEF Frame
  <2>2. /\ mem'.prev = mem.prev /\ mem'.failed = mem.failed /\ mem'.jr.arts = mem.jr.arts
        /\ mem'.native = mem.native /\ mem'.roles = mem.roles /\ mem'.reviewed = mem.reviewed
        /\ mem'.jr # NoRec
    BY <1>3, WriteEffect, InstallAssumption DEF Stays, InstallFields, JournalStays, JournalFields, RecordFields
  <2> QED
    BY <1>0, <2>1, <2>2, FileQuiet
<1>4. CASE Snapshot \/ SetUpPlugins \/ AddPlugin \/ PublishConfig \/ OmitPlugin \/ Verify
  <2>1. /\ UNCHANGED <<preparing, files, release>> /\ mem'.prev = mem.prev /\ mem'.failed = mem.failed
        /\ mem'.jr.arts = mem.jr.arts
        /\ mem'.native = mem.native /\ mem'.roles = mem.roles /\ mem'.reviewed = mem.reviewed
    BY <1>4, SnapshotEffect, SetUpEffect, AddEffect, PublishEffect, OmitEffect, VerifyEffect
       DEF Frame, Stays, InstallFields, disk, JournalStays, JournalFields, RecordFields
  <2>2. /\ mem'.jr \in TransactionJournals
        /\ pc' \notin {"journal", "snapshot", "roles", "rb_clear"} /\ pc' \in Fresh \cup Failing
        /\ pc' = "read" => pc = "snapshot"
    <3>1. EntryAfter \in Entries
      BY <1>1, EntryAfterTyped
    <3>2. Snapshot => mem'.jr = mem.jr
      BY SnapshotEffect DEF Stays, InstallFields
    <3>3. Verify => mem'.jr = mem.jr
      BY VerifyEffect DEF Stays, InstallFields
    <3>4. AddPlugin => mem'.jr \in TransactionJournals
      BY <1>1, AddEffect DEF Stays, InstallFields
    <3>5. /\ SetUpPlugins => mem'.jr = mem.jr
          /\ PublishConfig => mem'.jr \in TransactionJournals
          /\ OmitPlugin => mem'.jr \in TransactionJournals
      BY <1>1, <3>1, SetUpEffect, PublishEffect, OmitEffect
    <3>6. /\ pc' \notin {"journal", "snapshot", "roles", "rb_clear"} /\ pc' \in Fresh \cup Failing
          /\ pc' = "read" => pc = "snapshot"
      BY <1>4, SnapshotEffect, SetUpEffect, AddEffect, PublishEffect, OmitEffect, VerifyEffect
    <3> QED
      BY <1>1, <1>4, <3>2, <3>3, <3>4, <3>5, <3>6
  <2>3. mem'.jr # NoRec
    BY <2>2, InstallAssumption
  <2> QED
    BY <1>0, <2>1, <2>2, <2>3, FileQuiet
<1>5. CASE PublishRecord
  <2>1. /\ UNCHANGED <<preparing, files, release>> /\ mem' = mem /\ pc' \in {"clear", "rb_record"}
        /\ mem.failed \in {mem.failed, TRUE}
    BY <1>5, PublishRecordEffect DEF Frame
  <2> QED
    BY <1>0, <1>1, <2>1, FileQuiet
<1>6. CASE ReadRoles
  <2>1. /\ pc = "read" /\ UNCHANGED <<disk, files, release>>
        /\ mem'.prev = mem.prev /\ mem'.failed = mem.failed /\ mem'.jr = mem.jr
        /\ mem'.native = mem.native /\ mem'.roles = mem.roles /\ mem'.reviewed = mem.reviewed
        /\ \/ pc' = "rb_record"
           \/ /\ pc' = "roles" /\ mem'.current = [g \in mem.roles |-> files[g]]
              /\ mem'.kept = {g \in mem.roles : RoleConflict(g) /\ mem.reviewed[g] = None}
    BY <1>6, ReadEffect DEF Frame, Stays, InstallFields
  <2>2. CASE pc' = "rb_record"
    BY <1>0, <1>1, <2>1, <2>2, FileQuiet DEF disk
  <2>3. CASE pc' = "roles"
    <3>1. active = mem.prev /\ DOMAIN mem.native = {} /\ ~mem.failed
      BY <1>1, <2>1 DEF InstallShape
    <3>2. f \in mem.roles /\ f \in mem'.kept => ~Live(files[f])
      BY <1>1, <2>1, <2>3, <3>1 DEF FileInstall, RoleConflict, Live
    <3>3. FileInstall(f)'
      BY <1>1, <2>1, <2>3, <3>1, <3>2 DEF FileInstall, HasArt, disk
    <3> QED
      BY <2>3, <3>3, FileInstalling
  <2> QED
    BY <2>1, <2>2, <2>3
<1>7. CASE InstallRole
  <2>1. /\ pc = "roles" /\ UNCHANGED <<disk, release>>
    BY <1>7, RoleEffect DEF Frame
  <2>2. PICK g \in mem.roles :
            \/ pc' = "rb_record" /\ mem' = mem /\ files' = files
            \/ /\ pc' = "rb_record" /\ mem' = mem /\ g \in notes'
               /\ files' = [files EXCEPT ![g] = Contents(g, release)]
            \/ \E content : RoleOutcome(g, content)
    BY <1>7, RoleEffect
  <2>3. CASE /\ pc' = "rb_record" /\ mem' = mem
             /\ files' = files \/ (g \in notes' /\ files' = [files EXCEPT ![g] = Contents(g, release)])
    <3>1. files'[f] = files[f]
      BY <2>3 DEF Typed, TypedSystem
    <3>2. FileInstall(f)'
      BY <1>1, <2>1, <2>3, <3>1 DEF FileInstall, HasArt, disk
    <3> QED
      BY <2>3, <3>2, FileInstalling
  <2>4. ASSUME NEW content, RoleOutcome(g, content)
        PROVE  FileOk(f)'
    <3>1. FileInstall(f)' /\ pc' = "roles"
      BY <1>1, <2>1, <2>4, FileRole DEF RoleOutcome
    <3> QED
      BY <3>1, FileInstalling
  <2> QED
    BY <2>2, <2>3, <2>4
<1>8. CASE ClearJournal
  <2>1. /\ pc = "clear" /\ UNCHANGED <<active, files, release>>
        /\ \/ pc' = "idle" /\ preparing' = NoRec /\ conflicted' = NoRec
           \/ pc' = "rb_record" /\ mem' = mem /\ UNCHANGED preparing
    BY <1>8, ClearEffect DEF Frame
  <2>2. CASE pc' = "rb_record"
    <3>1. mem.failed \in {mem.failed, TRUE} /\ mem' = mem
      BY <2>1, <2>2
    <3> QED
      BY <1>0, <1>1, <2>1, <2>2, <3>1, FileQuiet
  <2>3. CASE pc' = "idle"
    <3>1. Recovery' = active /\ active # NoRec /\ active.arts = mem.jr.arts
      BY <1>1, <2>1, <2>3, RecoveryIs DEF Recovery, InstallShape, SameAsJournal
    <3>2. FileHeld(f)'
      BY <1>1, <2>1, <3>1 DEF FileHeld, FileInstall, HasArt, ArtsOf
    <3> QED
      BY <2>3, <3>2, FileAtRest
  <2> QED
    BY <2>1, <2>2, <2>3
<1> QED
  BY <1>2, <1>3, <1>4, <1>5, <1>6, <1>7, <1>8 DEF Forward

LEMMA FileRollBack ==
    ASSUME IInv, Typed, Shaped, NEW f \in Files, FileOk(f), RollBack, f \notin notes'
    PROVE  FileOk(f)'
<1> USE DEF Fresh, Failing, BeforePublish
<1>0. pc \in Failing
  BY DEF RollBack, RollBackRecord, RollBackConfig, RollBackRole, RollBackAdded, RollBackRemoved,
     RollBackEnd, ReportFailure, DropPreparing
<1>1. /\ InstallShape /\ TypedInstall(mem) /\ mem.jr \in TransactionJournals /\ mem.jr # NoRec
      /\ FileInstall(f) /\ Usable(mem.prev, mem.jr)
  BY <1>0, Ready DEF FileOk
<1>2. CASE RollBackRecord \/ RollBackConfig \/ RollBackAdded
  <2>1. /\ UNCHANGED <<preparing, files, release>> /\ mem'.prev = mem.prev /\ mem'.jr = mem.jr
        /\ mem'.native = mem.native /\ mem'.roles = mem.roles /\ mem'.reviewed = mem.reviewed
        /\ mem'.failed \in {mem.failed, TRUE} /\ pc' \in {"rb_config", "rb_roles"}
        /\ pc \in {"rb_record", "rb_config", "rb_roles"}
    BY <1>2, RollBackRecordEffect, RollBackConfigEffect, RollBackAddedEffect
       DEF Stays, InstallFields, disk, Frame
  <2> QED
    BY <1>0, <1>1, <2>1, FileQuiet
<1>3. CASE RollBackRemoved \/ RollBackEnd
  <2>1. /\ UNCHANGED <<files, release>> /\ mem'.prev = mem.prev /\ mem'.jr.arts = mem.jr.arts
        /\ mem'.native = mem.native /\ mem'.roles = mem.roles /\ mem'.reviewed = mem.reviewed
        /\ mem'.jr # NoRec /\ preparing' \in {preparing, mem'.jr}
        /\ pc' \in {"rb_roles", "rb_end"} /\ pc = "rb_roles"
    BY <1>3, RollBackRemovedEffect, RollBackEndEffect, InstallAssumption
       DEF Stays, InstallFields, JournalStays, JournalFields, RecordFields, disk, Frame
  <2>2. mem'.failed \in {mem.failed, TRUE}
    BY <1>1, <1>3, RollBackRemovedEffect, RollBackEndEffect DEF TypedInstall
  <2> QED
    BY <1>0, <2>1, <2>2, FileQuiet
<1>4. CASE RollBackRole
  <2>1. /\ pc = "rb_roles" /\ pc' = "rb_roles" /\ UNCHANGED <<preparing, release>>
        /\ mem'.prev = mem.prev /\ mem'.jr = mem.jr
        /\ mem'.failed \in {mem.failed, TRUE} /\ DOMAIN files = Files
    BY <1>4, RollBackRoleEffect DEF Stays, InstallFields, disk, Frame, Typed, TypedSystem
  <2>2. PICK g \in DOMAIN mem.native :
            \/ /\ mem'.native = [h \in DOMAIN mem.native \ {g} |-> mem.native[h]]
               /\ \/ files[g] = Contents(g, release) /\ files' = [files EXCEPT ![g] = mem.native[g]]
                  \/ files[g] # Contents(g, release) /\ files' = files
            \/ /\ files' = files /\ DOMAIN mem'.native = {}
               /\ mem'.failed = TRUE \/ DOMAIN mem.native \subseteq notes'
    BY <1>4, RollBackRoleEffect
  <2>3. CASE /\ mem'.native = [h \in DOMAIN mem.native \ {g} |-> mem.native[h]]
             /\ files[g] = Contents(g, release) /\ files' = [files EXCEPT ![g] = mem.native[g]]
    <3>1. ASSUME f = g PROVE FileInstall(f)'
      <4>1. files'[f] = mem.native[f] /\ f \notin DOMAIN mem'.native
        BY <2>1, <2>3, <3>1
      <4>2. Live(files'[f]) => HasArt(mem.prev, f)
        BY <1>1, <2>2, <3>1, <4>1 DEF FileInstall
      <4> QED
        BY <1>1, <2>1, <4>1, <4>2 DEF FileInstall, HasArt
    <3>2. ASSUME f # g PROVE FileInstall(f)'
      <4>1. files'[f] = files[f] /\ (f \in DOMAIN mem'.native <=> f \in DOMAIN mem.native)
            /\ (f \in DOMAIN mem.native => mem'.native[f] = mem.native[f])
        BY <2>1, <2>3, <3>2
      <4> QED
        BY <1>1, <2>1, <4>1 DEF FileInstall, HasArt
    <3>3. FileInstall(f)'
      BY <3>1, <3>2
    <3> QED
      BY <2>1, <3>3, FileInstalling
  <2>4. CASE /\ mem'.native = [h \in DOMAIN mem.native \ {g} |-> mem.native[h]]
             /\ files[g] # Contents(g, release) /\ files' = files
    <3>1. f = g => ~Live(files[f])
      BY <1>1, <2>2, <2>4 DEF FileInstall
    <3>2. /\ f # g /\ f \in DOMAIN mem.native => f \in DOMAIN mem'.native
          /\ f \in DOMAIN mem'.native => f \in DOMAIN mem.native /\ mem'.native[f] = mem.native[f]
      BY <2>4
    <3>3. FileInstall(f)'
      BY <1>1, <2>1, <2>4, <3>1, <3>2 DEF FileInstall, HasArt
    <3> QED
      BY <2>1, <3>3, FileInstalling
  <2>5. CASE /\ files' = files /\ DOMAIN mem'.native = {}
             /\ mem'.failed = TRUE \/ DOMAIN mem.native \subseteq notes'
    <3>1. FileInstall(f)'
      BY <1>1, <2>1, <2>5 DEF FileInstall, HasArt
    <3> QED
      BY <2>1, <3>1, FileInstalling
  <2> QED
    BY <2>2, <2>3, <2>4, <2>5
<1>5. CASE ReportFailure
  <2>1. /\ pc = "rb_end" /\ UNCHANGED <<active, preparing, files, release>> /\ active = mem.prev
        /\ DOMAIN mem.native = {}
        /\ \/ mem.failed /\ pc' = "rb_clear" /\ mem' = mem /\ conflicted' = mem.jr
           \/ mem.failed /\ pc' = "idle" /\ conflicted' = mem.jr
           \/ pc' = "idle" /\ conflicted' = conflicted /\ Leaked \subseteq notes'
           \/ ~mem.failed /\ pc' = "rb_clear" /\ mem' = mem /\ conflicted' = conflicted
    BY <1>1, <1>5, ReportEffect DEF InstallShape, Frame
  <2>2. CASE pc' = "rb_clear"
    <3>1. FileInstall(f)'
      BY <1>1, <2>1, <2>2 DEF FileInstall, HasArt
    <3> QED
      BY <2>2, <3>1, FileInstalling
  <2>3. CASE pc' = "idle" /\ conflicted' = mem.jr
    <3>1. Recovery' = mem.jr
      BY <1>1, <2>1, <2>3, RecoveryIs DEF Recovery
    <3>2. FileHeld(f)'
      BY <1>1, <2>1, <3>1 DEF FileHeld, FileInstall, HasArt
    <3> QED
      BY <2>3, <3>2, FileAtRest
  <2>4. CASE pc' = "idle" /\ conflicted' = conflicted /\ Leaked \subseteq notes'
    <3>1. Recovery' = Recovery
      BY <2>1, <2>4, RecoveryStays DEF disk
    <3>2. Live(files[f]) => FileTold(f)
      BY <2>4 DEF Leaked, Live
    <3>3. FileHeld(f)
      BY <1>0, <1>1, <3>2, FileRecovered DEF FileHeld
    <3>4. FileHeld(f)'
      BY <2>1, <3>1, <3>3 DEF FileHeld, HasArt
    <3> QED
      BY <2>4, <3>4, FileAtRest
  <2> QED
    BY <2>1, <2>2, <2>3, <2>4
<1>6. CASE DropPreparing
  <2>1. /\ pc = "rb_clear" /\ pc' = "idle" /\ UNCHANGED <<active, conflicted, files>>
        /\ preparing' \in {NoRec, preparing} /\ active = mem.prev /\ preparing # NoRec
        /\ conflicted = NoRec \/ conflicted = mem.jr
    BY <1>1, <1>6, DropPreparingEffect DEF InstallShape
  <2>2. CASE conflicted = mem.jr
    <3>1. Recovery' = mem.jr
      BY <1>1, <2>1, <2>2, RecoveryIs DEF Recovery
    <3>2. FileHeld(f)'
      BY <1>1, <2>1, <3>1 DEF FileHeld, FileInstall, HasArt
    <3> QED
      BY <2>1, <3>2, FileAtRest
  <2>3. CASE conflicted = NoRec
    <3>1. Usable(active, preparing)
      BY <1>1, <2>1, <2>3 DEF InstallShape, Usable, IsBound, DigestOf
    <3>2. Recovery' = mem.prev \/ Recovery' = preparing
      BY <2>1, <2>3, <3>1, RecoveryIs DEF Recovery
    <3>3. Live(files[f]) => HasArt(mem.prev, f) /\ HasArt(preparing, f)
      BY <1>1, <2>1, <2>3 DEF FileInstall
    <3>4. FileHeld(f)'
      BY <2>1, <3>2, <3>3 DEF FileHeld, HasArt
    <3> QED
      BY <2>1, <3>4, FileAtRest
  <2> QED
    BY <2>1, <2>2, <2>3
<1> QED
  BY <1>2, <1>3, <1>4, <1>5, <1>6 DEF RollBack

(* A removal. *)
LEMMA FileGone ==
    ASSUME NEW f, pc' \in Removing \cup {"idle"}, ~Live(files'[f])
    PROVE  FileOk(f)'
BY FileAtRest, FileRemoving DEF FileHeld, FileRemoval

LEMMA FileStop ==
    ASSUME IInv, Typed, Shaped, pc \in Removing, NEW f, FileOk(f), pc' = "idle" \/ StopsWith(mem.rec)
               \/ StopsWith(mem.now),
           UNCHANGED <<active, preparing>>, conflicted' \in {conflicted, mem.now}, files' = files
    PROVE  FileOk(f)'
<1>1. FileRemoval(f) /\ mem.now # NoRec /\ mem.rec # NoRec /\ mem.now.arts = mem.rec.arts
  BY RemovalReady DEF FileOk
<1>2. FileHeld(f)'
  <2>1. HasArt(mem.rec, f) => HasArt(mem.now, f)
    BY <1>1 DEF HasArt, ArtsOf
  <2> QED
    BY <1>1, <2>1, RemovalRecovery DEF FileRemoval, FileHeld, HasArt
<1>3. CASE pc' = "idle"
  BY <1>2, <1>3, FileAtRest
<1>4. CASE StopsWith(mem.rec) \/ StopsWith(mem.now)
  <2>1. pc' = "rm_stop" /\ mem'.rec = mem.rec
    BY <1>4 DEF StopsWith, RemovalStays, RemovalFields
  <2>2. FileRemoval(f)'
    BY <1>1, <1>2, <2>1 DEF FileRemoval, Dropped, HasArt
  <2> QED
    BY <2>1, <2>2, FileRemoving, RemovalPcs
<1> QED
  BY <1>3, <1>4

LEMMA FileRemovalSteps ==
    ASSUME IInv, Typed, Shaped, NEW f \in Files, FileOk(f), Removal, ~Restart
    PROVE  FileOk(f)'
<1>0. pc \in Removing
  BY RemovalPcs DEF Removal, CleanConfig, Checkpoint, WriteConflict, RemoveRole, RolesRemoved,
     RemovePlugin, DropActive, DropOptions, DropJournals, RemoveDirectories
<1>1. /\ FileRemoval(f) /\ RemovalShape /\ mem.now # NoRec /\ mem.rec # NoRec
      /\ mem.now.arts = mem.rec.arts
  BY <1>0, RemovalReady DEF FileOk
<1>2. CASE CleanConfig
  <2>1. CASE StopsWith(mem.rec)
    BY <1>0, <1>2, <2>1, CleanEffect, FileStop DEF disk
  <2>2. CASE pc' = "rm_checkpoint" /\ RemovalStays({"now"})
    <3>1. /\ pc = "rm_config" /\ UNCHANGED <<disk, files>>
          /\ mem'.rec = mem.rec /\ mem'.roles = mem.roles /\ mem'.preserved = mem.preserved
      BY <1>2, <2>2, CleanEffect DEF RemovalStays, RemovalFields
    <3>2. FileRemoval(f)'
      BY <1>1, <2>2, <3>1, RecoveryStays DEF FileRemoval, FileHeld, Dropped, HasArt
    <3> QED
      BY <2>2, <3>2, FileRemoving, RemovalPcs
  <2> QED
    BY <1>2, <2>1, <2>2, CleanEffect
<1>3. CASE Checkpoint
  <2>1. CASE StopsWith(mem.now)
    BY <1>0, <1>3, <2>1, CheckpointEffect, FileStop
  <2>2. CASE pc' = "rm_roles" /\ conflicted' = mem.now /\ mem' = mem
    <3>1. pc = "rm_checkpoint" /\ UNCHANGED <<active, preparing, files>>
      BY <1>3, CheckpointEffect
    <3>2. Recovery' \in {Recovery, mem.now}
      BY <1>0, <2>2, <3>1, RemovalRecovery
    <3>3. HasArt(mem.rec, f) => HasArt(mem.now, f)
      BY <1>1 DEF HasArt, ArtsOf
    <3>4. FileRemoval(f)'
      BY <1>1, <2>2, <3>1, <3>2, <3>3 DEF FileRemoval, FileHeld, Dropped, HasArt
    <3> QED
      BY <2>2, <3>4, FileRemoving, RemovalPcs
  <2> QED
    BY <1>3, <2>1, <2>2, CheckpointEffect
<1>4. CASE WriteConflict
  BY <1>0, <1>4, WriteConflictEffect, FileStop
<1>5. CASE RemoveRole
  <2>1. /\ pc = "rm_roles" /\ pc' = "rm_roles" /\ UNCHANGED disk /\ mem'.rec = mem.rec
        /\ DOMAIN files = Files
    BY <1>5, RemoveRoleEffect DEF RemovalStays, RemovalFields, Typed, TypedSystem
  <2>2. PICK g \in mem.roles :
            /\ mem'.roles = mem.roles \ {g}
            /\ \/ files' = [files EXCEPT ![g] = None] /\ mem'.preserved = mem.preserved
               \/ files' = files /\ mem'.preserved = TRUE
    BY <1>5, RemoveRoleEffect
  <2>3. /\ Live(files'[f]) => Live(files[f])
        /\ Live(files'[f]) => mem'.preserved = TRUE
              \/ (mem'.preserved = mem.preserved /\ (f \in mem.roles => f \in mem'.roles))
    BY <2>1, <2>2 DEF Live
  <2>4. FileRemoval(f)'
    BY <1>1, <2>1, <2>3, RecoveryStays DEF FileRemoval, FileHeld, Dropped, HasArt
  <2> QED
    BY <2>1, <2>4, FileRemoving, RemovalPcs
<1>6. CASE RolesRemoved
  <2>1. /\ pc = "rm_roles" /\ UNCHANGED <<disk, files>> /\ mem.roles = {}
        /\ \/ StopsWith(mem.now)
           \/ pc' = "rm_plugins" /\ ~mem.preserved
    BY <1>6, RolesRemovedEffect
  <2>2. CASE StopsWith(mem.now)
    BY <1>0, <2>1, <2>2, FileStop DEF disk
  <2>3. CASE pc' = "rm_plugins" /\ ~mem.preserved
    <3>1. ~Live(files'[f])
      BY <1>1, <2>1, <2>3 DEF FileRemoval
    <3> QED
      BY <2>3, <3>1, FileGone, RemovalPcs
  <2> QED
    BY <2>1, <2>2, <2>3
<1>7. CASE RemovePlugin \/ DropActive \/ DropOptions \/ DropJournals \/ RemoveDirectories
  <2>1. /\ pc \in {"rm_plugins"} \cup Dropped /\ files' = files
        /\ pc' \in Removing \cup {"idle"}
    BY <1>7, RemovePluginEffect, DropEffect, DropJournalsEffect, DirectoriesEffect, RemovalPcs
       DEF StopsWith, Dropped
  <2>2. ~Live(files'[f])
    BY <1>1, <2>1 DEF FileRemoval
  <2> QED
    BY <2>1, <2>2, FileGone
<1> QED
  BY <1>2, <1>3, <1>4, <1>5, <1>6, <1>7 DEF Removal

(* A command begins. *)
LEMMA FileBegin ==
    ASSUME Typed, NEW f \in Files, FileHeld(f), NEW after, NEW accept, BeginRemoval(after, accept)
    PROVE  FileOk(f)'
<1>1. /\ pc' = "rm_config" /\ UNCHANGED <<disk, files>> /\ Recovery # NoRec
      /\ mem'.rec = AsJournal(Recovery) /\ mem'.roles = {g \in Files : Recovery.arts[g] # None}
  BY BeginEffect DEF Recovery
<1>2. AsJournal(Recovery) \in TransactionJournals /\ AsJournal(Recovery).arts = Recovery.arts
  BY <1>1, RecoveryTyped, JournalFormTyped DEF Recovery, Typed
<1>3. /\ HasArt(Recovery, f) => f \in mem'.roles
      /\ HasArt(Recovery, f) => HasArt(mem'.rec, f)
  BY <1>1, <1>2, InstallAssumption DEF HasArt, ArtsOf
<1>4. FileRemoval(f)'
  BY <1>1, <1>3, RecoveryStays DEF FileRemoval, FileHeld, Dropped, HasArt
<1> QED
  BY <1>1, <1>4, FileRemoving, RemovalPcs

LEMMA FilePreflight ==
    ASSUME Typed, NEW f \in Files, Live(files[f]) => HasArt(active, f),
           NEW sel \in Selections, NEW decision, Preflight(sel, decision),
           preparing = NoRec, conflicted = NoRec, release' = release
    PROVE  FileOk(f)'
<1>1. /\ pc' = "journal" /\ UNCHANGED <<disk, files>> /\ mem'.prev = active
      /\ mem'.jr = FirstJournal(sel) /\ DOMAIN mem'.native = {} /\ mem'.roles = FilesOf(sel)
      /\ mem'.reviewed = [g \in FilesOf(sel) |-> IF RoleConflict(g) THEN files[g] ELSE None]
  BY DEF Preflight
<1>2. FirstJournal(sel).arts = ArtsOf(active) /\ FirstJournal(sel) \in TransactionJournals
  BY FirstJournalTyped DEF FirstJournal
<1>3. HasArt(mem'.jr, f) <=> HasArt(active, f)
  BY <1>1, <1>2, InstallAssumption DEF HasArt, ArtsOf
<1>4. f \in mem'.roles /\ mem'.reviewed[f] = None /\ Live(files[f]) =>
        files[f] \in {Contents(f, release), ArtsOf(active)[f]}
  BY <1>1 DEF RoleConflict, Live
<1>6. FileInstall(f)'
  BY <1>1, <1>3, <1>4 DEF FileInstall, HasArt, disk
<1> QED
  BY <1>1, <1>6, FileInstalling, FreshPcs

LEMMA FileCommands ==
    ASSUME IInv, Typed, Shaped, NEW f \in Files, FileOk(f),
           (\E sel \in Selections : StartInstall(sel)) \/ StartRemove \/ Restart
    PROVE  FileOk(f)'
<1>1. CASE \E sel \in Selections : StartInstall(sel)
  <2>1. PICK sel \in Selections : StartInstall(sel)
    BY <1>1
  <2>2. FileHeld(f) /\ pc = "idle" /\ release' = release
    BY <2>1 DEF StartInstall, FileOk
  <2>3. CASE UNCHANGED <<disk, config, files, installed, pc, mem, notes>>
    <3>1. FileHeld(f)' /\ pc' = "idle"
      BY <2>2, <2>3, RecoveryStays DEF FileHeld, HasArt
    <3> QED
      BY <3>1, FileAtRest
  <2>4. CASE \E accept \in BOOLEAN : BeginRemoval(sel, accept)
    BY <2>2, <2>4, FileBegin
  <2>5. CASE /\ InstallMayStart(active, preparing, conflicted)
             /\ Interrupted(active, preparing, conflicted) = NoRec
             /\ \E decision \in {"replace", "keep"} : Preflight(sel, decision)
    <3>1. preparing = NoRec /\ conflicted = NoRec
      BY <2>5, NoJournals
    <3>2. Recovery = active
      BY <3>1, RecoveryIs DEF Recovery
    <3> QED
      BY <2>2, <2>5, <3>1, <3>2, FilePreflight DEF FileHeld
  <2> QED
    BY <2>1, <2>3, <2>4, <2>5 DEF StartInstall
<1>2. CASE StartRemove
  BY <1>2, FileBegin DEF StartRemove, FileOk
<1>3. CASE Restart
  <2>1. pc = "restart" /\ pc \in Removing /\ release' = release
    BY <1>3, RemovalPcs DEF Restart, Keep
  <2>2. preparing = NoRec /\ conflicted = NoRec
    BY <2>1, RemovalReady DEF RemovalShape
  <2>3. mem.after \in Selections
    BY <2>1 DEF IInv, RemovalInv
  <2>4. ~Live(files[f])
    BY <2>1 DEF FileOk, FileRemoval, Dropped
  <2> QED
    BY <1>3, <2>1, <2>2, <2>3, <2>4, FilePreflight DEF Restart
<1> QED
  BY <1>1, <1>2, <1>3

LEMMA FileShrinks ==
    ASSUME NEW f, FileOk(f), UNCHANGED <<disk, pc, mem>>, release' = release \/ pc = "idle",
           files'[f] = files[f] \/ ~Live(files'[f]), pc \in {"idle"} \cup Fresh \cup Failing \cup Removing
    PROVE  FileOk(f)'
<1>1. CASE pc = "idle"
  <2>1. FileHeld(f)'
    BY <1>1, RecoveryStays DEF FileOk, FileHeld, HasArt
  <2> QED
    BY <1>1, <2>1, FileAtRest
<1>2. CASE pc \in Fresh \cup Failing /\ release' = release
  <2>1. FileInstall(f)'
    BY <1>2 DEF FileOk, FileInstall, HasArt, disk
  <2> QED
    BY <1>2, <2>1, FileInstalling
<1>3. CASE pc \in Removing
  <2>1. FileRemoval(f)'
    BY <1>3, RecoveryStays DEF FileOk, FileRemoval, FileHeld, HasArt
  <2> QED
    BY <1>3, <2>1, FileRemoving
<1> QED
  BY <1>1, <1>2, <1>3

LEMMA FileCrash ==
    ASSUME IInv, Typed, Shaped, NEW f \in Files, FileOk(f), Crash, f \notin notes'
    PROVE  FileOk(f)'
<1>1. pc' = "idle" /\ UNCHANGED <<disk, files>> /\ Leaked \subseteq notes'
  BY DEF Crash
<1>2. Live(files[f]) => FileTold(f)
  BY <1>1 DEF Leaked, Live
<1>3. FileHeld(f)
  <2>1. CASE pc \in Fresh \cup Failing
    BY <1>2, <2>1, FileRecovered DEF FileOk, FileHeld
  <2>2. CASE pc \in Removing \/ pc = "idle"
    BY <2>2 DEF FileOk, FileRemoval
  <2> QED
    BY <2>1, <2>2 DEF IInv
<1>4. FileHeld(f)'
  BY <1>1, <1>3, RecoveryStays DEF FileHeld, HasArt
<1> QED
  BY <1>1, <1>4, FileAtRest

LEMMA FileNext == IInv /\ Typed /\ Shape /\ FileInv /\ [Next]_vars => FileInv'
<1> SUFFICES ASSUME IInv, Typed, Shape, FileInv, [Next]_vars, NEW f \in Files, f \notin notes'
             PROVE  FileOk(f)'
  BY DEF FileInv
<1>1. f \notin notes /\ FileOk(f) /\ DOMAIN files = Files
      /\ pc \in {"idle"} \cup Fresh \cup Failing \cup Removing
  BY NotesGrow DEF FileInv, Typed, TypedSystem, IInv
<1>2. Shaped
  BY <1>1 DEF Shape, Sane
<1>3. CASE UNCHANGED vars
  BY <1>1, <1>3, FileShrinks DEF vars
<1>4. CASE Forward
  BY <1>1, <1>2, <1>4, FileForward
<1>5. CASE RollBack
  BY <1>1, <1>2, <1>5, FileRollBack
<1>6. CASE Removal
  BY <1>1, <1>2, <1>6, FileRemovalSteps, FileCommands
<1>7. CASE (\E sel \in Selections : StartInstall(sel)) \/ StartRemove
  BY <1>1, <1>2, <1>7, FileCommands
<1>8. CASE User \/ NewRelease
  <2>1. UNCHANGED <<disk, pc, mem>> /\ (release' = release \/ pc = "idle")
    BY <1>8 DEF User, EditKey, EditFile, TogglePlugin, NewRelease
  <2>2. files'[f] = files[f] \/ ~Live(files'[f])
    BY <1>1, <1>8 DEF User, EditKey, EditFile, TogglePlugin, NewRelease, Live
  <2> QED
    BY <1>1, <2>1, <2>2, FileShrinks
<1>9. CASE Crash
  BY <1>1, <1>2, <1>9, FileCrash
<1> QED
  BY <1>3, <1>4, <1>5, <1>6, <1>7, <1>8, <1>9 DEF Next, Step

LEMMA FileInit == Init => FileInv
BY FileAtRest, Pcs DEF Init, FileInv, FileOk, FileHeld, NoArts, Live

(***************************************************************************)
(* The managed key.                                                        *)
(***************************************************************************)
LEMMA KeyInstalling ==
    ASSUME pc' \in Fresh \cup Failing, KeyInstall', \A rec \in Records' : OfSelection(rec.entry)
    PROVE  KeyOk'
BY Pcs DEF KeyOk

LEMMA KeyAtRest ==
    ASSUME pc' = "idle", KeyHeld', \A rec \in Records' : OfSelection(rec.entry)
    PROVE  KeyOk'
BY Pcs DEF KeyOk

LEMMA KeyRemoving ==
    ASSUME pc' \in Removing, KeyRemoval', \A rec \in Records' : OfSelection(rec.entry)
    PROVE  KeyOk'
BY Pcs DEF KeyOk

LEMMA KeyRecords ==
    ASSUME KeyOk, \A rec \in {active', preparing', conflicted'} \ {NoRec} :
                      rec \in Records \/ OfSelection(rec.entry)
    PROVE  \A rec \in Records' : OfSelection(rec.entry)
BY DEF KeyOk, Records

(* A record whose entry has a selection's value is a record with an entry. *)
LEMMA EntryOfSelection ==
    ASSUME NEW v \in Selections
    PROVE  /\ \A e : e.last = v => e # NoEntry
           /\ \A rec : EntryOf(rec).last = v => rec # NoRec /\ EntryOf(rec) = rec.entry
           /\ v # Absent /\ v # NoRec
<1>1. v # NoRec /\ v # Absent
  BY InstallAssumption, SelectionAssumption DEF KeyValues
<1>2. NoEntry.last = NoRec
  BY DEF NoEntry
<1> QED
  BY <1>1, <1>2 DEF EntryOf

LEMMA KeyHeldBy ==
    ASSUME NEW rec \in {active', preparing', conflicted'},
           key' \in Selections => EntryOf(rec).last = key' /\ EntryOf(Recovery') # NoEntry
    PROVE  KeyHeld'
<1> SUFFICES ASSUME key' \in Selections PROVE EntryOf(Recovery') # NoEntry /\ KeyTold'
  BY DEF KeyHeld
<1>1. EntryOf(rec).last = key' /\ EntryOf(Recovery') # NoEntry
  OBVIOUS
<1>2. rec # NoRec /\ rec.entry.last = key'
  BY <1>1, EntryOfSelection
<1> QED
  BY <1>1, <1>2 DEF KeyTold, Records

(* HolyCodex's own value, wherever an install is, has a journaled entry.   *)
LEMMA KeyJournaled ==
    ASSUME pc \in Fresh \cup Failing, KeyInstall, key \in Selections
    PROVE  mem.jr.entry # NoEntry /\ key \in {mem.doc.key, mem.jr.entry.last}
<1>1. key \in {mem.doc.key, mem.jr.entry.last}
  BY DEF KeyInstall, KeyIs, Fresh, Failing, BeforePublish, AfterPublish
<1>2. mem.doc.key = key => mem.jr.entry # NoEntry
  BY DEF KeyInstall
<1> QED
  BY <1>1, <1>2, EntryOfSelection

LEMMA KeyRecovered ==
    ASSUME IInv, Typed, Shaped, pc \in Fresh \cup Failing, KeyInstall, KeyTold
    PROVE  KeyHeld
<1> SUFFICES ASSUME key \in Selections PROVE EntryOf(Recovery) # NoEntry
  BY DEF KeyHeld
<1>1. mem.jr.entry # NoEntry /\ mem.jr # NoRec /\ InstallShape
  BY Ready, KeyJournaled
<1>2. PICK rec \in Records : rec.entry.last = key
  BY DEF KeyTold
<1>3. rec # NoRec /\ rec \in {active, preparing, conflicted} /\ EntryOf(rec) # NoEntry
  BY <1>2, EntryOfSelection DEF Records, EntryOf
<1>4. CASE /\ active = mem.prev /\ preparing = NoRec /\ conflicted = NoRec /\ Recovery = active
  BY <1>3, <1>4
<1>5. CASE /\ active = mem.prev /\ preparing # NoRec /\ conflicted = NoRec /\ Recovery = preparing
  BY <1>1, <1>3, <1>5 DEF InstallShape, EntryOf
<1>6. CASE Recovery = mem.jr
  BY <1>1, <1>6 DEF EntryOf
<1>7. CASE /\ active # NoRec /\ SameAsJournal(active) /\ preparing # NoRec
           /\ SameAsJournal(preparing) /\ Recovery \in {active, preparing}
  BY <1>1, <1>7 DEF EntryOf, SameAsJournal
<1> QED
  BY <1>4, <1>5, <1>6, <1>7, InstallRecovery

LEMMA KeyQuiet ==
    ASSUME KeyOk, pc \in Fresh \cup Failing, pc' \in Fresh \cup Failing,
           key' = key, mem'.prev = mem.prev, mem'.entry = mem.entry, mem'.doc = mem.doc,
           mem'.holding = mem.holding, mem'.sel = mem.sel, mem'.jr.entry = mem.jr.entry,
           mem'.live = mem.live \/ (pc \in BeforePublish /\ mem'.live = key),
           mem'.failed \in {mem.failed, TRUE},
           \/ mem'.effects = TRUE
           \/ /\ mem'.effects = mem.effects
              /\ pc' \in {"setup", "plugins", "own"} \cup AfterPublish =>
                     pc \in {"setup", "plugins", "own"} \cup AfterPublish,
           pc' \in BeforePublish => pc \in BeforePublish, pc' \in AfterPublish => pc \in AfterPublish,
           pc' \in {"rb_record", "rb_config"} => pc \in BeforePublish \cup AfterPublish \cup {"rb_record"},
           pc' \in {"rb_roles", "rb_end"} => pc \in {"rb_roles", "rb_end"}, pc' # "rb_clear",
           \A rec \in {active', preparing', conflicted'} \ {NoRec} :
               rec \in Records \/ rec.entry = mem.jr.entry \/ rec = mem.prev
    PROVE  KeyOk'
<1>1. KeyInstall
  BY DEF KeyOk
<1>2. \A rec \in Records' : OfSelection(rec.entry)
  BY <1>1, KeyRecords DEF KeyInstall, EntryOf
<1>3. KeyInstall'
  <2>1. /\ \A values : KeyIs(values)' <=> KeyIs(values)
        /\ OfSelection(mem'.jr.entry) /\ OfSelection(mem'.entry) /\ OfSelection(EntryOf(mem'.prev))
        /\ mem'.doc.key \in Selections =>
             EntryOf(mem'.prev).last = mem'.doc.key /\ mem'.entry # NoEntry /\ mem'.jr.entry # NoEntry
    BY <1>1 DEF KeyInstall, KeyIs
  <2>2. /\ mem'.live \in Selections => mem'.live = mem'.doc.key
        /\ mem'.holding \in {"managed", "taken"} => mem'.entry.last = mem'.sel
        /\ mem'.holding = "kept" /\ mem'.doc.key \in Selections => mem'.entry.last = mem'.doc.key
    BY <1>1 DEF KeyInstall, KeyIs
  <2>3. /\ pc' \in BeforePublish => KeyIs({mem.doc.key})
        /\ pc' \in {"setup", "plugins", "own"} \cup AfterPublish => mem'.effects
        /\ pc' \in AfterPublish => KeyIs({mem.jr.entry.last})
    BY <1>1 DEF KeyInstall
  <2>4. pc' \in {"rb_record", "rb_config"} =>
            KeyIs({mem.doc.key}) \/ (mem'.effects /\ KeyIs({mem.jr.entry.last}))
    BY <1>1 DEF KeyInstall, AfterPublish
  <2>5. /\ pc' \in {"rb_roles", "rb_end"} => mem'.failed \/ KeyIs({mem.doc.key})
        /\ pc' \in {"rb_roles", "rb_end", "rb_clear"} => KeyIs({mem.doc.key, mem.jr.entry.last})
    BY <1>1 DEF KeyInstall
  <2> QED
    BY <2>1, <2>2, <2>3, <2>4, <2>5 DEF KeyInstall
<1> QED
  BY <1>2, <1>3, KeyInstalling

(* The one write of the key. *)
LEMMA KeyPublished ==
    ASSUME IInv, Typed, KeyInstall, pc = "plugins", Stays({"jr", "target"}), mem'.jr.entry = EntryAfter,
           \/ pc' = "published" /\ key' = Result
           \/ pc' = "rb_record" /\ key' \in {key, Result}
    PROVE  KeyInstall'
<1> USE DEF BeforePublish, AfterPublish
<1>1. TypedInstall(mem) /\ mem.effects /\ key \in KeyValues
  BY Memory, FreshPcs DEF KeyInstall, Typed, TypedSystem
<1>2. /\ mem'.prev = mem.prev /\ mem'.entry = mem.entry /\ mem'.doc = mem.doc
      /\ mem'.holding = mem.holding /\ mem'.sel = mem.sel /\ mem'.live = mem.live
      /\ mem'.effects = mem.effects
  BY DEF Stays, InstallFields
<1>3. key \in Selections => key = mem.doc.key
  BY <1>1 DEF KeyInstall, KeyIs
<1>4. /\ OfSelection(EntryAfter) /\ (mem.entry # NoEntry => EntryAfter # NoEntry)
      /\ mem.holding # "kept before" => EntryAfter = mem.entry
      /\ mem.holding = "kept before" /\ mem.live # Absent => EntryAfter.last = mem.live
  <2>1. CASE mem.holding = "kept before" /\ mem.live # Absent
    <3>1. mem.entry \in [orig : KeyValues, last : KeyValues] /\ mem.live \in KeyValues
      BY <1>1, <2>1 DEF TypedInstall, Entries
    <3>2. EntryAfter.orig = mem.entry.orig /\ EntryAfter.last = mem.live
      BY <2>1, <3>1 DEF EntryAfter
    <3>3. EntryAfter # NoEntry /\ mem.entry # NoEntry
      BY <3>1, <3>2, InstallAssumption DEF NoEntry
    <3> QED
      BY <2>1, <3>2, <3>3 DEF OfSelection, KeyInstall
  <2>2. CASE ~(mem.holding = "kept before" /\ mem.live # Absent)
    BY <2>2 DEF EntryAfter, KeyInstall
  <2> QED
    BY <2>1, <2>2
<1>5. Result \in Selections => Result = EntryAfter.last
  <2> SUFFICES ASSUME Result \in Selections PROVE Result = EntryAfter.last
    OBVIOUS
  <2>1. Absent \notin Selections
    BY SelectionAssumption
  <2>2. CASE mem.holding \in {"managed", "taken"}
    BY <1>4, <2>2 DEF Result, KeyInstall
  <2>3. CASE mem.holding = "kept before"
    BY <1>4, <2>1, <2>3 DEF Result
  <2>4. CASE mem.holding = "kept"
    BY <1>3, <1>4, <2>1, <2>4 DEF Result, KeyInstall
  <2> QED
    BY <1>1, <2>2, <2>3, <2>4 DEF TypedInstall
<1> QED
  BY <1>1, <1>2, <1>3, <1>4, <1>5 DEF KeyInstall, KeyIs

LEMMA KeyForward ==
    ASSUME IInv, Typed, Shaped, KeyOk, Forward
    PROVE  KeyOk'
<1> USE DEF Fresh, Failing, BeforePublish, AfterPublish
<1>0. pc \in Fresh
  BY DEF Forward, WriteFirstJournal, Snapshot, ReadRoles, InstallRole, JournalRoles, JournalPlan,
     SetUpPlugins, AddPlugin, JournalOwnership, PublishConfig, JournalConfig, OmitPlugin,
     JournalOmission, Verify, PublishRecord, ClearJournal
<1>1. /\ InstallShape /\ TypedInstall(mem) /\ mem.jr \in TransactionJournals /\ mem.jr # NoRec
      /\ KeyInstall /\ conflicted = NoRec /\ Usable(mem.prev, mem.jr)
  BY <1>0, Ready DEF InstallShape, KeyOk
<1>7. \A rec \in {active, preparing, conflicted} \ {NoRec} : rec \in Records
  BY DEF Records
<1>2. CASE WriteFirstJournal
  <2>1. /\ pc = "journal" /\ UNCHANGED <<active, conflicted, key>>
        /\ \/ pc' = "snapshot" /\ mem' = mem /\ preparing' = mem.jr
           \/ pc' = "idle" /\ preparing' \in {preparing, mem.jr}
    BY <1>2, WriteFirstEffect DEF config
  <2>2. CASE pc' = "snapshot"
    <3>1. mem.failed \in {mem.failed, TRUE} /\ mem' = mem
      BY <2>1, <2>2
    <3> QED
      BY <1>0, <1>7, <2>1, <2>2, <3>1, KeyQuiet
  <2>3. CASE pc' = "idle"
    <3>1. active = mem.prev /\ preparing = NoRec /\ mem.jr.entry = EntryOf(mem.prev)
      BY <1>1, <2>1 DEF InstallShape
    <3>2. Recovery' = mem.jr \/ Recovery' = mem.prev
      BY <1>1, <2>1, <2>3, <3>1, RecoveryIs DEF Recovery
    <3>3. key \in Selections => EntryOf(mem.prev).last = key /\ mem.jr.entry # NoEntry
      BY <1>1, <2>1 DEF KeyInstall, KeyIs
    <3>4. KeyHeld'
      BY <1>1, <2>1, <3>1, <3>2, <3>3, KeyHeldBy DEF EntryOf
    <3>5. \A rec \in Records' : OfSelection(rec.entry)
      BY <1>1, <1>7, <2>1, <2>3, KeyRecords DEF KeyInstall
    <3> QED
      BY <2>3, <3>4, <3>5, KeyAtRest
  <2> QED
    BY <2>1, <2>2, <2>3
<1>3. CASE JournalRoles \/ JournalPlan \/ JournalOwnership \/ JournalConfig \/ JournalOmission
  <2>1. /\ UNCHANGED <<active, conflicted, key>> /\ preparing' \in {preparing, mem'.jr}
        /\ \/ pc' = "rb_record"
           \/ <<pc, pc'>> \in {<<"roles", "plan">>, <<"plan", "setup">>, <<"own", "plugins">>,
                                <<"published", "omit">>, <<"unown", "omit">>}
        /\ mem'.effects = IF pc = "plan" THEN TRUE ELSE mem.effects
    BY <1>3, WriteEffect DEF config
  <2>2. /\ mem'.prev = mem.prev /\ mem'.entry = mem.entry /\ mem'.doc = mem.doc
        /\ mem'.holding = mem.holding /\ mem'.sel = mem.sel /\ mem'.live = mem.live
        /\ mem'.failed = mem.failed /\ mem'.jr.entry = mem.jr.entry
    BY <1>3, WriteEffect DEF Stays, InstallFields, JournalStays, JournalFields, RecordFields
  <2>3. \A rec \in {active', preparing', conflicted'} \ {NoRec} :
            rec \in Records \/ rec.entry = mem.jr.entry \/ rec = mem.prev
    BY <1>7, <2>1, <2>2
  <2>4. \/ mem'.effects = TRUE
        \/ /\ mem'.effects = mem.effects
           /\ pc' \in {"setup", "plugins", "own"} \cup AfterPublish =>
                  pc \in {"setup", "plugins", "own"} \cup AfterPublish
    BY <2>1
  <2> QED
    BY <1>0, <2>1, <2>2, <2>3, <2>4, KeyQuiet
<1>4. CASE \/ Snapshot \/ ReadRoles \/ InstallRole \/ SetUpPlugins \/ AddPlugin \/ OmitPlugin \/ Verify
           \/ PublishRecord
  <2>1. /\ UNCHANGED <<preparing, conflicted, key>>
        /\ mem'.prev = mem.prev /\ mem'.entry = mem.entry /\ mem'.doc = mem.doc
        /\ mem'.holding = mem.holding /\ mem'.sel = mem.sel /\ mem'.effects = mem.effects
        /\ mem'.failed = mem.failed
    BY <1>4, SnapshotEffect, ReadEffect, RoleEffect, SetUpEffect, AddEffect, OmitEffect, VerifyEffect,
       PublishRecordEffect DEF Stays, InstallFields, disk, config, RoleOutcome
  <2>2. /\ mem'.jr.entry = mem.jr.entry
        /\ mem'.live = mem.live \/ (pc = "snapshot" /\ mem'.live = key)
    BY <1>4, SnapshotEffect, ReadEffect, RoleEffect, SetUpEffect, AddEffect, OmitEffect, VerifyEffect,
       PublishRecordEffect
       DEF Stays, InstallFields, RoleOutcome, JournalStays, JournalFields, RecordFields
  <2>3. <<pc, pc'>> \in {<<"snapshot", "read">>, <<"read", "roles">>, <<"roles", "roles">>,
                <<"setup", "plugins">>, <<"plugins", "plugins">>, <<"plugins", "own">>,
                <<"omit", "unown">>, <<"omit", "record">>, <<"record", "clear">>}
        \/ pc' = "rb_record"
    BY <1>4, SnapshotEffect, ReadEffect, RoleEffect, SetUpEffect, AddEffect, OmitEffect, VerifyEffect,
       PublishRecordEffect DEF RoleOutcome
  <2>4. active' = active \/ active' = ActiveRecord
    BY <1>4, SnapshotEffect, ReadEffect, RoleEffect, SetUpEffect, AddEffect, OmitEffect, VerifyEffect,
       PublishRecordEffect DEF disk
  <2>5. ActiveRecord.entry = mem.jr.entry
    BY DEF ActiveRecord
  <2> QED
    BY <1>0, <1>7, <2>1, <2>2, <2>3, <2>4, <2>5, KeyQuiet
<1>5. CASE PublishConfig
  <2>1. UNCHANGED <<active, preparing, conflicted>> /\ pc' \in {"published", "rb_record"} /\ pc = "plugins"
    BY <1>5, PublishEffect DEF disk
  <2>2. CASE mem' = mem /\ key' = key /\ pc' = "rb_record"
    <3>1. mem.failed \in {mem.failed, TRUE}
      OBVIOUS
    <3> QED
      BY <1>0, <1>7, <2>1, <2>2, <3>1, KeyQuiet
  <2>3. CASE /\ Stays({"jr", "target"}) /\ mem'.jr.entry = EntryAfter
             /\ \/ pc' = "published" /\ key' = Result
                \/ pc' = "rb_record" /\ key' \in {key, Result}
    <3>1. KeyInstall'
      BY <1>1, <2>1, <2>3, KeyPublished
    <3>2. \A rec \in Records' : OfSelection(rec.entry)
      BY <1>7, <2>1, KeyRecords
    <3> QED
      BY <2>1, <3>1, <3>2, KeyInstalling
  <2> QED
    BY <1>5, <2>2, <2>3, PublishEffect
<1>6. CASE ClearJournal
  <2>1. /\ pc = "clear" /\ UNCHANGED <<active, key>>
        /\ \/ pc' = "idle" /\ preparing' = NoRec /\ conflicted' = NoRec
           \/ pc' = "rb_record" /\ mem' = mem /\ UNCHANGED <<preparing, conflicted>>
    BY <1>6, ClearEffect DEF config
  <2>2. CASE pc' = "rb_record"
    <3>1. /\ mem.failed \in {mem.failed, TRUE} /\ mem' = mem
          /\ UNCHANGED <<preparing, conflicted>>
      BY <2>1, <2>2
    <3> QED
      BY <1>0, <1>7, <2>1, <2>2, <3>1, KeyQuiet
  <2>3. CASE pc' = "idle"
    <3>1. /\ Recovery' = active /\ active # NoRec /\ active.entry = mem.jr.entry
          /\ preparing' = NoRec /\ conflicted' = NoRec
      BY <1>1, <2>1, <2>3, RecoveryIs DEF Recovery, InstallShape, SameAsJournal
    <3>2. key \in Selections => EntryOf(active).last = key /\ EntryOf(active) # NoEntry
      BY <1>1, <2>1, <3>1, EntryOfSelection DEF KeyInstall, KeyIs, EntryOf
    <3>3. KeyHeld'
      BY <2>1, <3>1, <3>2, KeyHeldBy
    <3>4. \A rec \in Records' : OfSelection(rec.entry)
      BY <1>7, <2>1, <3>1, KeyRecords
    <3> QED
      BY <2>3, <3>3, <3>4, KeyAtRest
  <2> QED
    BY <2>1, <2>2, <2>3
<1> QED
  BY <1>2, <1>3, <1>4, <1>5, <1>6 DEF Forward

(* What a reported failure, or a journal that stays, tells of the key.     *)
LEMMA KeyToldByJournal ==
    ASSUME pc \in Failing, KeyInstall, key' = key, active' = mem.prev,
           conflicted' = mem.jr, Recovery' = mem.jr, mem.jr # NoRec
    PROVE  KeyHeld'
<1>1. key \in Selections => EntryOf(mem.jr) # NoEntry /\ key \in {mem.doc.key, mem.jr.entry.last}
  BY KeyJournaled DEF EntryOf
<1>2. CASE key \in Selections => key = mem.jr.entry.last
  <2>1. key \in Selections => EntryOf(mem.jr).last = key
    BY <1>2 DEF EntryOf
  <2> QED
    BY <1>1, <2>1, KeyHeldBy
<1>3. CASE key \in Selections => key = mem.doc.key
  <2>1. key \in Selections => EntryOf(mem.prev).last = key
    BY <1>3 DEF KeyInstall
  <2> QED
    BY <1>1, <2>1, KeyHeldBy
<1> QED
  BY <1>1, <1>2, <1>3

LEMMA KeyRollBackSteps ==
    ASSUME IInv, Typed, Shaped, KeyOk, RollBack, "key" \notin notes'
    PROVE  KeyOk'
<1> USE DEF Fresh, Failing, BeforePublish, AfterPublish
<1>0. pc \in Failing
  BY DEF RollBack, RollBackRecord, RollBackConfig, RollBackRole, RollBackAdded, RollBackRemoved,
     RollBackEnd, ReportFailure, DropPreparing
<1>1. /\ InstallShape /\ TypedInstall(mem) /\ mem.jr \in TransactionJournals /\ mem.jr # NoRec
      /\ KeyInstall /\ Usable(mem.prev, mem.jr)
  BY <1>0, Ready DEF KeyOk
<1>7. \A rec \in {active, preparing, conflicted} \ {NoRec} : rec \in Records
  BY DEF Records
<1>2. CASE RollBackRecord \/ RollBackRole \/ RollBackAdded \/ RollBackRemoved \/ RollBackEnd
  <2>1. /\ UNCHANGED <<conflicted, key>> /\ preparing' \in {preparing, mem'.jr}
        /\ active' \in {active, mem.prev}
        /\ <<pc, pc'>> \in {<<"rb_record", "rb_config">>, <<"rb_roles", "rb_roles">>, <<"rb_roles", "rb_end">>}
    BY <1>2, RollBackRecordEffect, RollBackRoleEffect, RollBackAddedEffect, RollBackRemovedEffect,
       RollBackEndEffect DEF disk, config
  <2>2. /\ mem'.prev = mem.prev /\ mem'.entry = mem.entry /\ mem'.doc = mem.doc
        /\ mem'.holding = mem.holding /\ mem'.sel = mem.sel /\ mem'.effects = mem.effects
        /\ mem'.live = mem.live
    BY <1>2, RollBackRecordEffect, RollBackRoleEffect, RollBackAddedEffect, RollBackRemovedEffect,
       RollBackEndEffect DEF Stays, InstallFields
  <2>3. mem'.jr.entry = mem.jr.entry
    <3>1. CASE RollBackRecord \/ RollBackRole \/ RollBackAdded
      BY <3>1, RollBackRecordEffect, RollBackRoleEffect, RollBackAddedEffect DEF Stays, InstallFields
    <3>2. CASE RollBackRemoved \/ RollBackEnd
      BY <3>2, RollBackRemovedEffect, RollBackEndEffect DEF JournalStays, JournalFields, RecordFields
    <3> QED
      BY <1>2, <3>1, <3>2
  <2>4. mem'.failed \in {mem.failed, TRUE}
    <3>1. mem.failed \in BOOLEAN
      BY <1>1 DEF TypedInstall
    <3> QED
      BY <1>2, <3>1, RollBackRecordEffect, RollBackRoleEffect, RollBackAddedEffect,
         RollBackRemovedEffect, RollBackEndEffect
  <2>5. \A rec \in {active', preparing', conflicted'} \ {NoRec} :
            rec \in Records \/ rec.entry = mem.jr.entry \/ rec = mem.prev
    BY <1>7, <2>1, <2>3
  <2> QED
    BY <1>0, <2>1, <2>2, <2>3, <2>4, <2>5, KeyQuiet
<1>3. CASE RollBackConfig
  <2>1. /\ pc = "rb_config" /\ pc' = "rb_roles" /\ UNCHANGED disk
        /\ mem'.prev = mem.prev /\ mem'.entry = mem.entry /\ mem'.doc = mem.doc
        /\ mem'.holding = mem.holding /\ mem'.sel = mem.sel /\ mem'.effects = mem.effects
        /\ mem'.live = mem.live /\ mem'.jr = mem.jr
    BY <1>3, RollBackConfigEffect DEF Stays, InstallFields
  <2>2. \/ ~mem.effects /\ key' = key
        \/ mem.effects /\ key' = KeyRolledBack
        \/ mem'.failed = TRUE /\ key' \in {key, KeyRolledBack}
    BY <1>3, RollBackConfigEffect
  <2>3. /\ mem.live \in Selections => mem.live = mem.doc.key
        /\ key \in Selections => key \in {mem.doc.key, mem.jr.entry.last}
        /\ key \in Selections /\ ~mem.effects => key = mem.doc.key
    BY <1>1, <2>1 DEF KeyInstall, KeyIs
  <2>4. key \in Selections /\ key = mem.jr.entry.last => mem.jr.entry # NoEntry
    BY EntryOfSelection
  <2>5. /\ key' \in Selections => key' \in {mem.doc.key, mem.jr.entry.last}
        /\ mem'.failed = TRUE \/ (key' \in Selections => key' = mem.doc.key)
    BY <2>2, <2>3, <2>4 DEF KeyRolledBack
  <2>6. KeyInstall'
    BY <1>1, <2>1, <2>5 DEF KeyInstall, KeyIs
  <2>7. \A rec \in Records' : OfSelection(rec.entry)
    BY <1>7, <2>1, KeyRecords DEF disk
  <2> QED
    BY <2>1, <2>6, <2>7, KeyInstalling
<1>4. CASE ReportFailure
  <2>1. /\ pc = "rb_end" /\ UNCHANGED <<active, preparing, key>> /\ active = mem.prev
        /\ conflicted = NoRec
        /\ \/ mem.failed /\ pc' = "rb_clear" /\ mem' = mem /\ conflicted' = mem.jr
           \/ mem.failed /\ pc' = "idle" /\ conflicted' = mem.jr
           \/ pc' = "idle" /\ conflicted' = conflicted /\ Leaked \subseteq notes'
           \/ ~mem.failed /\ pc' = "rb_clear" /\ mem' = mem /\ conflicted' = conflicted
    BY <1>1, <1>4, ReportEffect DEF InstallShape, config
  <2>2. \A rec \in Records' : OfSelection(rec.entry)
    BY <1>1, <1>7, <2>1, KeyRecords DEF KeyInstall
  <2>3. CASE pc' = "rb_clear"
    <3>1. KeyInstall'
      BY <1>1, <2>1, <2>3 DEF KeyInstall, KeyIs
    <3> QED
      BY <2>2, <2>3, <3>1, KeyInstalling
  <2>4. CASE pc' = "idle" /\ conflicted' = mem.jr
    <3>1. Recovery' = mem.jr
      BY <1>1, <2>1, <2>4, RecoveryIs DEF Recovery
    <3>2. KeyHeld'
      BY <1>0, <1>1, <2>1, <2>4, <3>1, KeyToldByJournal
    <3> QED
      BY <2>2, <2>4, <3>2, KeyAtRest
  <2>5. CASE pc' = "idle" /\ conflicted' = conflicted /\ Leaked \subseteq notes'
    <3>1. Recovery' = Recovery /\ Records' = Records
      BY <2>1, <2>5, RecoveryStays DEF disk
    <3>2. KeyTold
      BY <2>5 DEF Leaked
    <3>3. KeyHeld
      BY <1>0, <1>1, <3>2, KeyRecovered
    <3>4. KeyHeld'
      BY <2>1, <3>1, <3>3 DEF KeyHeld, KeyTold
    <3> QED
      BY <2>2, <2>5, <3>4, KeyAtRest
  <2> QED
    BY <2>1, <2>3, <2>4, <2>5
<1>5. CASE DropPreparing
  <2>1. /\ pc = "rb_clear" /\ pc' = "idle" /\ UNCHANGED <<active, conflicted, key>>
        /\ preparing' \in {NoRec, preparing} /\ active = mem.prev /\ preparing # NoRec
        /\ preparing.entry \in {EntryOf(mem.prev), mem.jr.entry}
        /\ conflicted = NoRec \/ conflicted = mem.jr
    BY <1>1, <1>5, DropPreparingEffect DEF InstallShape, config
  <2>2. \A rec \in Records' : OfSelection(rec.entry)
    BY <1>7, <2>1, KeyRecords
  <2>3. CASE conflicted = mem.jr
    <3>1. Recovery' = mem.jr
      BY <1>1, <2>1, <2>3, RecoveryIs DEF Recovery
    <3>2. KeyHeld'
      BY <1>0, <1>1, <2>1, <2>3, <3>1, KeyToldByJournal
    <3> QED
      BY <2>1, <2>2, <3>2, KeyAtRest
  <2>4. CASE conflicted = NoRec
    <3>1. Usable(active, preparing)
      BY <1>1, <2>1, <2>4 DEF InstallShape, Usable, IsBound, DigestOf
    <3>2. Recovery' = mem.prev \/ Recovery' = preparing
      BY <2>1, <2>4, <3>1, RecoveryIs DEF Recovery
    <3>3. key \in Selections => EntryOf(mem.prev).last = key /\ mem.jr.entry # NoEntry
      BY <1>1, <2>1, <2>4 DEF KeyInstall, KeyIs
    <3>4. key \in Selections => EntryOf(mem.prev) # NoEntry
      BY <3>3, EntryOfSelection
    <3>5. key \in Selections => EntryOf(Recovery') # NoEntry
      BY <2>1, <3>2, <3>3, <3>4 DEF EntryOf
    <3>6. KeyHeld'
      BY <2>1, <3>3, <3>5, KeyHeldBy
    <3> QED
      BY <2>1, <2>2, <3>6, KeyAtRest
  <2> QED
    BY <2>1, <2>3, <2>4
<1> QED
  BY <1>2, <1>3, <1>4, <1>5 DEF RollBack

(* A removal: once config.toml is clean the key is not HolyCodex's.        *)
LEMMA KeyGone ==
    ASSUME pc \in Removing, KeyRemoval, pc' \in Removing \cup {"idle"}, key' \notin Selections,
           \A rec \in Records' : OfSelection(rec.entry),
           pc' \in Removing => /\ mem'.rec = mem.rec /\ mem'.doc = mem.doc
                               /\ mem'.conflicts = mem.conflicts
                               /\ mem'.now \in {mem.now, mem.rec} \/ mem'.now.entry = NoEntry
    PROVE  KeyOk'
<1>1. KeyHeld'
  BY DEF KeyHeld
<1>2. pc' \in Removing => KeyRemoval'
  BY <1>1 DEF KeyRemoval, OfSelection
<1> QED
  BY <1>1, <1>2, KeyAtRest, KeyRemoving

LEMMA KeyCleanConfig ==
    ASSUME IInv, Typed, Shaped, KeyOk, CleanConfig
    PROVE  KeyOk'
<1>1. /\ pc = "rm_config" /\ UNCHANGED disk
      /\ \/ StopsWith(mem.rec) /\ key' = key
         \/ /\ key' = KeyCleaned /\ key = mem.doc.key
            /\ \/ StopsWith(mem.rec)
               \/ /\ pc' = "rm_checkpoint" /\ RemovalStays({"now"})
                  /\ mem'.now = [mem.now EXCEPT !.entry = NoEntry]
  BY CleanEffect
<1>2. pc \in Removing /\ KeyRemoval /\ RemovalShape /\ TypedRemoval(mem) /\ KeyHeld
  BY <1>1, RemovalReady, RemovalPcs DEF KeyOk, KeyRemoval
<1>3. /\ mem'.rec = mem.rec /\ mem'.doc = mem.doc /\ mem'.conflicts = mem.conflicts
      /\ pc' \in {"rm_stop", "rm_checkpoint"}
  BY <1>1 DEF StopsWith, RemovalStays, RemovalFields
<1>4. \A rec \in Records' : OfSelection(rec.entry)
  BY <1>1, RecoveryStays DEF KeyOk
<1>5. key \in Selections => mem.rec.entry = EntryOf(Recovery) /\ mem.rec.entry # NoEntry
  <2>1. mem.rec = AsJournal(Recovery)
    BY <1>1, <1>2 DEF RemovalShape
  <2>2. EntryOf(Recovery) # NoEntry => mem.rec.entry = EntryOf(Recovery)
    BY <2>1, RecoveryTyped, JournalFormTyped DEF Recovery, EntryOf, Typed
  <2> QED
    BY <1>2, <2>2 DEF KeyHeld
<1>6. CASE StopsWith(mem.rec) /\ key' = key
  <2>1. KeyHeld' /\ EntryOf(Recovery') = EntryOf(Recovery)
    BY <1>1, <1>2, <1>6, RecoveryStays DEF KeyHeld, KeyTold, EntryOf
  <2>2. pc' = "rm_stop" /\ mem'.now = mem.rec
    BY <1>6 DEF StopsWith
  <2>3. KeyRemoval'
    BY <1>2, <1>3, <1>5, <1>6, <2>1, <2>2 DEF KeyRemoval, Clean
  <2> QED
    BY <1>4, <2>2, <2>3, KeyRemoving, RemovalPcs
<1>7. CASE /\ key' = KeyCleaned /\ key = mem.doc.key
           /\ \/ StopsWith(mem.rec)
              \/ pc' = "rm_checkpoint" /\ mem'.now = [mem.now EXCEPT !.entry = NoEntry]
  <2>1. KeyCleaned \notin Selections
    <3>1. CASE "key" \in mem.conflicts
      BY <3>1, SelectionAssumption DEF KeyCleaned
    <3>2. CASE "key" \notin mem.conflicts
      <4>1. mem.rec.entry = NoEntry \/ key = mem.rec.entry.last
        BY <1>2, <1>7, <3>2 DEF KeyRemoval
      <4>2. CASE mem.rec.entry = NoEntry
        BY <1>5, <3>2, <4>2 DEF KeyCleaned, Cleaned, Cleanable
      <4>3. CASE mem.rec.entry # NoEntry /\ key = mem.rec.entry.last
        BY <1>2, <3>2, <4>3 DEF KeyCleaned, Cleaned, Cleanable, KeyRemoval, OfSelection
      <4> QED
        BY <4>1, <4>2, <4>3
    <3> QED
      BY <3>1, <3>2
  <2>2. mem'.now = mem.rec \/ mem'.now.entry = NoEntry
    BY <1>2, <1>7 DEF StopsWith, TypedRemoval, TransactionJournals
  <2> QED
    BY <1>2, <1>3, <1>4, <1>7, <2>1, <2>2, KeyGone, RemovalPcs
<1> QED
  BY <1>1, <1>6, <1>7

LEMMA KeyWriteConflict ==
    ASSUME IInv, Typed, Shaped, KeyOk, WriteConflict
    PROVE  KeyOk'
<1>1. /\ pc = "rm_stop" /\ pc' = "idle" /\ UNCHANGED <<active, preparing, key>>
      /\ conflicted' \in {conflicted, mem.now}
  BY WriteConflictEffect DEF config
<1>2. /\ pc \in Removing /\ KeyRemoval /\ RemovalShape /\ mem.now # NoRec /\ KeyHeld
      /\ conflicted # NoRec => Usable(active, conflicted)
  BY <1>1, RemovalReady, RemovalPcs DEF KeyOk, KeyRemoval, Shaped
<1>3. \A rec \in Records' : OfSelection(rec.entry)
  BY <1>1, <1>2, KeyRecords DEF Records, KeyRemoval
<1>4. CASE conflicted' = conflicted
  <2>1. KeyHeld'
    BY <1>1, <1>2, <1>4, RecoveryStays DEF KeyHeld, KeyTold, disk
  <2> QED
    BY <1>1, <1>3, <2>1, KeyAtRest
<1>5. CASE conflicted' = mem.now
  <2>1. Recovery' = mem.now
    BY <1>1, <1>2, <1>5, RecoveryIs DEF Recovery, RemovalShape
  <2>2. key \in Selections => EntryOf(mem.now) = EntryOf(Recovery) /\ EntryOf(Recovery) # NoEntry
    BY <1>1, <1>2 DEF KeyRemoval, KeyHeld, EntryOf
  <2>3. key \in Selections => \E rec \in {active, preparing, mem.now} : EntryOf(rec).last = key
    <3> SUFFICES ASSUME key \in Selections
                 PROVE  \E rec \in {active, preparing, mem.now} : EntryOf(rec).last = key
      OBVIOUS
    <3>1. PICK rec \in Records : rec.entry.last = key
      BY <1>2 DEF KeyHeld, KeyTold
    <3>2. rec # NoRec /\ EntryOf(rec).last = key /\ rec \in {active, preparing, conflicted}
      BY <3>1 DEF Records, EntryOf
    <3>3. rec = conflicted => EntryOf(mem.now) = EntryOf(rec)
      BY <1>2, <2>2, <3>2, RecoveryIs DEF Recovery
    <3> QED
      BY <3>2, <3>3
  <2>4. KeyHeld'
    BY <1>1, <1>5, <2>1, <2>2, <2>3, KeyHeldBy
  <2> QED
    BY <1>1, <1>3, <2>4, KeyAtRest
<1> QED
  BY <1>1, <1>4, <1>5

LEMMA KeyRemovalSteps ==
    ASSUME IInv, Typed, Shaped, KeyOk, Removal, ~Restart
    PROVE  KeyOk'
<1>0. pc \in Removing
  BY RemovalPcs DEF Removal, CleanConfig, Checkpoint, WriteConflict, RemoveRole, RolesRemoved,
     RemovePlugin, DropActive, DropOptions, DropJournals, RemoveDirectories
<1>1. KeyRemoval
  BY <1>0 DEF KeyOk
<1>2. CASE /\ Checkpoint \/ RemoveRole \/ RolesRemoved \/ RemovePlugin \/ DropActive \/ DropOptions
              \/ DropJournals \/ RemoveDirectories
  <2>1. /\ key' = key /\ pc \in {"rm_checkpoint"} \cup Clean /\ pc' \in Removing \cup {"idle"}
    BY <1>2, CheckpointEffect, RemoveRoleEffect, RolesRemovedEffect, RemovePluginEffect, DropEffect,
       DropJournalsEffect, DirectoriesEffect, RemovalPcs DEF Clean, StopsWith, config
  <2>2. key' \notin Selections
    BY <1>1, <2>1 DEF KeyRemoval
  <2>3. active' \in {active, NoRec} /\ preparing' \in {preparing, NoRec}
        /\ conflicted' \in {conflicted, NoRec, mem.now}
    BY <1>2, CheckpointEffect, RemoveRoleEffect, RolesRemovedEffect, RemovePluginEffect, DropEffect,
       DropJournalsEffect, DirectoriesEffect DEF disk
  <2>4. \A rec \in Records' : OfSelection(rec.entry)
    BY <1>1, <2>3, KeyRecords DEF Records, KeyRemoval
  <2>5. pc' \in Removing => /\ mem'.rec = mem.rec /\ mem'.doc = mem.doc
                            /\ mem'.conflicts = mem.conflicts /\ mem'.now \in {mem.now, mem.rec}
    <3>1. "idle" \notin Removing
      BY DEF Removing
    <3>2. CASE Checkpoint \/ RolesRemoved
      BY <3>2, CheckpointEffect, RolesRemovedEffect DEF StopsWith, RemovalStays, RemovalFields
    <3>3. CASE RemoveRole \/ RemovePlugin
      BY <3>3, RemoveRoleEffect, RemovePluginEffect DEF StopsWith, RemovalStays, RemovalFields
    <3>4. CASE DropActive \/ DropOptions
      BY <3>4, DropEffect DEF StopsWith, RemovalStays, RemovalFields
    <3>5. CASE DropJournals \/ RemoveDirectories
      BY <3>1, <3>5, DropJournalsEffect, DirectoriesEffect DEF RemovalStays, RemovalFields
    <3> QED
      BY <1>2, <3>2, <3>3, <3>4, <3>5
  <2> QED
    BY <1>0, <1>1, <2>1, <2>2, <2>4, <2>5, KeyGone
<1> QED
  BY <1>2, KeyCleanConfig, KeyWriteConflict DEF Removal

(* A command begins. *)
LEMMA KeyBegin ==
    ASSUME Typed, KeyHeld, \A rec \in Records : OfSelection(rec.entry),
           NEW after, NEW accept, BeginRemoval(after, accept)
    PROVE  KeyOk'
<1>1. /\ pc' = "rm_config" /\ UNCHANGED <<disk, key>> /\ Recovery # NoRec
      /\ mem'.rec = AsJournal(Recovery) /\ mem'.now = AsJournal(Recovery)
      /\ mem'.conflicts = RemovalConflicts(Recovery) /\ mem'.doc.key = key
  BY BeginEffect DEF Recovery, config
<1>2. AsJournal(Recovery).entry = Recovery.entry
  BY <1>1, RecoveryTyped, JournalFormTyped DEF Recovery, Typed
<1>3. Recovery \in Records
  BY <1>1 DEF Recovery, RecoveryState, Interrupted, Records
<1>4. /\ Recovery.entry # NoEntry /\ key # Recovery.entry.last => "key" \in RemovalConflicts(Recovery)
  BY DEF RemovalConflicts, Cleanable
<1>5. KeyHeld' /\ Recovery' = Recovery /\ Records' = Records
  BY <1>1, RecoveryStays DEF KeyHeld, KeyTold
<1>6. KeyRemoval'
  BY <1>1, <1>2, <1>3, <1>4, <1>5 DEF KeyRemoval, Clean
<1> QED
  BY <1>1, <1>5, <1>6, KeyRemoving, RemovalPcs

LEMMA KeyPreflight ==
    ASSUME Typed, key \in Selections => EntryOf(active).last = key,
           \A rec \in Records : OfSelection(rec.entry),
           NEW sel \in Selections, NEW decision \in {"replace", "keep"}, Preflight(sel, decision),
           preparing = NoRec, conflicted = NoRec
    PROVE  KeyOk'
<1>1. /\ pc' = "journal" /\ UNCHANGED <<disk, key>> /\ mem'.prev = active
      /\ mem'.jr = FirstJournal(sel) /\ mem'.sel = sel /\ mem'.doc.key = key /\ mem'.live = key
  BY DEF Preflight, config
<1>10. mem'.entry = EntryPlanned(sel, decision)
  BY DEF Preflight, EntryPlanned
<1>2. mem'.holding = Holding(sel, decision)
  BY DEF Preflight
<1>3. FirstJournal(sel).entry = EntryOf(active) /\ OfSelection(EntryOf(active))
  BY DEF FirstJournal, EntryOf, OfSelection, Records
<1>4. key \in Selections => /\ EntryOf(active) # NoEntry /\ active # NoRec /\ key # Absent /\ key # NoRec
                            /\ EntryOf(active) = active.entry
  BY EntryOfSelection
<1>5. sel # NoRec
  BY EntryOfSelection
<1>6. /\ KeptBefore => EntryPlanned(sel, decision) = EntryOf(active) /\ EntryOf(active) # NoEntry
      /\ ~KeptBefore /\ decision = "keep" => EntryPlanned(sel, decision) = KeptEntry(EntryOf(active), key)
      /\ ~KeptBefore /\ decision # "keep" =>
            EntryPlanned(sel, decision) = Merged(EntryOf(active), key, sel)
  BY DEF EntryPlanned, KeptBefore, EntryOf
<1>7. /\ OfSelection(EntryPlanned(sel, decision))
      /\ key \in Selections => EntryPlanned(sel, decision) # NoEntry
  <2>1. CASE KeptBefore
    BY <1>3, <1>6, <2>1
  <2>2. CASE ~KeptBefore /\ decision = "keep"
    BY <1>3, <1>4, <1>6, <2>2 DEF KeptEntry, Entry, NoEntry, OfSelection
  <2>3. CASE ~KeptBefore /\ decision # "keep"
    BY <1>3, <1>4, <1>5, <1>6, <2>3 DEF Merged, Entry, NoEntry, OfSelection
  <2> QED
    BY <2>1, <2>2, <2>3
<1>8. /\ Holding(sel, decision) \in {"managed", "taken"} => EntryPlanned(sel, decision).last = sel
      /\ Holding(sel, decision) = "kept" /\ key \in Selections => EntryPlanned(sel, decision).last = key
  BY <1>4, <1>6 DEF Holding, Merged, KeptEntry, Entry
<1>9. KeyInstall'
  <2>1. mem'.doc.key = key /\ mem'.live = key /\ key' = key
    BY <1>1
  <2> QED
    BY <1>1, <1>2, <1>3, <1>4, <1>7, <1>8, <1>10, <2>1
       DEF KeyInstall, KeyIs, BeforePublish, AfterPublish
<1> QED
  BY <1>1, <1>9, KeyInstalling, FreshPcs, RecoveryStays

LEMMA KeyCommands ==
    ASSUME IInv, Typed, Shaped, KeyOk,
           (\E sel \in Selections : StartInstall(sel)) \/ StartRemove \/ Restart
    PROVE  KeyOk'
<1>0. \A rec \in Records : OfSelection(rec.entry)
  BY DEF KeyOk
<1>1. CASE \E sel \in Selections : StartInstall(sel)
  <2>1. PICK sel \in Selections : StartInstall(sel)
    BY <1>1
  <2>2. KeyHeld /\ pc = "idle"
    BY <2>1 DEF StartInstall, KeyOk
  <2>3. CASE UNCHANGED <<disk, config, files, installed, pc, mem, notes>>
    <3>1. KeyHeld' /\ pc' = "idle" /\ Records' = Records
      BY <2>2, <2>3, RecoveryStays DEF KeyHeld, KeyTold, config
    <3> QED
      BY <1>0, <3>1, KeyAtRest
  <2>4. CASE \E accept \in BOOLEAN : BeginRemoval(sel, accept)
    BY <1>0, <2>2, <2>4, KeyBegin
  <2>5. CASE /\ InstallMayStart(active, preparing, conflicted)
             /\ Interrupted(active, preparing, conflicted) = NoRec
             /\ \E decision \in {"replace", "keep"} : Preflight(sel, decision)
    <3>1. preparing = NoRec /\ conflicted = NoRec
      BY <2>5, NoJournals
    <3>2. key \in Selections => EntryOf(active).last = key
      BY <2>2, <3>1 DEF KeyHeld, KeyTold, Records, EntryOf
    <3> QED
      BY <1>0, <2>5, <3>1, <3>2, KeyPreflight
  <2> QED
    BY <2>1, <2>3, <2>4, <2>5 DEF StartInstall
<1>2. CASE StartRemove
  BY <1>0, <1>2, KeyBegin DEF StartRemove, KeyOk
<1>3. CASE Restart
  <2>1. pc = "restart" /\ pc \in Removing
    BY <1>3, RemovalPcs DEF Restart
  <2>2. preparing = NoRec /\ conflicted = NoRec
    BY <2>1, RemovalReady DEF RemovalShape
  <2>3. mem.after \in Selections
    BY <2>1 DEF IInv, RemovalInv
  <2>4. key \notin Selections
    BY <2>1 DEF KeyOk, KeyRemoval, Clean
  <2> QED
    BY <1>0, <1>3, <2>2, <2>3, <2>4, KeyPreflight DEF Restart
<1> QED
  BY <1>1, <1>2, <1>3

LEMMA KeyShrinks ==
    ASSUME KeyOk, UNCHANGED <<disk, pc, mem>>, key' = key \/ key' \notin Selections,
           pc \in {"idle"} \cup Fresh \cup Failing \cup Removing
    PROVE  KeyOk'
<1>1. Recovery' = Recovery /\ Records' = Records /\ (\A rec \in Records' : OfSelection(rec.entry))
  BY RecoveryStays DEF KeyOk
<1>2. CASE pc = "idle"
  <2>1. KeyHeld'
    BY <1>1, <1>2 DEF KeyOk, KeyHeld, KeyTold
  <2> QED
    BY <1>1, <1>2, <2>1, KeyAtRest
<1>3. CASE pc \in Fresh \cup Failing
  <2>1. KeyInstall'
    BY <1>3 DEF KeyOk, KeyInstall, KeyIs, disk
  <2> QED
    BY <1>1, <1>3, <2>1, KeyInstalling
<1>4. CASE pc \in Removing
  <2>1. KeyHeld => KeyHeld'
    BY <1>1 DEF KeyHeld, KeyTold
  <2>2. KeyRemoval'
    BY <1>1, <1>4, <2>1 DEF KeyOk, KeyRemoval
  <2> QED
    BY <1>1, <1>4, <2>2, KeyRemoving
<1> QED
  BY <1>2, <1>3, <1>4

LEMMA KeyCrash ==
    ASSUME IInv, Typed, Shaped, KeyOk, Crash, "key" \notin notes'
    PROVE  KeyOk'
<1>1. pc' = "idle" /\ UNCHANGED <<disk, key>> /\ Leaked \subseteq notes'
  BY DEF Crash, config
<1>2. KeyTold
  BY <1>1 DEF Leaked
<1>3. KeyHeld
  <2>1. CASE pc \in Fresh \cup Failing
    BY <1>2, <2>1, KeyRecovered DEF KeyOk
  <2>2. CASE pc \in Removing
    BY <2>2 DEF KeyOk, KeyRemoval, KeyHeld, Clean, Removing
  <2>3. CASE pc = "idle"
    BY <2>3 DEF KeyOk
  <2> QED
    BY <2>1, <2>2, <2>3 DEF IInv
<1>4. KeyHeld' /\ \A rec \in Records' : OfSelection(rec.entry)
  BY <1>1, <1>3, RecoveryStays DEF KeyHeld, KeyTold, KeyOk
<1> QED
  BY <1>1, <1>4, KeyAtRest

LEMMA KeyNext == IInv /\ Typed /\ Shape /\ KeyInv /\ [Next]_vars => KeyInv'
<1> SUFFICES ASSUME IInv, Typed, Shape, KeyInv, [Next]_vars, "key" \notin notes'
             PROVE  KeyOk'
  BY DEF KeyInv
<1>1. KeyOk /\ Sane /\ pc \in {"idle"} \cup Fresh \cup Failing \cup Removing
  BY NotesGrow DEF KeyInv, Sane, IInv
<1>2. Shaped
  BY <1>1 DEF Shape
<1>3. CASE UNCHANGED vars
  BY <1>1, <1>3, KeyShrinks DEF vars, config
<1>4. CASE Forward
  BY <1>1, <1>2, <1>4, KeyForward
<1>5. CASE RollBack
  BY <1>1, <1>2, <1>5, KeyRollBackSteps
<1>6. CASE Removal
  BY <1>1, <1>2, <1>6, KeyRemovalSteps, KeyCommands
<1>7. CASE (\E sel \in Selections : StartInstall(sel)) \/ StartRemove
  BY <1>1, <1>2, <1>7, KeyCommands
<1>8. CASE User \/ NewRelease
  <2>1. UNCHANGED <<disk, pc, mem>>
    BY <1>8 DEF User, EditKey, EditFile, TogglePlugin, NewRelease
  <2>2. key' = key \/ key' \notin Selections
    BY <1>8, SelectionAssumption DEF User, EditKey, EditFile, TogglePlugin, NewRelease, config
  <2> QED
    BY <1>1, <2>1, <2>2, KeyShrinks
<1>9. CASE Crash
  BY <1>1, <1>2, <1>9, KeyCrash
<1> QED
  BY <1>3, <1>4, <1>5, <1>6, <1>7, <1>8, <1>9 DEF Next, Step

LEMMA KeyInit == Init => KeyInv
<1> SUFFICES ASSUME Init PROVE KeyOk
  BY DEF KeyInv
<1>1. pc = "idle" /\ Records = {}
  BY DEF Init, Records
<1>2. key \notin Selections
  BY InstallAssumption, SelectionAssumption DEF Init
<1> QED
  BY <1>1, <1>2, Pcs DEF KeyOk, KeyHeld, Fresh, Failing, Removing

(***************************************************************************)
(* What the user had at first, in every entry.                             *)
(***************************************************************************)
LEMMA OriginalInstalling ==
    ASSUME pc' \in Fresh \cup Failing, key' \in Selections \cup {mine.key}, mine' = mine,
           \A rec \in Records' : Original(rec.entry), OriginalInstall'
    PROVE  OriginalOk'
BY Pcs DEF OriginalOk, Original

LEMMA OriginalAtRest ==
    ASSUME pc' = "idle", key' \in Selections \cup {mine.key}, mine' = mine,
           \A rec \in Records' : Original(rec.entry)
    PROVE  OriginalOk'
BY Pcs DEF OriginalOk, Original

LEMMA OriginalRemoving ==
    ASSUME pc' \in Removing, key' \in Selections \cup {mine.key}, mine' = mine,
           \A rec \in Records' : Original(rec.entry), OriginalRemoval'
    PROVE  OriginalOk'
BY Pcs DEF OriginalOk, Original

LEMMA OriginalRecords ==
    ASSUME OriginalOk, \A rec \in {active', preparing', conflicted'} \ {NoRec} :
                           rec \in Records \/ Original(rec.entry)
    PROVE  \A rec \in Records' : Original(rec.entry)
BY DEF OriginalOk, Records

LEMMA OriginalQuiet ==
    ASSUME OriginalOk, pc \in Fresh \cup Failing, pc' \in {"idle"} \cup Fresh \cup Failing,
           key' \in {key, mem.live}, mine' = mine,
           pc' # "idle" =>
               /\ mem'.prev = mem.prev /\ mem'.entry = mem.entry /\ mem'.doc = mem.doc
               /\ mem'.jr.entry = mem.jr.entry /\ mem'.live \in {mem.live, key},
           \A rec \in {active', preparing', conflicted'} \ {NoRec} :
               rec \in Records \/ rec.entry = mem.jr.entry \/ rec = mem.prev
    PROVE  OriginalOk'
<1>1. OriginalInstall /\ key \in Selections \cup {mine.key}
  BY DEF OriginalOk
<1>2. \A rec \in Records' : Original(rec.entry)
  BY <1>1, OriginalRecords DEF OriginalInstall, EntryOf
<1>3. key' \in Selections \cup {mine.key}
  BY <1>1 DEF OriginalInstall
<1>4. CASE pc' = "idle"
  BY <1>2, <1>3, <1>4, OriginalAtRest
<1>5. CASE pc' \in Fresh \cup Failing /\ pc' # "idle"
  <2>1. OriginalInstall'
    BY <1>1, <1>5 DEF OriginalInstall, Original
  <2> QED
    BY <1>2, <1>3, <1>5, <2>1, OriginalInstalling
<1> QED
  BY <1>4, <1>5

LEMMA OriginalPublished ==
    ASSUME IInv, Typed, KeyInstall, OriginalOk, pc = "plugins", Stays({"jr", "target"}),
           mem'.jr.entry = EntryAfter, mine' = mine, UNCHANGED disk,
           pc' \in {"published", "rb_record"}, key' \in {key, Result}
    PROVE  OriginalOk'
<1>1. /\ TypedInstall(mem) /\ OriginalInstall /\ key \in Selections \cup {mine.key}
      /\ \A rec \in Records : Original(rec.entry)
  BY Memory, FreshPcs DEF OriginalOk
<1>2. /\ mem'.prev = mem.prev /\ mem'.entry = mem.entry /\ mem'.doc = mem.doc /\ mem'.live = mem.live
  BY DEF Stays, InstallFields
<1>3. Original(EntryAfter)
  <2>1. CASE mem.holding = "kept before" /\ mem.live # Absent
    <3>1. mem.entry \in [orig : KeyValues, last : KeyValues] /\ mem.entry # NoEntry
      BY <1>1, <2>1 DEF TypedInstall, Entries
    <3>2. EntryAfter.orig = mem.entry.orig
      BY <2>1, <3>1 DEF EntryAfter
    <3> QED
      BY <1>1, <3>1, <3>2 DEF OriginalInstall, Original
  <2>2. CASE ~(mem.holding = "kept before" /\ mem.live # Absent)
    BY <1>1, <2>2 DEF EntryAfter, OriginalInstall
  <2> QED
    BY <2>1, <2>2
<1>4. Result \in Selections \cup {mine.key}
  BY <1>1 DEF Result, OriginalInstall, TypedInstall
<1>5. OriginalInstall'
  BY <1>1, <1>2, <1>3 DEF OriginalInstall, Original
<1>6. Records' = Records /\ mine'.key = mine.key
  BY RecoveryStays
<1> QED
  BY <1>1, <1>4, <1>5, <1>6, OriginalInstalling, FreshPcs

LEMMA OriginalForward ==
    ASSUME IInv, Typed, Shaped, KeyOk, OriginalOk, Forward
    PROVE  OriginalOk'
<1> USE DEF Fresh, Failing
<1>0. pc \in Fresh /\ mine' = mine
  BY MineStays DEF Forward, WriteFirstJournal, Snapshot, ReadRoles, InstallRole, JournalRoles, JournalPlan,
     SetUpPlugins, AddPlugin, JournalOwnership, PublishConfig, JournalConfig, OmitPlugin,
     JournalOmission, Verify, PublishRecord, ClearJournal, Next, Step
<1>7. \A rec \in {active, preparing, conflicted} \ {NoRec} : rec \in Records
  BY DEF Records
<1>2. CASE WriteFirstJournal \/ ClearJournal \/ PublishRecord
  <2>1. /\ key' = key /\ pc' \in {"idle"} \cup Fresh \cup Failing
        /\ pc' # "idle" => mem' = mem
    BY <1>2, WriteFirstEffect, ClearEffect, PublishRecordEffect DEF config
  <2>2. /\ active' \in {active, ActiveRecord} /\ preparing' \in {preparing, mem.jr, NoRec}
        /\ conflicted' \in {conflicted, NoRec} /\ ActiveRecord.entry = mem.jr.entry
    BY <1>2, WriteFirstEffect, ClearEffect, PublishRecordEffect DEF ActiveRecord
  <2> QED
    BY <1>0, <1>7, <2>1, <2>2, OriginalQuiet
<1>3. CASE \/ JournalRoles \/ JournalPlan \/ JournalOwnership \/ JournalConfig \/ JournalOmission
  <2>1. /\ UNCHANGED <<active, conflicted, key>> /\ preparing' \in {preparing, mem'.jr}
        /\ pc' \in Fresh \cup Failing
    BY <1>3, WriteEffect DEF config
  <2>2. /\ mem'.prev = mem.prev /\ mem'.entry = mem.entry /\ mem'.doc = mem.doc
        /\ mem'.live = mem.live /\ mem'.jr.entry = mem.jr.entry
    BY <1>3, WriteEffect DEF Stays, InstallFields, JournalStays, JournalFields, RecordFields
  <2> QED
    BY <1>0, <1>7, <2>1, <2>2, OriginalQuiet
<1>4. CASE Snapshot \/ ReadRoles \/ InstallRole \/ SetUpPlugins \/ AddPlugin \/ OmitPlugin \/ Verify
  <2>1. /\ UNCHANGED <<active, preparing, conflicted, key>> /\ pc' \in Fresh \cup Failing
        /\ mem'.prev = mem.prev /\ mem'.entry = mem.entry /\ mem'.doc = mem.doc
    BY <1>4, SnapshotEffect, ReadEffect, RoleEffect, SetUpEffect, AddEffect, OmitEffect, VerifyEffect
       DEF Stays, InstallFields, disk, config, RoleOutcome
  <2>2. mem'.jr.entry = mem.jr.entry /\ mem'.live \in {mem.live, key}
    BY <1>4, SnapshotEffect, ReadEffect, RoleEffect, SetUpEffect, AddEffect, OmitEffect, VerifyEffect
       DEF Stays, InstallFields, RoleOutcome, JournalStays, JournalFields, RecordFields
  <2> QED
    BY <1>0, <1>7, <2>1, <2>2, OriginalQuiet
<1>5. CASE PublishConfig
  <2>1. UNCHANGED disk /\ pc' \in {"published", "rb_record"} /\ pc = "plugins"
    BY <1>5, PublishEffect
  <2>2. CASE mem' = mem /\ key' = key
    BY <1>0, <1>7, <2>1, <2>2, OriginalQuiet DEF disk
  <2>3. CASE /\ Stays({"jr", "target"}) /\ mem'.jr.entry = EntryAfter /\ key' \in {key, Result}
    BY <1>0, <2>1, <2>3, OriginalPublished DEF KeyOk
  <2> QED
    BY <1>5, <2>2, <2>3, PublishEffect
<1> QED
  BY <1>2, <1>3, <1>4, <1>5 DEF Forward

LEMMA OriginalRollBack ==
    ASSUME IInv, Typed, Shaped, OriginalOk, RollBack
    PROVE  OriginalOk'
<1> USE DEF Fresh, Failing
<1>0. pc \in Failing /\ mine' = mine
  BY MineStays DEF RollBack, RollBackRecord, RollBackConfig, RollBackRole, RollBackAdded, RollBackRemoved,
     RollBackEnd, ReportFailure, DropPreparing, Next, Step
<1>7. \A rec \in {active, preparing, conflicted} \ {NoRec} : rec \in Records
  BY DEF Records
<1>2. CASE RollBackRecord \/ RollBackConfig \/ RollBackRole \/ RollBackAdded
  <2>1. /\ key' \in {key, mem.live} /\ pc' \in Failing
        /\ active' \in {active, mem.prev} /\ UNCHANGED <<preparing, conflicted>>
    BY <1>2, RollBackRecordEffect, RollBackConfigEffect, RollBackRoleEffect, RollBackAddedEffect
       DEF disk, config, KeyRolledBack
  <2>2. /\ mem'.prev = mem.prev /\ mem'.entry = mem.entry /\ mem'.doc = mem.doc
        /\ mem'.live = mem.live /\ mem'.jr = mem.jr
    BY <1>2, RollBackRecordEffect, RollBackConfigEffect, RollBackRoleEffect, RollBackAddedEffect
       DEF Stays, InstallFields
  <2> QED
    BY <1>0, <1>7, <2>1, <2>2, OriginalQuiet
<1>3. CASE RollBackRemoved \/ RollBackEnd
  <2>1. /\ key' = key /\ pc' \in Failing /\ UNCHANGED <<active, conflicted>>
        /\ preparing' \in {preparing, mem'.jr}
    BY <1>3, RollBackRemovedEffect, RollBackEndEffect DEF disk, config
  <2>2. /\ mem'.prev = mem.prev /\ mem'.entry = mem.entry /\ mem'.doc = mem.doc
        /\ mem'.live = mem.live /\ mem'.jr.entry = mem.jr.entry
    BY <1>3, RollBackRemovedEffect, RollBackEndEffect
       DEF Stays, InstallFields, JournalStays, JournalFields, RecordFields
  <2> QED
    BY <1>0, <1>7, <2>1, <2>2, OriginalQuiet
<1>4. CASE ReportFailure \/ DropPreparing
  <2>1. /\ key' = key /\ pc' \in {"idle", "rb_clear"} /\ active' = active
        /\ preparing' \in {NoRec, preparing} /\ conflicted' \in {conflicted, mem.jr}
        /\ pc' # "idle" => mem' = mem
    BY <1>4, ReportEffect, DropPreparingEffect DEF config
  <2> QED
    BY <1>0, <1>7, <2>1, OriginalQuiet
<1> QED
  BY <1>2, <1>3, <1>4 DEF RollBack

LEMMA OriginalGoesOn ==
    ASSUME OriginalOk, pc \in Removing, pc' \in {"idle"} \cup Removing,
           key' \in Selections \cup {mine.key}, mine' = mine,
           active' \in {active, NoRec}, preparing' \in {preparing, NoRec},
           conflicted' \in {conflicted, NoRec, mem.now},
           pc' # "idle" =>
               /\ mem'.rec = mem.rec /\ mem'.conflicts = mem.conflicts /\ mem'.accept = mem.accept
               /\ mem'.now \in {mem.now, mem.rec} \/ mem'.now.entry = NoEntry
    PROVE  OriginalOk'
<1>1. OriginalRemoval
  BY DEF OriginalOk
<1>2. \A rec \in Records' : Original(rec.entry)
  BY <1>1, OriginalRecords DEF OriginalRemoval, Records
<1>3. CASE pc' = "idle"
  BY <1>2, <1>3, OriginalAtRest
<1>4. CASE pc' \in Removing /\ pc' # "idle"
  <2>1. OriginalRemoval'
    BY <1>1, <1>4 DEF OriginalRemoval, Original
  <2> QED
    BY <1>2, <1>4, <2>1, OriginalRemoving
<1> QED
  BY <1>3, <1>4

LEMMA OriginalRemovalSteps ==
    ASSUME IInv, Typed, Shaped, OriginalOk, Removal, ~Restart
    PROVE  OriginalOk'
<1>0. pc \in Removing /\ mine' = mine
  BY RemovalPcs, MineStays DEF Removal, CleanConfig, Checkpoint, WriteConflict, RemoveRole, RolesRemoved,
     RemovePlugin, DropActive, DropOptions, DropJournals, RemoveDirectories, Next, Step
<1>1. OriginalRemoval /\ TypedRemoval(mem) /\ key \in Selections \cup {mine.key}
  BY <1>0, RemovalReady DEF OriginalOk
<1>2. CASE CleanConfig
  <2>1. /\ UNCHANGED disk
        /\ \/ StopsWith(mem.rec) /\ key' = key
           \/ /\ key' = KeyCleaned /\ ~Declined("key")
              /\ \/ StopsWith(mem.rec)
                 \/ /\ pc' = "rm_checkpoint" /\ RemovalStays({"now"})
                    /\ mem'.now = [mem.now EXCEPT !.entry = NoEntry]
    BY <1>2, CleanEffect
  <2>2. ~Declined("key") => KeyCleaned \in {key, mine.key}
    BY <1>1 DEF Declined, KeyCleaned, Cleaned, Cleanable, OriginalRemoval, Original
  <2>3. /\ mem'.rec = mem.rec /\ mem'.conflicts = mem.conflicts /\ mem'.accept = mem.accept
        /\ pc' \in Removing
    BY <2>1, RemovalPcs DEF StopsWith, RemovalStays, RemovalFields
  <2>4. mem'.now = mem.rec \/ mem'.now.entry = NoEntry
    BY <1>1, <2>1 DEF StopsWith, TypedRemoval, TransactionJournals
  <2>5. key' \in Selections \cup {mine.key}
    BY <1>1, <2>1, <2>2
  <2> QED
    BY <1>0, <2>1, <2>3, <2>4, <2>5, OriginalGoesOn DEF disk
<1>3. CASE \/ Checkpoint \/ WriteConflict \/ RemoveRole \/ RolesRemoved \/ RemovePlugin \/ DropActive
           \/ DropOptions \/ DropJournals \/ RemoveDirectories
  <2>1. /\ key' = key /\ pc' \in {"idle"} \cup Removing
        /\ active' \in {active, NoRec} /\ preparing' \in {preparing, NoRec}
        /\ conflicted' \in {conflicted, NoRec, mem.now}
    BY <1>3, CheckpointEffect, WriteConflictEffect, RemoveRoleEffect, RolesRemovedEffect,
       RemovePluginEffect, DropEffect, DropJournalsEffect, DirectoriesEffect, RemovalPcs
       DEF StopsWith, disk, config
  <2>2. pc' # "idle" => /\ mem'.rec = mem.rec /\ mem'.accept = mem.accept
                        /\ mem'.conflicts = mem.conflicts /\ mem'.now \in {mem.now, mem.rec}
    <3>1. CASE Checkpoint \/ WriteConflict \/ RolesRemoved
      BY <3>1, CheckpointEffect, WriteConflictEffect, RolesRemovedEffect
         DEF StopsWith, RemovalStays, RemovalFields
    <3>2. CASE RemoveRole \/ RemovePlugin
      BY <3>2, RemoveRoleEffect, RemovePluginEffect DEF StopsWith, RemovalStays, RemovalFields
    <3>3. CASE DropActive \/ DropOptions
      BY <3>3, DropEffect DEF StopsWith, RemovalStays, RemovalFields
    <3>4. CASE DropJournals \/ RemoveDirectories
      BY <3>4, DropJournalsEffect, DirectoriesEffect DEF RemovalStays, RemovalFields
    <3> QED
      BY <1>3, <3>1, <3>2, <3>3, <3>4
  <2> QED
    BY <1>0, <1>1, <2>1, <2>2, OriginalGoesOn
<1> QED
  BY <1>2, <1>3 DEF Removal

LEMMA OriginalBegin ==
    ASSUME Typed, key \in Selections \cup {mine.key}, \A rec \in Records : Original(rec.entry),
           mine' = mine, NEW after, NEW accept, BeginRemoval(after, accept), notes' = {}
    PROVE  OriginalOk'
<1>1. /\ pc' = "rm_config" /\ UNCHANGED <<disk, key>> /\ Recovery # NoRec
      /\ mem'.rec = AsJournal(Recovery) /\ mem'.now = AsJournal(Recovery)
      /\ mem'.conflicts = RemovalConflicts(Recovery) /\ mem'.accept = accept
      /\ notes' = notes \cup {c \in {"accepted"} : accept /\ "key" \in RemovalConflicts(Recovery)}
  BY BeginEffect DEF Recovery, config
<1>2. AsJournal(Recovery).entry = Recovery.entry
  BY <1>1, RecoveryTyped, JournalFormTyped DEF Recovery, Typed
<1>3. Recovery \in Records
  BY <1>1 DEF Recovery, RecoveryState, Interrupted, Records
<1>4. ~(accept /\ "key" \in RemovalConflicts(Recovery))
  <2>1. "accepted" \notin notes'
    OBVIOUS
  <2> QED
    BY <1>1, <2>1
<1>5. Records' = Records
  BY <1>1, RecoveryStays
<1>6. OriginalRemoval'
  BY <1>1, <1>2, <1>3, <1>4 DEF OriginalRemoval, Original
<1> QED
  BY <1>1, <1>5, <1>6, OriginalRemoving, RemovalPcs

LEMMA OriginalPreflight ==
    ASSUME Typed, key \in Selections => EntryOf(active).last = key,
           key \in Selections \cup {mine.key}, \A rec \in Records : Original(rec.entry), mine' = mine,
           NEW sel \in Selections, NEW decision \in {"replace", "keep"}, Preflight(sel, decision)
    PROVE  OriginalOk'
<1>1. /\ pc' = "journal" /\ UNCHANGED <<disk, key>> /\ mem'.prev = active
      /\ mem'.jr = FirstJournal(sel) /\ mem'.doc.key = key /\ mem'.live = key
  BY DEF Preflight, config
<1>2. mem'.entry = EntryPlanned(sel, decision)
  BY DEF Preflight, EntryPlanned
<1>3. FirstJournal(sel).entry = EntryOf(active) /\ Original(EntryOf(active))
  BY DEF FirstJournal, EntryOf, Original, Records
<1>4. EntryOf(active) = NoEntry => key = mine.key
  BY EntryOfSelection
<1>5. Original(EntryPlanned(sel, decision))
  <2>1. KeptBefore => active.entry = EntryOf(active)
    BY DEF KeptBefore, EntryOf
  <2> QED
    BY <1>3, <1>4, <2>1 DEF EntryPlanned, KeptEntry, Merged, Entry, Original
<1>6. OriginalInstall'
  BY <1>1, <1>2, <1>3, <1>5 DEF OriginalInstall, Original
<1>7. Records' = Records
  BY <1>1, RecoveryStays
<1> QED
  BY <1>1, <1>6, <1>7, OriginalInstalling, FreshPcs

LEMMA OriginalCommands ==
    ASSUME IInv, Typed, Shaped, KeyOk, OriginalOk, notes' = {},
           (\E sel \in Selections : StartInstall(sel)) \/ StartRemove \/ Restart
    PROVE  OriginalOk'
<1>0. /\ key \in Selections \cup {mine.key} /\ mine' = mine
      /\ \A rec \in Records : Original(rec.entry)
  BY MineStays DEF OriginalOk, Next, Step, Removal
<1>1. CASE \E sel \in Selections : StartInstall(sel)
  <2>1. PICK sel \in Selections : StartInstall(sel)
    BY <1>1
  <2>2. CASE UNCHANGED <<disk, config, files, installed, pc, mem, notes>>
    <3>1. pc' = "idle" /\ Records' = Records /\ key' = key
      BY <2>1, <2>2, RecoveryStays DEF StartInstall, config
    <3> QED
      BY <1>0, <3>1, OriginalAtRest
  <2>3. CASE \E accept \in BOOLEAN : BeginRemoval(sel, accept)
    BY <1>0, <2>3, OriginalBegin
  <2>4. CASE /\ InstallMayStart(active, preparing, conflicted)
             /\ Interrupted(active, preparing, conflicted) = NoRec
             /\ \E decision \in {"replace", "keep"} : Preflight(sel, decision)
    <3>1. preparing = NoRec /\ conflicted = NoRec /\ KeyHeld
      BY <2>1, <2>4, NoJournals DEF StartInstall, KeyOk
    <3>2. key \in Selections => EntryOf(active).last = key
      BY <3>1 DEF KeyHeld, KeyTold, Records, EntryOf
    <3> QED
      BY <1>0, <2>4, <3>2, OriginalPreflight
  <2> QED
    BY <2>1, <2>2, <2>3, <2>4 DEF StartInstall
<1>2. CASE StartRemove
  BY <1>0, <1>2, OriginalBegin DEF StartRemove
<1>3. CASE Restart
  <2>1. pc = "restart" /\ pc \in Removing
    BY <1>3, RemovalPcs DEF Restart
  <2>2. mem.after \in Selections
    BY <2>1 DEF IInv, RemovalInv
  <2>3. key \notin Selections
    BY <2>1 DEF KeyOk, KeyRemoval, Clean
  <2> QED
    BY <1>0, <1>3, <2>2, <2>3, OriginalPreflight DEF Restart
<1> QED
  BY <1>1, <1>2, <1>3

LEMMA OriginalShrinks ==
    ASSUME OriginalOk, UNCHANGED <<disk, key, pc, mem, mine>>
    PROVE  OriginalOk'
<1>1. Records' = Records
  BY RecoveryStays
<1> QED
  BY <1>1 DEF OriginalOk, OriginalInstall, OriginalRemoval, Original

LEMMA OriginalNext ==
    IInv /\ Typed /\ Shape /\ KeyInv /\ OriginalInv /\ [Next]_vars => OriginalInv'
<1> SUFFICES ASSUME IInv, Typed, Shape, KeyInv, OriginalInv, [Next]_vars, notes' = {}
             PROVE  OriginalOk'
  BY DEF OriginalInv
<1>1. notes = {} /\ OriginalOk /\ KeyOk /\ Sane /\ mine' = mine
  BY NotesGrow, MineStays DEF OriginalInv, KeyInv, Sane
<1>2. Shaped
  BY <1>1 DEF Shape
<1>3. CASE UNCHANGED vars
  BY <1>1, <1>3, OriginalShrinks DEF vars, config
<1>4. CASE Forward
  BY <1>1, <1>2, <1>4, OriginalForward
<1>5. CASE RollBack
  BY <1>1, <1>2, <1>5, OriginalRollBack
<1>6. CASE Removal
  BY <1>1, <1>2, <1>6, OriginalRemovalSteps, OriginalCommands
<1>7. CASE (\E sel \in Selections : StartInstall(sel)) \/ StartRemove
  BY <1>1, <1>2, <1>7, OriginalCommands
<1>8. CASE User \/ NewRelease
  <2>1. ~(\E v \in UserValues \cup {Absent} : EditKey(v))
    BY DEF EditKey
  <2>2. UNCHANGED <<disk, key, pc, mem>>
    BY <1>8, <2>1 DEF User, EditFile, TogglePlugin, NewRelease, config
  <2> QED
    BY <1>1, <2>2, OriginalShrinks
<1>9. CASE Crash
  <2>1. pc' = "idle" /\ key' = key /\ Records' = Records
    BY <1>9, RecoveryStays DEF Crash, config
  <2> QED
    BY <1>1, <2>1, OriginalAtRest DEF OriginalOk
<1> QED
  BY <1>3, <1>4, <1>5, <1>6, <1>7, <1>8, <1>9 DEF Next, Step

LEMMA OriginalInit == Init => OriginalInv
<1> SUFFICES ASSUME Init PROVE OriginalOk
  BY DEF OriginalInv
<1>1. pc = "idle" /\ Records = {} /\ key = mine.key
  BY DEF Init, Records
<1> QED
  BY <1>1, Pcs DEF OriginalOk, Fresh, Failing, Removing

(***************************************************************************)
(* What holds between commands.                                            *)
(***************************************************************************)
ToldInv == IInv /\ Typed /\ Shape /\ KeyInv /\ OriginalInv /\ PluginInv /\ FileInv

(* The inductive invariant: types, the relation of the records to the      *)
(* running command's memory, and what the records tell of the key, the     *)
(* plugins and the role assets at every step of an install, its rollback   *)
(* and a removal (installHolyCodexEffect, removeHolyCodexEffect).          *)
THEOREM Told == Spec => []ToldInv
<1>1. Init => ToldInv
  BY InvInit, TypedInit, ShapeInit, KeyInit, OriginalInit, PluginInit, FileInit DEF ToldInv
<1>2. ToldInv /\ [Next]_vars => ToldInv'
  BY InvNext, TypedNext, ShapeNext, KeyNext, OriginalNext, PluginNext, FileNext DEF ToldInv
<1> QED
  BY <1>1, <1>2, PTL DEF Spec

(* Between commands every effect of HolyCodex is told by a record, except  *)
(* what a death or an unreported failure had in its hands: the key, each   *)
(* plugin and each role asset (the transaction journal of                  *)
(* installHolyCodexEffect and the conflicted state of its rollback and of  *)
(* removeHolyCodexEffect).                                                 *)
THEOREM Effects == Spec => []EffectsTold
<1>1. ToldInv => EffectsTold
  <2> SUFFICES ASSUME ToldInv, pc = "idle", NEW c \in Leaked, c \notin notes PROVE FALSE
    BY DEF EffectsTold
  <2>1. CASE c = "key" /\ ~KeyTold
    BY <2>1 DEF ToldInv, KeyInv, KeyOk, KeyHeld, KeyTold
  <2>2. CASE c \in installed /\ ~PluginTold(c)
    <3>1. c \in Plugins /\ c \notin mine.plugins
      BY <2>2 DEF ToldInv, Typed, TypedSystem, PluginTold
    <3>2. c \in OwnedBy(Recovery)
      BY <2>2, <3>1 DEF ToldInv, PluginInv, PluginOk, PluginHeld
    <3>3. Recovery \in Records /\ c \in Recovery.owned
      BY <3>2 DEF OwnedBy, Recovery, RecoveryState, Interrupted, Records
    <3> QED
      BY <2>2, <3>3 DEF PluginTold
  <2>3. CASE c \in Files /\ files[c] \notin {None, Edited} /\ ~FileTold(c)
    <3>1. HasArt(Recovery, c)
      BY <2>3 DEF ToldInv, FileInv, FileOk, FileHeld, Live
    <3>2. Recovery # NoRec
      BY <2>3, <3>1 DEF HasArt, ArtsOf, NoArts
    <3>3. Recovery \in Records /\ Recovery.arts[c] # None
      BY <3>1, <3>2 DEF HasArt, ArtsOf, Recovery, RecoveryState, Interrupted, Records
    <3> QED
      BY <2>3, <3>3 DEF FileTold
  <2> QED
    BY <2>1, <2>2, <2>3 DEF Leaked
<1> QED
  BY <1>1, Told, PTL

(* When no record is left, whatever was installed, upgraded, rolled back   *)
(* and removed before, a key the user has not edited has its first value   *)
(* again (mergeManagedRuntimeConfig, rollbackConfigTransaction,            *)
(* cleanupManagedRuntimeConfig).                                           *)
THEOREM Restores == Spec => []RestoresOriginal
<1>1. ToldInv => RestoresOriginal
  <2> SUFFICES ASSUME ToldInv, pc = "idle", {active, preparing, conflicted} = {NoRec}, notes = {}
               PROVE  key = mine.key
    BY DEF RestoresOriginal
  <2>1. KeyHeld /\ key \in Selections \cup {mine.key}
    BY DEF ToldInv, KeyInv, KeyOk, OriginalInv, OriginalOk
  <2>2. Records = {}
    BY DEF Records
  <2> QED
    BY <2>1, <2>2 DEF KeyHeld, KeyTold
<1> QED
  BY <1>1, Told, PTL
===============================================================================
