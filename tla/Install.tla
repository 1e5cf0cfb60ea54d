------------------------------- MODULE Install -------------------------------
(***************************************************************************)
(* The HolyCodex installer as one process over a CODEX_HOME: install and   *)
(* upgrade (packages/cli/src/installer.ts, installHolyCodexEffect), its    *)
(* rollback, the role assets (native-agents.ts) and the removal that also  *)
(* reconciles an interrupted install (maintenance.ts,                      *)
(* removeHolyCodexEffect).  Every durable write is a step of its own, so   *)
(* the process can die between any two; Codex, which installs and removes  *)
(* the plugins, is external.  The user may edit the managed key or a role  *)
(* asset while the installer runs.                                         *)
(***************************************************************************)
EXTENDS InstallJournal

CONSTANTS
    Before,         \* [key, plugins]: what the user may have before HolyCodex
    Budget          \* bounds: commands, troubles (deaths, failures, edits), releases

VARIABLES
    active, preparing, conflicted,  \* the three records in CODEX_HOME/holycodex
    key, pref,                      \* config.toml: the managed key, the preference
    files,                          \* [Files -> contents]
    installed,                      \* the plugins Codex reports as installed
    release,                        \* the HolyCodex release and Codex catalog in use
    pc, mem,                        \* the running command and its memory
    left,                           \* what is left of Budget
    mine,                           \* [key, plugins]: what the user had before any command
    notes                           \* what deaths and failures left untold, whether the
                                    \* user edited the key or had a drifted one removed

disk == <<active, preparing, conflicted>>
config == <<key, pref>>
vars == <<disk, config, files, installed, release, pc, mem, left, mine, notes>>

(* The preference is Absent, TRUE or FALSE in the code; "on" and "off" here. *)
Prefs == {Absent, "on", "off"}
Idle == [cmd |-> "none"]
NoArts == [f \in Files |-> None]

(* The managed key, its entry in a record, the active record and the       *)
(* transaction journals, with the fields the properties tell apart.        *)
KeyValues == Selections \cup UserValues \cup {Absent}
Entries == {NoEntry} \cup [orig : KeyValues, last : KeyValues]
ActiveRecords ==
    [id : Nat, sel : Selections, release : Nat, entry : Entries, before : Prefs, after : Prefs,
     owned : SUBSET Plugins, arts : [Files -> Int], snap : SUBSET Plugins]
TransactionJournals ==
    [id : Nat, digest : ActiveRecords \cup {NoRec}, sel : Selections, entry : Entries,
     before : Prefs, after : Prefs, owned : SUBSET Plugins, arts : [Files -> Int]]

(* What the user may have before HolyCodex, the bounds, and that NoRec is  *)
(* neither a record nor a value of the key.                                *)
ASSUME InstallAssumption ==
    /\ Before \subseteq [key : UserValues \cup {Absent}, plugins : SUBSET Plugins]
    /\ Budget \in [commands : Nat, troubles : Nat, releases : Nat]
    /\ NoRec \notin ActiveRecords \cup TransactionJournals \cup KeyValues

Spend(what) == left[what] > 0 /\ left' = [left EXCEPT ![what] = @ - 1]
Keep == UNCHANGED <<release, left, mine, notes>>
First(x, S) == IF x \in S THEN x ELSE CHOOSE y \in S : TRUE

OwnedBy(rec) == IF rec = NoRec THEN {} ELSE rec.owned
ArtsOf(rec) == IF rec = NoRec THEN NoArts ELSE rec.arts
EntryOf(rec) == IF rec = NoRec THEN NoEntry ELSE rec.entry

-----------------------------------------------------------------------------
(* Install: preflight.  One action reads the records, config.toml and the  *)
(* role assets, and applies the decisions of the conflict review.          *)

(* preserveManagedConfigDecisions: a value kept by an earlier review is    *)
(* kept again while the user has not changed it.                           *)
KeptBefore == /\ active # NoRec /\ EntryOf(active) # NoEntry
              /\ active.entry.last # active.sel /\ key = active.entry.last

KeyConflict(sel) ==
    ~KeptBefore /\ (Drifted(EntryOf(active), key) \/ UserOwned(EntryOf(active), key, sel))

(* What the install may do to the key: a value the review or an earlier    *)
(* one has kept, one of HolyCodex's own, or one it is about to take over.  *)
Holding(sel, decision) ==
    IF KeptBefore THEN "kept before"
    ELSE IF decision = "keep" THEN "kept"
    ELSE IF ~KeyConflict(sel) /\ EntryOf(active) # NoEntry THEN "managed"
    ELSE "taken"

RoleConflict(f) ==
    files[f] \notin {None, Contents(f, release), ArtsOf(active)[f]}

FirstJournal(sel) ==
    [id |-> IF active = NoRec THEN left.commands ELSE active.id,
     digest |-> DigestOf(active), sel |-> sel, entry |-> EntryOf(active),
     before |-> pref, after |-> pref, owned |-> OwnedBy(active), arts |-> ArtsOf(active)]

Preflight(sel, decision) ==
    /\ decision = "keep" => KeyConflict(sel)
    /\ mem' = [cmd |-> "install", sel |-> sel, prev |-> active,
               doc |-> [key |-> key, pref |-> pref], live |-> key,
               holding |-> Holding(sel, decision),
               before |-> IF active = NoRec THEN pref ELSE active.before,
               target |-> key,
               entry |-> IF KeptBefore THEN active.entry
                         ELSE IF decision = "keep" THEN KeptEntry(EntryOf(active), key)
                         ELSE Merged(EntryOf(active), key, sel),
               refresh |-> active # NoRec /\ active.release # release
                               /\ Holy \in active.owned,
               reviewed |-> [f \in FilesOf(sel) |-> IF RoleConflict(f) THEN files[f] ELSE None],
               jr |-> FirstJournal(sel), snap |-> {}, current |-> NoArts,
               todo |-> Wanted(sel), roles |-> FilesOf(sel), kept |-> {},
               native |-> [f \in {} |-> None], nativeDone |-> FALSE,
               added |-> {}, unsure |-> {}, gone |-> {},
               effects |-> FALSE, recorded |-> FALSE, failing |-> FALSE, failed |-> FALSE]
    /\ pc' = "journal"
    /\ UNCHANGED <<disk, config, files, installed>>

(* A rolled-back step: the failure goes to the rollback with the memory    *)
(* as the step left it.                                                    *)
Fails(m) == pc' = "rb_record" /\ mem' = m
FaultTearing(S) == Spend("troubles") /\ notes' = notes \cup S /\ UNCHANGED <<release, mine>>
Fault == FaultTearing({})

-----------------------------------------------------------------------------
(* Removal: the start, which install also calls to reconcile an            *)
(* interrupted transaction.                                                *)
AsJournal(rec) ==
    IF "digest" \in DOMAIN rec THEN rec
    ELSE [id |-> rec.id, digest |-> DigestOf(rec), sel |-> rec.sel, entry |-> rec.entry,
          before |-> rec.before, after |-> rec.after, owned |-> rec.owned, arts |-> rec.arts]

(* inspectNativeAgentRemovalConflicts *)
FileConflicts(rec) == {f \in Files : rec.arts[f] # None /\ files[f] \notin {None, rec.arts[f]}}

RemovalConflicts(rec) ==
    {c \in {"key"} : rec.entry # NoEntry /\ ~Cleanable(rec.entry, key)}
        \cup {c \in {"pref"} : PrefPreserved(rec, pref)} \cup FileConflicts(rec)

BeginRemoval(after, accept) ==
    LET rec == RecoveryState(active, preparing, conflicted)
        found == RemovalConflicts(rec)
    IN /\ rec # NoRec
       /\ mem' = [cmd |-> "remove", after |-> after, rec |-> AsJournal(rec),
                  now |-> AsJournal(rec), conflicts |-> found, accept |-> accept,
                  doc |-> [key |-> key, pref |-> pref], hadActive |-> active # NoRec,
                  reviewed |-> [f \in Files |-> files[f]],
                  roles |-> {f \in Files : rec.arts[f] # None},
                  todo |-> rec.owned, preserved |-> FALSE]
       /\ notes' = notes \cup {c \in {"accepted"} : accept /\ "key" \in found}
       /\ pc' = "rm_config"
       /\ UNCHANGED <<disk, config, files, installed>>

(* The commands.  StartInstall is installHolyCodexEffect up to its         *)
(* preflight; an interrupted transaction is removed first, and the install *)
(* starts again.  A review the user cancels changes nothing.               *)
StartInstall(sel) ==
    /\ pc = "idle" /\ Spend("commands")
    /\ UNCHANGED <<release, mine>>
    /\ \/ /\ ~InstallMayStart(active, preparing, conflicted)
          /\ UNCHANGED <<disk, config, files, installed, pc, mem, notes>>
       \/ /\ InstallMayStart(active, preparing, conflicted)
          /\ \/ /\ Interrupted(active, preparing, conflicted) # NoRec
                /\ \E accept \in BOOLEAN : BeginRemoval(sel, accept)
             \/ /\ Interrupted(active, preparing, conflicted) = NoRec
                /\ \E decision \in {"replace", "keep"} : Preflight(sel, decision)
                /\ UNCHANGED notes

Restart ==
    /\ pc = "restart"
    /\ \E decision \in {"replace", "keep"} : Preflight(mem.after, decision)
    /\ Keep

StartRemove ==
    /\ pc = "idle" /\ Spend("commands")
    /\ UNCHANGED <<release, mine>>
    /\ RemovalMayStart(active, preparing, conflicted)
    /\ \E accept \in BOOLEAN : BeginRemoval(NoRec, accept)

-----------------------------------------------------------------------------
(* Install: the transaction.  A journal write that fails sends the install *)
(* to its rollback, except the first one, before which nothing was done.   *)
Write(journal, next, m) ==
    \/ /\ preparing' = journal /\ pc' = next /\ mem' = m
       /\ UNCHANGED <<active, conflicted>> /\ Keep
    \/ /\ Fault /\ preparing' \in {preparing, journal} /\ UNCHANGED <<active, conflicted>>
       /\ IF pc = "journal" THEN pc' = "idle" /\ mem' = Idle ELSE Fails(m)

WriteFirstJournal ==
    /\ pc = "journal"
    /\ Write(mem.jr, "snapshot", mem)
    /\ UNCHANGED <<config, files, installed>>

(* The plugin snapshot, and config.toml read again: an edit since the      *)
(* review makes the install fail, but not one of a key the review has kept. *)
SamePreference == pref = mem.doc.pref  \* mutant of AsReviewed
AsReviewed ==
    /\ key = mem.doc.key \/ mem.holding \in {"kept", "kept before"}
    /\ pref = mem.doc.pref

Snapshot ==
    /\ pc = "snapshot"
    /\ LET m == [mem EXCEPT !.snap = installed \cap (Wanted(mem.sel) \cup OwnedBy(mem.prev)),
                            !.live = key]
       IN \/ AsReviewed /\ pc' = "read" /\ mem' = m /\ Keep
          \/ ~AsReviewed /\ Fails(m) /\ Keep
          \/ Fault /\ Fails(mem)
    /\ UNCHANGED <<disk, config, files, installed>>

(* installNativeAgents reads every asset first.  A reviewed conflict must  *)
(* still be what was reviewed, here and when its turn comes; one that      *)
(* nobody reviewed is left alone.  An edit of any other asset between the  *)
(* reading and the write is overwritten.                                   *)
Reviewed(f) == mem.reviewed[f] \in {None, files[f]}

ReadRoles ==
    /\ pc = "read"
    /\ \/ /\ \A f \in mem.roles : Reviewed(f)
          /\ mem' = [mem EXCEPT !.current = [f \in mem.roles |-> files[f]],
                                !.kept = {f \in mem.roles : RoleConflict(f) /\ mem.reviewed[f] = None}]
          /\ pc' = "roles" /\ Keep
       \/ ~(\A f \in mem.roles : Reviewed(f)) /\ Fails(mem) /\ Keep
       \/ Fault /\ Fails(mem)
    /\ UNCHANGED <<disk, config, files, installed>>

RecordRole(f, content) == [mem EXCEPT !.roles = @ \ {f}, !.jr.arts[f] = content]
Replaced(f) ==
    [RecordRole(f, Contents(f, release)) EXCEPT
        !.native = [g \in {f} \cup DOMAIN @ |-> IF g = f THEN mem.current[f] ELSE @[g]]]

InstallRole ==
    /\ pc = "roles" /\ mem.roles # {}
    /\ LET f == First(mem.sel, mem.roles)
           want == Contents(f, release)
           written == [files EXCEPT ![f] = want]
       IN \/ ~Reviewed(f) /\ Fails(mem) /\ Keep /\ UNCHANGED files
          \/ /\ Reviewed(f) /\ f \in mem.kept
             /\ mem' = RecordRole(f, ArtsOf(mem.prev)[f]) /\ Keep /\ UNCHANGED <<files, pc>>
          \/ /\ Reviewed(f) /\ f \notin mem.kept /\ mem.current[f] = want
             /\ mem' = RecordRole(f, want) /\ Keep /\ UNCHANGED <<files, pc>>
          \/ /\ Reviewed(f) /\ f \notin mem.kept /\ mem.current[f] # want
             /\ \/ files' = written /\ mem' = Replaced(f) /\ Keep /\ UNCHANGED pc
                \/ Fault /\ Fails(mem) /\ UNCHANGED files
                \/ FaultTearing({f}) /\ Fails(mem) /\ files' = written
    /\ UNCHANGED <<disk, config, installed>>

JournalRoles ==
    /\ pc = "roles" /\ mem.roles = {}
    /\ Write(mem.jr, "plan", [mem EXCEPT !.nativeDone = TRUE])
    /\ UNCHANGED <<config, files, installed>>

(* The preference is journaled before it is written.                       *)
JournalPlan ==
    /\ pc = "plan"
    /\ LET m == [mem EXCEPT !.jr.before = mem.doc.pref, !.jr.after = "on", !.effects = TRUE]
       IN Write(m.jr, "setup", m)
    /\ UNCHANGED <<config, files, installed>>

(* Config.toml with the preference, then the marketplace.                  *)
SameAsSnapshot == key = mem.live /\ pref = mem.doc.pref

SetUpPlugins ==
    /\ pc = "setup"
    /\ \/ SameAsSnapshot /\ pref' = "on" /\ pc' = "plugins" /\ mem' = mem /\ Keep
       \/ ~SameAsSnapshot /\ Fails(mem) /\ Keep /\ UNCHANGED pref
       \/ Fault /\ Fails(mem) /\ pref' \in {pref, "on"}
    /\ UNCHANGED <<disk, key, files, installed>>

(* installAndVerify, one plugin: list, add, list again.  An addition whose *)
(* outcome is not certain is journaled as owned, and so is the refresh of  *)
(* a plugin that was there, which a rollback cannot take back.             *)
AddsAnyway(p) == p \in Plugins  \* mutant of Adds: the live list is not consulted
Adds(p) == p \notin installed \/ (p = Holy /\ mem.refresh)
Kind(p) == IF p = Holy /\ mem.refresh THEN "unsure" ELSE "added"

Added(p, kind) ==
    [mem EXCEPT !.todo = @ \ {p},
                !.jr.owned = @ \cup {p},
                !.added = IF kind = "added" THEN @ \cup {p} ELSE @,
                !.unsure = IF kind = "unsure" THEN @ \cup {p} ELSE @]

AddPlugin ==
    /\ pc = "plugins" /\ mem.todo # {}
    /\ LET p == First(Holy, mem.todo) IN
       \/ ~Adds(p) /\ mem' = [mem EXCEPT !.todo = @ \ {p}] /\ Keep /\ UNCHANGED <<pc, installed>>
       \/ /\ Adds(p) /\ installed' = installed \cup {p}
          /\ mem' = Added(p, Kind(p)) /\ pc' = "own" /\ Keep
       \/ /\ Adds(p) /\ Fault
          /\ \/ Fails(mem) /\ UNCHANGED installed
             \/ /\ installed' \in {installed, installed \cup {p}}
                /\ mem' = [Added(p, "unsure") EXCEPT !.failing = TRUE] /\ pc' = "own"
    /\ UNCHANGED <<disk, config, files>>

JournalOwnership ==
    /\ pc = "own"
    /\ Write(mem.jr, IF mem.failing THEN "rb_record" ELSE "plugins", [mem EXCEPT !.failing = FALSE])
    /\ UNCHANGED <<config, files, installed>>

(* The root configuration.  Codex may have touched a key while it set the  *)
(* plugins up: one that is kept or managed gets back the value it had, and *)
(* one about to be taken over must be what the snapshot saw.  The journal  *)
(* in memory takes the new entry before the write, the one on disk only    *)
(* after it, and its preference goes back to what it was before the first  *)
(* install.                                                                *)
EntryAfter ==
    IF mem.holding = "kept before" /\ mem.live # Absent
      THEN [mem.entry EXCEPT !.last = mem.live] ELSE mem.entry
PublishingPreference(m) == [m EXCEPT !.jr.before = mem.before]  \* mutant of Publishing
Publishing(m) == [m EXCEPT !.jr.entry = EntryAfter, !.jr.before = mem.before]

Result ==
    CASE mem.holding \in {"managed", "taken"} -> mem.sel
      [] mem.holding = "kept before" -> mem.live
      [] mem.holding = "kept" -> IF mem.doc.key = Absent THEN key ELSE mem.doc.key

(* assertPostPluginConfigStable *)
ChangedDuringSetup == mem.holding = "taken" /\ key # mem.live

PublishConfig ==
    /\ pc = "plugins" /\ mem.todo = {}
    /\ \/ ChangedDuringSetup /\ Fails(mem) /\ Keep /\ UNCHANGED key
       \/ /\ ~ChangedDuringSetup
          /\ LET m == [Publishing(mem) EXCEPT !.target = Result]
             IN \/ key' = Result /\ pc' = "published" /\ mem' = m /\ Keep
                \/ Fault /\ Fails(m) /\ key' \in {key, Result}
    /\ UNCHANGED <<disk, pref, files, installed>>

JournalConfig ==
    /\ pc = "published"
    /\ Write(mem.jr, "omit", [mem EXCEPT !.todo = OwnedBy(mem.prev) \ Wanted(mem.sel)])
    /\ UNCHANGED <<config, files, installed>>

(* removeAndVerify: plugins of the earlier selection that the new one does *)
(* not want.  A removal that cannot be proved leaves the plugin owned.     *)
Omitted(p) == [mem EXCEPT !.todo = @ \ {p}, !.jr.owned = @ \ {p}, !.gone = @ \cup {p}]

OmitPlugin ==
    /\ pc = "omit" /\ mem.todo # {}
    /\ LET p == First(Holy, mem.todo) IN
       \/ /\ p \in installed /\ installed' = installed \ {p}
          /\ mem' = Omitted(p) /\ pc' = "unown" /\ Keep
       \/ /\ p \notin installed /\ UNCHANGED installed
          /\ mem' = [Omitted(p) EXCEPT !.gone = mem.gone] /\ pc' = "unown" /\ Keep
       \/ /\ Fault /\ pc' = "unown"
          /\ \/ installed' = installed \ {p} /\ mem' = [Omitted(p) EXCEPT !.failing = TRUE]
             \/ /\ installed' \in {installed, installed \ {p}}
                /\ mem' = [mem EXCEPT !.gone = @ \cup {p}, !.failing = TRUE]
    /\ UNCHANGED <<disk, config, files>>

JournalOmission ==
    /\ pc = "unown"
    /\ Write(mem.jr, IF mem.failing THEN "rb_record" ELSE "omit", [mem EXCEPT !.failing = FALSE])
    /\ UNCHANGED <<config, files, installed>>

(* verifyEffectiveInstall reads the result back.                           *)
Effective ==
    /\ key = mem.target
    /\ \A f \in FilesOf(mem.sel) \ mem.kept : files[f] = Contents(f, release)

Verify ==
    /\ pc = "omit" /\ mem.todo = {}
    /\ \/ Effective /\ pc' = "record" /\ mem' = [mem EXCEPT !.recorded = TRUE] /\ Keep
       \/ ~Effective /\ Fails(mem) /\ Keep
       \/ Fault /\ Fails(mem)
    /\ UNCHANGED <<disk, config, files, installed>>

ActiveRecord ==
    [id |-> mem.jr.id, sel |-> mem.sel, release |-> release, entry |-> mem.jr.entry,
     before |-> mem.before, after |-> "on", owned |-> mem.jr.owned, arts |-> mem.jr.arts,
     snap |-> mem.snap]

(* The active record, then install.toml, whose failure rolls back as well. *)
PublishRecord ==
    /\ pc = "record"
    /\ \/ active' = ActiveRecord /\ pc' = "clear" /\ mem' = mem /\ Keep
       \/ Fault /\ active' \in {active, ActiveRecord} /\ Fails(mem)
    /\ UNCHANGED <<preparing, conflicted, config, files, installed>>

ClearJournal ==
    /\ pc = "clear"
    /\ \/ preparing' = NoRec /\ conflicted' = NoRec /\ pc' = "idle" /\ mem' = Idle /\ Keep
       \/ Fault /\ Fails(mem) /\ UNCHANGED <<preparing, conflicted>>
    /\ UNCHANGED <<active, config, files, installed>>

-----------------------------------------------------------------------------
(* Rollback.  It goes on after a failed step and remembers that one failed; *)
(* a failed step leaves the journal as conflicted state for a later run.   *)
RollBackRecord ==
    /\ pc = "rb_record"
    /\ \/ /\ ~mem.recorded /\ pc' = "rb_config" /\ mem' = mem /\ Keep /\ UNCHANGED active
       \/ /\ mem.recorded
          /\ \/ active' = mem.prev /\ pc' = "rb_config" /\ mem' = mem /\ Keep
             \/ /\ FaultTearing({"key"} \cup Plugins \cup Files)
                /\ pc' = "rb_config" /\ mem' = [mem EXCEPT !.failed = TRUE]
                /\ active' \in {active, mem.prev}
    /\ UNCHANGED <<preparing, conflicted, config, files, installed>>

(* rollbackConfigTransaction: the value before the install comes back over *)
(* the value of the journal; anything else in its place is left.           *)
KeyRolledBack ==
    IF mem.jr.entry # NoEntry /\ mem.jr.entry.last # mem.live /\ key = mem.jr.entry.last
    THEN mem.live ELSE key

RollBackConfig ==
    /\ pc = "rb_config"
    /\ \/ ~mem.effects /\ pc' = "rb_roles" /\ mem' = mem /\ Keep /\ UNCHANGED config
       \/ /\ mem.effects
          /\ \/ /\ key' = KeyRolledBack /\ pref' = PrefCleaned(mem.jr, pref)
                /\ pc' = "rb_roles" /\ mem' = mem /\ Keep
             \/ /\ Fault /\ pc' = "rb_roles" /\ mem' = [mem EXCEPT !.failed = TRUE]
                /\ \/ UNCHANGED config
                   \/ key' = KeyRolledBack /\ pref' = PrefCleaned(mem.jr, pref)
    /\ UNCHANGED <<disk, files, installed>>

(* rollbackNativeAgentInstall, one asset: one that changed is preserved,   *)
(* and an error ends it.  Neither is reported when installNativeAgents     *)
(* itself has failed and rolls back.                                       *)
RollBackRole ==
    /\ pc = "rb_roles" /\ DOMAIN mem.native # {}
    /\ LET f == First(Catalog, DOMAIN mem.native)
           m == [mem EXCEPT !.native = [g \in DOMAIN mem.native \ {f} |-> mem.native[g]]]
           unreported == IF mem.nativeDone THEN {} ELSE DOMAIN mem.native
       IN \/ /\ files[f] = Contents(f, release)
             /\ files' = [files EXCEPT ![f] = mem.native[f]] /\ mem' = m /\ Keep
          \/ /\ files[f] # Contents(f, release)
             /\ mem' = [m EXCEPT !.failed = @ \/ mem.nativeDone] /\ Keep /\ UNCHANGED files
          \/ /\ FaultTearing(unreported) /\ UNCHANGED files
             /\ mem' = [mem EXCEPT !.native = [g \in {} |-> None], !.failed = @ \/ mem.nativeDone]
    /\ UNCHANGED <<disk, config, installed, pc>>

(* Plugins this run added are removed; one of uncertain outcome is a       *)
(* failure of the rollback.                                                *)
RollBackAdded ==
    /\ pc = "rb_roles" /\ DOMAIN mem.native = {} /\ mem.added # {}
    /\ LET p == First(Holy, mem.added)
           m == [mem EXCEPT !.added = @ \ {p}]
       IN \/ installed' = installed \ {p} /\ mem' = m /\ Keep
          \/ Fault /\ installed' \in {installed, installed \ {p}}
                   /\ mem' = [m EXCEPT !.failed = TRUE]
    /\ UNCHANGED <<disk, config, files, pc>>

(* restoreRemovedPlugin: a plugin removed, or perhaps removed, comes back. *)
RollBackRemoved ==
    /\ pc = "rb_roles" /\ DOMAIN mem.native = {} /\ mem.added = {} /\ mem.gone # {}
    /\ LET p == First(Holy, mem.gone)
           m == [mem EXCEPT !.gone = @ \ {p}, !.jr.owned = @ \cup {p}]
       IN \/ /\ p \in mem.snap /\ installed' = installed \cup {p}
             /\ preparing' = m.jr /\ mem' = m /\ Keep
          \/ /\ p \notin mem.snap /\ preparing' = m.jr
             /\ mem' = [m EXCEPT !.failed = TRUE] /\ Keep /\ UNCHANGED installed
          \/ /\ Fault /\ installed' \in {installed, installed \cup {p}}
             /\ preparing' = m.jr /\ mem' = [m EXCEPT !.failed = TRUE]
    /\ UNCHANGED <<active, conflicted, config, files, pc>>

RollBackEnd ==
    /\ pc = "rb_roles" /\ DOMAIN mem.native = {} /\ mem.added = {} /\ mem.gone = {}
    /\ pc' = "rb_end"
    /\ mem' = [mem EXCEPT !.failed = @ \/ mem.unsure # {},
                          !.jr.after = IF pref = mem.jr.before THEN mem.jr.before ELSE @]
    /\ Keep /\ UNCHANGED <<disk, config, files, installed>>

(* What the records tell of the effects on disk.                           *)
Records == {active, preparing, conflicted} \ {NoRec}
KeyTold == key \in Selections => \E rec \in Records : key = rec.entry.last
PluginTold(p) == p \in mine.plugins \/ \E rec \in Records : p \in rec.owned
FileTold(f) == \E rec \in Records : rec.arts[f] # None
Leaked ==
    {c \in {"key"} : ~KeyTold} \cup {p \in installed : ~PluginTold(p)}
        \cup {f \in Files : files[f] \notin {None, Edited} /\ ~FileTold(f)}

(* The conflicted record takes over from the preparing one; when it cannot *)
(* be written the preparing one stays, and a failed removal of the         *)
(* preparing one is ignored.                                               *)
ReportFailure ==
    /\ pc = "rb_end"
    /\ IF mem.failed
       THEN \/ conflicted' = mem.jr /\ pc' = "rb_clear" /\ mem' = mem /\ Keep
            \/ /\ pc' = "idle" /\ mem' = Idle
               /\ \/ Fault /\ conflicted' = mem.jr
                  \/ FaultTearing(Leaked) /\ UNCHANGED conflicted
       ELSE pc' = "rb_clear" /\ mem' = mem /\ Keep /\ UNCHANGED conflicted
    /\ UNCHANGED <<active, preparing, config, files, installed>>

DropPreparing ==
    /\ pc = "rb_clear"
    /\ pc' = "idle" /\ mem' = Idle
    /\ \/ preparing' = NoRec /\ Keep
       \/ Fault /\ UNCHANGED preparing
    /\ UNCHANGED <<active, conflicted, config, files, installed>>

-----------------------------------------------------------------------------
(* Removal.  A failed step and a preserved value leave conflicted state.   *)
Stop == pc' = "idle" /\ mem' = Idle
StopWith(rec) == pc' = "rm_stop" /\ mem' = [mem EXCEPT !.now = rec]

WriteConflict ==
    /\ pc = "rm_stop" /\ Stop
    /\ \/ conflicted' = mem.now /\ Keep
       \/ Fault /\ conflicted' \in {conflicted, mem.now}
    /\ UNCHANGED <<active, preparing, config, files, installed>>

Declined(c) == c \in mem.conflicts /\ ~mem.accept
KeyCleaned ==
    IF "key" \in mem.conflicts THEN Absent ELSE Cleaned(mem.rec.entry, key)
PrefAfterRemoval ==
    IF "pref" \in mem.conflicts THEN Absent ELSE PrefCleaned(mem.rec, pref)

SameText == key = mem.doc.key /\ pref = mem.doc.pref

CleanConfig ==
    /\ pc = "rm_config"
    /\ \/ /\ ~SameText \/ Declined("key") \/ Declined("pref")
          /\ StopWith(mem.rec) /\ Keep /\ UNCHANGED config
       \/ /\ SameText /\ ~Declined("key") /\ ~Declined("pref")
          /\ key' = KeyCleaned /\ pref' = PrefAfterRemoval
          /\ \/ pc' = "rm_checkpoint" /\ mem' = [mem EXCEPT !.now.entry = NoEntry] /\ Keep
             \/ Fault /\ StopWith(mem.rec)
       \/ Fault /\ StopWith(mem.rec) /\ UNCHANGED config
    /\ UNCHANGED <<disk, files, installed>>

(* The checkpoint tells that config.toml is clean.  It is tried once more  *)
(* when it cannot be written.                                              *)
Checkpoint ==
    /\ pc = "rm_checkpoint"
    /\ \/ conflicted' = mem.now /\ pc' = "rm_roles" /\ mem' = mem /\ Keep
       \/ Fault /\ conflicted' \in {conflicted, mem.now} /\ StopWith(mem.now)
    /\ UNCHANGED <<active, preparing, config, files, installed>>

(* removeManagedNativeAgents, one asset.                                   *)
RemoveRole ==
    /\ pc = "rm_roles" /\ mem.roles # {}
    /\ LET f == First(Catalog, mem.roles)
           m == [mem EXCEPT !.roles = @ \ {f}]
           accepted == f \in mem.conflicts /\ mem.accept /\ files[f] = mem.reviewed[f]
       IN \/ /\ files[f] \in {None, mem.rec.arts[f]} \/ accepted
             /\ files' = [files EXCEPT ![f] = None] /\ mem' = m /\ Keep
          \/ /\ files[f] \notin {None, mem.rec.arts[f]} /\ ~accepted
             /\ mem' = [m EXCEPT !.preserved = TRUE] /\ Keep /\ UNCHANGED files
          \/ Fault /\ mem' = [m EXCEPT !.preserved = TRUE] /\ UNCHANGED files
    /\ UNCHANGED <<disk, config, installed, pc>>

RolesRemoved ==
    /\ pc = "rm_roles" /\ mem.roles = {}
    /\ IF mem.preserved THEN StopWith(mem.now) ELSE pc' = "rm_plugins" /\ mem' = mem
    /\ Keep /\ UNCHANGED <<disk, config, files, installed>>

RemovePlugin ==
    /\ pc = "rm_plugins" /\ mem.todo # {}
    /\ LET p == First(Holy, mem.todo) IN
       \/ /\ installed' = installed \ {p} /\ mem' = [mem EXCEPT !.todo = @ \ {p}]
          /\ Keep /\ UNCHANGED pc
       \/ /\ p \in installed /\ Fault /\ installed' \in {installed, installed \ {p}}
          /\ StopWith(mem.now)
    /\ UNCHANGED <<disk, config, files>>

(* When the active record cannot be removed the conflicted state that is   *)
(* written is the one of before the cleaning of config.toml.               *)
DropActive ==
    /\ pc = "rm_plugins" /\ mem.todo = {}
    /\ \/ /\ active' = NoRec /\ pc' = "rm_options" /\ mem' = mem
          /\ Keep
       \/ mem.hadActive /\ Fault /\ StopWith(mem.rec) /\ UNCHANGED active
    /\ UNCHANGED <<preparing, conflicted, config, files, installed>>

(* install.toml, whose contents are not modelled.                          *)
DropOptions ==
    /\ pc = "rm_options"
    /\ \/ pc' = "rm_preparing" /\ mem' = mem /\ Keep
       \/ Fault /\ StopWith(mem.rec)
    /\ UNCHANGED <<disk, config, files, installed>>

DropJournals ==
    /\ \/ /\ pc = "rm_preparing" /\ preparing' = NoRec /\ UNCHANGED conflicted
          /\ pc' = "rm_conflicted" /\ mem' = mem /\ Keep
       \/ /\ pc = "rm_conflicted" /\ conflicted' = NoRec /\ UNCHANGED preparing
          /\ pc' = "rm_dirs" /\ mem' = mem /\ Keep
       \/ /\ pc \in {"rm_preparing", "rm_conflicted"} /\ Fault
          /\ UNCHANGED <<preparing, conflicted>>
          /\ IF pc = "rm_preparing"
             THEN pc' = "rm_conflicted" /\ mem' = [mem EXCEPT !.preserved = TRUE]
             ELSE Stop
    /\ UNCHANGED <<active, config, files, installed>>

(* The directories go only when they are empty: a role asset no record     *)
(* names makes a reconciling install fail after its journal is gone.       *)
RemoveDirectories ==
    /\ pc = "rm_dirs"
    /\ IF mem.after # NoRec /\ ~mem.preserved /\ \A f \in Files : files[f] = None
       THEN pc' = "restart" /\ mem' = mem
       ELSE Stop
    /\ Keep /\ UNCHANGED <<disk, config, files, installed>>

-----------------------------------------------------------------------------
(* The user and the environment.                                           *)
EditKey(v) ==
    /\ key # v /\ Spend("troubles") /\ key' = v
    /\ notes' = notes \cup {"edited"}
    /\ UNCHANGED <<disk, pref, files, installed, release, pc, mem, mine>>

EditFile(f) ==
    /\ files[f] # None /\ Spend("troubles")
    /\ \E content \in {None, Edited} \ {files[f]} : files' = [files EXCEPT ![f] = content]
    /\ UNCHANGED <<disk, config, installed, release, pc, mem, mine, notes>>

(* The user adds or removes a plugin HolyCodex has a use for.               *)
TogglePlugin(p) ==
    /\ p \notin mine.plugins /\ active # NoRec /\ Spend("troubles")
    /\ \/ p \in installed /\ installed' = installed \ {p} /\ notes' = notes
       \/ p \notin installed /\ installed' = installed \cup {p} /\ notes' = notes \cup {p}
    /\ UNCHANGED <<disk, config, files, release, pc, mem, mine>>

NewRelease ==
    /\ pc = "idle" /\ active # NoRec /\ Spend("releases") /\ release' = release + 1
    /\ UNCHANGED <<disk, config, files, installed, pc, mem, mine, notes>>

Crash ==
    /\ pc # "idle" /\ Spend("troubles")
    /\ pc' = "idle" /\ mem' = Idle /\ notes' = notes \cup Leaked
    /\ UNCHANGED <<disk, config, files, installed, release, mine>>

-----------------------------------------------------------------------------
Init ==
    /\ active = NoRec /\ preparing = NoRec /\ conflicted = NoRec
    /\ mine \in Before /\ key = mine.key /\ installed = mine.plugins
    /\ pref = IF Holy \in installed THEN "on" ELSE Absent
    /\ files = NoArts /\ release = 1
    /\ pc = "idle" /\ mem = Idle /\ left = Budget /\ notes = {}

Forward ==
    \/ WriteFirstJournal \/ Snapshot \/ ReadRoles \/ InstallRole \/ JournalRoles \/ JournalPlan
    \/ SetUpPlugins \/ AddPlugin \/ JournalOwnership \/ PublishConfig \/ JournalConfig
    \/ OmitPlugin \/ JournalOmission \/ Verify \/ PublishRecord \/ ClearJournal
RollBack ==
    \/ RollBackRecord \/ RollBackConfig \/ RollBackRole \/ RollBackAdded
    \/ RollBackRemoved \/ RollBackEnd \/ ReportFailure \/ DropPreparing
Removal ==
    \/ CleanConfig \/ Checkpoint \/ WriteConflict \/ RemoveRole \/ RolesRemoved \/ RemovePlugin
    \/ DropActive \/ DropOptions \/ DropJournals \/ RemoveDirectories \/ Restart
Step == Forward \/ RollBack \/ Removal

User ==
    \/ \E v \in UserValues \cup {Absent} : EditKey(v)
    \/ \E f \in Files : EditFile(f)
    \/ \E p \in Plugins : TogglePlugin(p)

Next ==
    \/ \E sel \in Selections : StartInstall(sel)
    \/ StartRemove \/ Step \/ User \/ NewRelease \/ Crash

Spec == Init /\ [][Next]_vars

-----------------------------------------------------------------------------
(* The records, the configuration and the memory of the running command    *)
(* are well-formed.                                                        *)
TypeOK ==
    /\ key \in Selections \cup UserValues \cup {Absent} /\ pref \in Prefs
    /\ files \in [Files -> {None, Edited} \cup 1..release]
    /\ installed \subseteq Plugins
    /\ \A rec \in {active, preparing, conflicted} \ {NoRec} :
        /\ rec.owned \subseteq Plugins /\ {rec.before, rec.after} \subseteq Prefs
        /\ rec.arts \in [Files -> {None, Edited} \cup 1..release]
        /\ rec.entry = NoEntry \/ rec.entry.last # Absent
    /\ (pc = "idle") = (mem = Idle)

(* Between commands every effect HolyCodex has on the system is told by a  *)
(* record: each value of its own in config.toml, each plugin it added and  *)
(* each role asset.  Only a death, a failure while the role assets are     *)
(* written, a record the rollback cannot put back, and a failed rollback   *)
(* that cannot be reported may leave anything else, and only what was in   *)
(* its hands.                                                              *)
EffectsTold == pc = "idle" => Leaked \subseteq notes

(* A plugin the user had before HolyCodex is never removed: not by a       *)
(* rollback, a smaller selection, a removal or a reconciliation.           *)
UserPluginsStay == mine.plugins \subseteq installed

(* The managed key loses a value that is not HolyCodex's own only when     *)
(* this very command has read, and so reviewed, that value; when it was    *)
(* edited while Codex set the plugins up, and the key is one whose value   *)
(* the install puts back after that; or when a rollback finds the value    *)
(* the active record tells for HolyCodex's own, which a user can have put  *)
(* back during the install.                                                *)
OwnEdit == \E v \in UserValues \cup {Absent} : EditKey(v)
ReviewedOnly ==
    \/ key' = key \/ key \in Selections \/ OwnEdit \/ key = mem.doc.key
    \/ pc = "plugins" /\ mem.holding # "taken" /\ key' = Result
    \/ pc = "rb_config" /\ EntryOf(mem.prev) # NoEntry /\ key = mem.prev.entry.last
EditsSurvive == [][ReviewedOnly]_vars

(* When no record is left, whatever was installed, upgraded, rolled back   *)
(* and removed before, a key the user has not edited has its first value   *)
(* again.                                                                  *)
Untouched == "edited" \notin notes
RestoresOriginal ==
    pc = "idle" /\ {active, preparing, conflicted} = {NoRec} /\ notes = {}
        => key = mine.key

(* BEHAVIOR.md: "Retries reconcile an active or incomplete transaction     *)
(* before publishing a new state": between commands, an install is         *)
(* possible.                                                               *)
JournalsReconcilable == pc = "idle" => InstallMayStart(active, preparing, conflicted)

(* A rollback without a failed step puts the configuration back to what    *)
(* the install found.                                                      *)
RollbackRestores ==
    pc = "rb_end" /\ ~mem.failed /\ Untouched
        => key = mem.doc.key /\ pref = mem.doc.pref
=============================================================================
