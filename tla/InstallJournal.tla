--------------------------- MODULE InstallJournal ---------------------------
(***************************************************************************)
(* The ownership records of the HolyCodex installer (packages/cli/src/     *)
(* installer.ts, maintenance.ts) and the pure rules over them: how a       *)
(* transaction journal relates to the active record, which record a        *)
(* removal acts on, and how the managed key of config.toml is merged,      *)
(* restored and compared (packages/codex/src/runtime-config.ts).           *)
(*                                                                         *)
(* One managed key stands for the keys HolyCodex merges into config.toml:  *)
(* they are treated one by one.  Its values are Absent, the values a user  *)
(* may write, and one value per selection, which is what HolyCodex writes. *)
(* "pref" is the plugins."holycodex@holycodex" entry.                      *)
(***************************************************************************)
EXTENDS Integers, FiniteSets

CONSTANTS
    Selections,     \* what can be asked of an install: profile, tier, capabilities
    Providers,      \* the official provider plugins
    ProvidersOf,    \* [Selections -> SUBSET Providers]
    Holy,           \* the plugin holycodex@holycodex
    Catalog,        \* the role asset with one fixed path, model-catalog.json
    UserValues,     \* the values of the key a user writes
    Absent, NoRec   \* no value; no record

ASSUME SelectionAssumption ==
    /\ ProvidersOf \in [Selections -> SUBSET Providers]
    /\ Holy \notin Providers
    /\ Catalog \notin Selections
    /\ Absent \notin Selections \cup UserValues
    /\ Selections \cap UserValues = {}

Plugins == {Holy} \cup Providers
Wanted(sel) == {Holy} \cup ProvidersOf[sel]

(* Role assets: one generation directory per selection, named by a digest  *)
(* of the selection, and the catalog, whose contents are the release's.    *)
Files == Selections \cup {Catalog}
FilesOf(sel) == {sel, Catalog}
None == 0           \* the file is absent
Edited == -1        \* a user changed it: no release has these contents
Contents(f, release) == IF f = Catalog THEN release ELSE 1

(* The fields a record and a journal share: installation id, managed key   *)
(* entry, the preference before and after, owned plugins, role assets.     *)
NoEntry == [orig |-> NoRec, last |-> NoRec]
Entry(orig, last) == [orig |-> orig, last |-> last]

(* The digest stands for the contents of the active record.                *)
NoDigest == NoRec
DigestOf(rec) == IF rec = NoRec THEN NoDigest ELSE rec
IsBound(journal, active) ==
    journal.id = active.id /\ journal.digest = DigestOf(active)

-----------------------------------------------------------------------------
(* diagnoseInstallTransactions: the relation of a journal to the active    *)
(* record and to the other journal.                                        *)
Journals(preparing, conflicted) == {preparing, conflicted} \ {NoRec}
Matching(preparing, conflicted) ==
    preparing = NoRec \/ conflicted = NoRec
        \/ (preparing.id = conflicted.id /\ preparing.digest = conflicted.digest)

Relation(active, preparing, conflicted, journal) ==
    CASE active = NoRec -> IF Matching(preparing, conflicted) THEN "orphaned" ELSE "incompatible"
      [] active # NoRec /\ IsBound(journal, active) ->
            IF Matching(preparing, conflicted) THEN "bound" ELSE "incompatible"
      [] OTHER -> "stale"

Relations(active, preparing, conflicted) ==
    {Relation(active, preparing, conflicted, j) : j \in Journals(preparing, conflicted)}

(* assertInstallTransactionState: an install goes on only with journals it *)
(* can reconcile.                                                          *)
InstallMayStart(active, preparing, conflicted) ==
    Relations(active, preparing, conflicted) \cap {"stale", "incompatible"} = {}

(* assertRemovalTransactionState: a removal asks only that journals        *)
(* without an active record agree.                                         *)
RemovalMayStart(active, preparing, conflicted) ==
    active # NoRec \/ "incompatible" \notin Relations(active, preparing, conflicted)

(* selectRecoveryTransaction, selectRecoveryState: conflicted before       *)
(* preparing, and the active record when neither is bound to it.           *)
Usable(active, journal) ==
    journal # NoRec /\ (active = NoRec \/ IsBound(journal, active))
Interrupted(active, preparing, conflicted) ==
    IF Usable(active, conflicted) THEN conflicted
    ELSE IF Usable(active, preparing) THEN preparing ELSE NoRec
RecoveryState(active, preparing, conflicted) ==
    IF Interrupted(active, preparing, conflicted) # NoRec
    THEN Interrupted(active, preparing, conflicted) ELSE active

-----------------------------------------------------------------------------
(* mergeManagedRuntimeConfig, one key: a managed key whose live value is   *)
(* not the last one HolyCodex wrote has drifted; a key that was not        *)
(* managed keeps its live value as the original.                           *)
Drifted(entry, live) == entry # NoEntry /\ live # entry.last
UserOwned(entry, live, want) == entry = NoEntry /\ live \notin {Absent, want}
MergedLive(entry, live, want) == Entry(live, want)  \* mutant of Merged
Merged(entry, live, want) ==
    Entry(IF entry = NoEntry THEN live ELSE entry.orig, want)

(* The entry after a reviewed conflict: replaced, or kept as the user's.   *)
KeptAnyEntry(entry, live) ==  \* mutant of KeptEntry: an absent value is kept as well
    IF entry = NoEntry THEN NoEntry ELSE Entry(entry.orig, live)
KeptEntry(entry, live) ==
    IF entry = NoEntry \/ live = Absent THEN NoEntry ELSE Entry(entry.orig, live)

(* cleanupManagedRuntimeConfig, one key: the original value comes back     *)
(* only over the last value HolyCodex wrote.                               *)
Cleanable(entry, live) == entry # NoEntry /\ live = entry.last
Cleaned(entry, live) == IF Cleanable(entry, live) THEN entry.orig ELSE live

(* cleanupHolyCodexPluginConfig with allowBeforeState.                     *)
PrefPreserved(rec, pref) == pref \notin {rec.before, rec.after}
PrefCleaned(rec, pref) == IF pref = rec.after THEN rec.before ELSE pref
=============================================================================
