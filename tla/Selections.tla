------------------------------ MODULE Selections ------------------------------
(***************************************************************************)
(* What the user has selected and where it is kept: install.toml, the      *)
(* active record and the journals of an interrupted install.  An install   *)
(* command names some of it in flags, or all of it in the wizard; the      *)
(* installer (packages/cli/src/installer.ts) fills in the rest, journals,  *)
(* publishes the record and then install.toml, or rolls both back.  An     *)
(* interrupted install is removed first (maintenance.ts), and the install  *)
(* starts again with what it still knows.                                  *)
(*                                                                         *)
(* Profile and tier are one field here; what an install does to Codex is   *)
(* in module Install.                                                      *)
(***************************************************************************)
EXTENDS Naturals

CONSTANTS
    Profiles, Usual,    \* profiles and tiers, and the one nobody asked for
    Carried, OptIns,    \* the capabilities a restart carries over; the others
    Default,            \* the capabilities selected when nobody says anything
    PluginOf,           \* [capability with a provider -> its plugin]
    Required, Extras,   \* the plugins of every install; those a user may add
    Commands,           \* the flags of an install, see RequestOf
    Absent, NoRec,      \* no value; no record
    Limits              \* bounds: commands, troubles (deaths, failures), edits

(* parseArgv, validateCommand: the command lines of an install.  They name *)
(* a capability at most once, in one of four ways, an opt-in never.        *)
Spellings == {"x", "no-x", "x=false", "no-x=false"}
CommandLines ==
    [profile : Profiles \cup {Absent}, plugins : {Absent} \cup SUBSET Extras,
     ask : UNION {[names -> Spellings] : names \in SUBSET Carried}]

(* Selections, records, and the journals that also have the digest of the  *)
(* record they are to replace.                                             *)
Names == Carried \cup OptIns
Plugins == Required \cup Extras \cup {PluginOf[n] : n \in DOMAIN PluginOf}
Selected == [profile : Profiles, on : SUBSET Names, plugins : SUBSET Plugins]
Records == [id : Nat, sel : Selected, official : SUBSET Plugins]
Journals ==
    [id : Nat, digest : Records \cup {NoRec}, sel : Selected, official : SUBSET Plugins]

CapabilityAssumption ==
    /\ Usual \in Profiles /\ Carried \cap OptIns = {}
    /\ Default \subseteq Names /\ DOMAIN PluginOf \subseteq Carried
    /\ Commands \subseteq CommandLines
    /\ Absent \notin Profiles /\ NoRec \notin Records \cup Journals
    /\ Limits \in [{"commands", "troubles", "edits"} -> Nat]

VARIABLES
    options,                        \* install.toml
    active, preparing, conflicted,  \* the records
    pc, mem,                        \* the running command and its memory
    left,                           \* what is left of Limits
    edited                          \* the user has changed install.toml since the last install

vars == <<options, active, preparing, conflicted, pc, mem, left, edited>>

J == INSTANCE InstallJournal WITH
        Selections <- {}, Providers <- {}, ProvidersOf <- <<>>, Holy <- "holy",
        Catalog <- "catalog", UserValues <- {}

Choices == [profile : Profiles, on : SUBSET Names, plugins : SUBSET Extras]

Idle == [cmd |-> "none"]
Stop == pc' = "idle" /\ mem' = Idle
Spend(what) == left[what] > 0 /\ left' = [left EXCEPT ![what] = @ - 1]
Keep == UNCHANGED <<left, edited>>
Fault == Spend("troubles") /\ UNCHANGED edited
disk == <<options, active, preparing, conflicted>>

(* writeAtomicTextEffect: when it fails, the rename may have been done.    *)
Attempted(old, new) == {old, new}

-----------------------------------------------------------------------------
(* Requests: a profile, what is said of some capabilities, plugins.        *)
Silent == [profile |-> Absent, ask |-> <<>>, plugins |-> Absent]
Either(a, b) == IF a # Absent THEN a ELSE b
Over(f, g) == [x \in DOMAIN f \cup DOMAIN g |-> IF x \in DOMAIN f THEN f[x] ELSE g[x]]

(* installRequestFromPersistedOptions *)
AsRequest(sel) ==
    [profile |-> sel.profile, ask |-> [n \in Names |-> n \in sel.on], plugins |-> sel.plugins]
InFile == IF options = Absent THEN Silent ELSE AsRequest(options)

Effective(request, source) ==
    [profile |-> Either(request.profile, source.profile), ask |-> Over(request.ask, source.ask),
     plugins |-> Either(request.plugins, source.plugins)]

(* installRequestFromParsed: of "--name", "--no-name" and either of them   *)
(* with "=false", the last one, "--no-name=false", says nothing.           *)
Said(flags) == {n \in DOMAIN flags.ask : flags.ask[n] # "no-x=false"}
RequestOf(flags) ==
    [profile |-> flags.profile, ask |-> [n \in Said(flags) |-> flags.ask[n] = "x"],
     plugins |-> flags.plugins]

ProviderPlugins(on) == {PluginOf[n] : n \in on \cap DOMAIN PluginOf}
Official(sel) == Required \cup ProviderPlugins(sel.on) \cup sel.plugins

(* additionalPluginsFromPrevious (the installer) leaves the required       *)
(* plugins in, additionalPluginsFromRecord (the upgrade) takes them out.   *)
Additional(rec) == rec.official \ ProviderPlugins(rec.sel.on)
AdditionalForUpgrade(rec) == Additional(rec) \ Required

(* chooseProfile, chooseOptional, additionalPlugins: the request, then     *)
(* install.toml, then the active record, then the default.                 *)
Asked(request, file, rec) ==
    Over(request.ask,
         Over(file.ask, [n \in Names |-> n \in IF rec = NoRec THEN Default ELSE rec.sel.on]))

Chosen(request, file, rec) ==
    [profile |-> Either(Either(request.profile, file.profile),
                        IF rec = NoRec THEN Usual ELSE rec.sel.profile),
     on |-> {n \in Names : Asked(request, file, rec)[n]},
     plugins |-> Either(Either(request.plugins, file.plugins),
                        IF rec = NoRec THEN {} ELSE Additional(rec))]

(* The request of the restart, after an interrupted install was removed:   *)
(* the opt-ins are not in it.                                              *)
Forgetful(request, file, rec) ==  \* mutant of Narrowed: the record alone
    [profile |-> Either(request.profile, rec.sel.profile),
     ask |-> [n \in Carried |-> Asked(request, Silent, rec)[n]],
     plugins |-> Either(request.plugins, Additional(rec))]
Narrowed(request, file, rec) ==
    [profile |-> Either(Either(request.profile, file.profile), rec.sel.profile),
     ask |-> [n \in Carried |-> Asked(request, file, rec)[n]],
     plugins |-> Either(Either(request.plugins, file.plugins), Additional(rec))]

-----------------------------------------------------------------------------
(* An install up to its first write.  "from" remembers what the command    *)
(* was asked and what it found, for the properties.                        *)
Transaction(request, from) ==
    LET sel == Chosen(request, InFile, active)
        id == IF active = NoRec THEN left.commands ELSE active.id
    IN [cmd |-> "install", from |-> from, sel |-> sel, prev |-> active,
        file |-> options, edited |-> edited,
        jr |-> [id |-> id, digest |-> J!DigestOf(active), sel |-> sel, official |-> Official(sel)],
        started |-> {}, failed |-> FALSE]

Removal(cmd, rec, request, from) ==
    [cmd |-> cmd, from |-> from, then |-> request,
     rec |-> [id |-> rec.id, digest |-> J!DigestOf(active), sel |-> rec.sel,
              official |-> rec.official]]

From(request, rec) == [request |-> request, options |-> options, record |-> rec]

(* installHolyCodexEffect, up to the journal or the removal.               *)
Start(request) ==
    LET rec == J!Interrupted(active, preparing, conflicted) IN
    /\ UNCHANGED disk
    /\ \/ ~J!InstallMayStart(active, preparing, conflicted) /\ Stop
       \/ /\ J!InstallMayStart(active, preparing, conflicted)
          /\ IF rec = NoRec
             THEN pc' = "journal" /\ mem' = Transaction(request, From(request, active))
             ELSE /\ pc' = "rm_checkpoint"
                  /\ mem' = Removal("reconcile", rec, Narrowed(request, InFile, rec),
                                    From(request, rec))

InstallByFlags(flags) == pc = "idle" /\ Spend("commands") /\ UNCHANGED edited /\ Start(RequestOf(flags))

(* The wizard shows what is in effect, with the flags over it.             *)
Before ==
    IF options # Absent \/ active = NoRec THEN InFile
    ELSE [AsRequest(active.sel) EXCEPT !.plugins = Additional(active)]
StateFrom(request) ==
    [profile |-> Either(request.profile, Usual), plugins |-> Either(request.plugins, {}),
     on |-> {n \in Names : Over(request.ask, [m \in Names |-> m \in Default])[n]}]

OpenWizard(flags) ==
    /\ pc = "idle" /\ Spend("commands") /\ UNCHANGED <<disk, edited>>
    /\ pc' = "wizard"
    /\ mem' = [cmd |-> "wizard", state |-> StateFrom(Effective(RequestOf(flags), Before))]

WizardKey ==
    /\ pc = "wizard" /\ UNCHANGED <<disk, pc>> /\ Keep
    /\ \/ \E n \in Names :  \* toggleCapability
            mem' = [mem EXCEPT !.state.on = (@ \cup {n}) \ (@ \cap {n})]
       \/ \E p \in Profiles : mem' = [mem EXCEPT !.state.profile = p]
       \/ \E plugins \in SUBSET Extras : mem' = [mem EXCEPT !.state.plugins = plugins]

WizardDone ==
    /\ pc = "wizard" /\ Keep
    /\ Start(AsRequest(mem.state)) \/ (Stop /\ UNCHANGED disk)

(* upgradeHolyCodexEffect: nothing is done when nothing changes, and the   *)
(* opt-ins do not count as a change; "other" stands for a new version, new *)
(* catalog or tooling, a legacy setting.  Its caller may name the opt-ins, *)
(* for which there are no flags.                                           *)
UpgradeRequests ==
    {[request EXCEPT !.ask = Over(@, more)] :
        request \in {RequestOf(flags) : flags \in Commands}, more \in {<<>>} \cup [OptIns -> BOOLEAN]}
SourceOptions(rec) ==
    IF options # Absent THEN AsRequest(options)
    ELSE [AsRequest(rec.sel) EXCEPT !.plugins = AdditionalForUpgrade(rec)]
SameOptions(a, b) ==
    /\ a.profile = b.profile /\ a.plugins = b.plugins
    /\ \A n \in Carried : a.ask[n] = b.ask[n]

Upgrade(request, other) ==
    LET rec == J!RecoveryState(active, preparing, conflicted)
        source == SourceOptions(rec)
    IN /\ pc = "idle" /\ Spend("commands") /\ UNCHANGED edited
       /\ rec # NoRec /\ J!InstallMayStart(active, preparing, conflicted)
       /\ IF other \/ ~SameOptions(Effective(request, source), source) \/ options = Absent
                   \/ J!Interrupted(active, preparing, conflicted) # NoRec
          THEN Start(Effective(request, source))
          ELSE UNCHANGED <<disk, pc, mem>>

Remove ==
    LET rec == J!RecoveryState(active, preparing, conflicted) IN
    /\ pc = "idle" /\ Spend("commands") /\ UNCHANGED <<disk, edited>>
    /\ rec # NoRec /\ J!RemovalMayStart(active, preparing, conflicted)
    /\ pc' = "rm_checkpoint" /\ mem' = Removal("remove", rec, Silent, From(Silent, rec))

-----------------------------------------------------------------------------
(* The transaction: the journal, Codex's part, the record, install.toml.   *)
WriteJournal ==
    /\ pc = "journal" /\ UNCHANGED <<options, active, conflicted>>
    /\ \/ preparing' = mem.jr /\ pc' = "record" /\ mem' = mem /\ Keep
       \/ Fault /\ preparing' \in Attempted(preparing, mem.jr) /\ Stop

ActiveRecord == [id |-> mem.jr.id, sel |-> mem.sel, official |-> mem.jr.official]
RollsBack(started) == pc' = "rb_record" /\ mem' = [mem EXCEPT !.started = started]

PublishRecord ==
    /\ pc = "record" /\ UNCHANGED <<options, preparing, conflicted>>
    /\ \/ active' = ActiveRecord /\ pc' = "options" /\ mem' = mem /\ Keep
       \/ Fault /\ UNCHANGED active /\ RollsBack({})
       \/ Fault /\ active' \in Attempted(active, ActiveRecord) /\ RollsBack({"record"})

WriteOptions ==
    /\ pc = "options" /\ UNCHANGED <<active, preparing, conflicted>>
    /\ \/ options' = mem.sel /\ edited' = FALSE /\ pc' = "clear" /\ mem' = mem /\ UNCHANGED left
       \/ Fault /\ options' \in Attempted(options, mem.sel) /\ RollsBack({"record", "options"})

ClearJournal ==
    /\ pc = "clear" /\ UNCHANGED <<options, active>>
    /\ \/ preparing' = NoRec /\ conflicted' = NoRec /\ Keep /\ Stop
       \/ Fault /\ UNCHANGED <<preparing, conflicted>> /\ RollsBack({"record", "options"})

(* The rollback goes on after a failed step.                               *)
Failed == mem' = [mem EXCEPT !.failed = TRUE]

RestoreRecord ==
    /\ pc = "rb_record" /\ pc' = "rb_options" /\ UNCHANGED <<options, preparing, conflicted>>
    /\ \/ active' = (IF "record" \in mem.started THEN mem.prev ELSE active) /\ mem' = mem /\ Keep
       \/ "record" \in mem.started /\ Fault /\ Failed /\ active' \in Attempted(active, mem.prev)

RestoreNoOptions ==  \* mutant of RestoreOptions
    /\ pc = "rb_options" /\ pc' = "rb_rest" /\ Keep
    /\ UNCHANGED <<options, active, preparing, conflicted, mem>>
RestoreOptions ==
    /\ pc = "rb_options" /\ pc' = "rb_rest" /\ UNCHANGED <<active, preparing, conflicted>>
    /\ \/ "options" \notin mem.started /\ UNCHANGED <<options, mem>> /\ Keep
       \/ "options" \in mem.started /\ UNCHANGED <<mem, left>>
             /\ options' = mem.file /\ edited' = mem.edited
       \/ "options" \in mem.started /\ Fault /\ Failed /\ options' \in Attempted(options, mem.file)

(* The rest of the rollback, which may fail as well, and the journal.      *)
RestoreRest ==
    /\ pc = "rb_rest" /\ pc' = "rb_journal" /\ UNCHANGED disk
    /\ (mem' = mem /\ Keep) \/ (Fault /\ Failed)

EndRollBack ==
    /\ pc = "rb_journal" /\ UNCHANGED <<options, active>> /\ Stop
    /\ \/ preparing' = NoRec /\ conflicted' = (IF mem.failed THEN mem.jr ELSE conflicted) /\ Keep
       \/ Fault /\ UNCHANGED preparing
          /\ conflicted' \in Attempted(conflicted, IF mem.failed THEN mem.jr ELSE conflicted)

-----------------------------------------------------------------------------
(* The removal, which a reconciling install goes through: a checkpoint,    *)
(* then the record, install.toml and the journals.  Whatever fails leaves  *)
(* conflicted state and ends the command.                                  *)
Checkpoint ==
    /\ pc = "rm_checkpoint" /\ UNCHANGED <<options, active, preparing>>
    /\ \/ conflicted' = mem.rec /\ pc' = "rm_record" /\ mem' = mem /\ Keep
       \/ Fault /\ conflicted' \in Attempted(conflicted, mem.rec) /\ Stop

DropRecord ==
    /\ pc = "rm_record" /\ UNCHANGED <<options, preparing, conflicted>>
    /\ \/ active' = NoRec /\ pc' = "rm_options" /\ mem' = mem /\ Keep
       \/ Fault /\ UNCHANGED active /\ Stop

DropOptions ==
    /\ pc = "rm_options" /\ UNCHANGED <<active, preparing, conflicted>>
    /\ \/ options' = Absent /\ edited' = FALSE /\ pc' = "rm_journals" /\ mem' = mem
          /\ UNCHANGED left
       \/ Fault /\ UNCHANGED options /\ Stop

DropJournals ==
    /\ pc = "rm_journals" /\ UNCHANGED <<options, active>>
    /\ \/ /\ preparing' = NoRec /\ conflicted' = NoRec /\ Keep
          /\ IF mem.cmd = "reconcile" THEN pc' = "restart" /\ mem' = mem ELSE Stop
       \/ /\ Fault /\ preparing' \in {preparing, NoRec} /\ UNCHANGED conflicted /\ Stop

(* The install again, which reads the disk anew; or a preflight that fails *)
Restart ==
    /\ pc = "restart" /\ UNCHANGED disk
    /\ \/ pc' = "journal" /\ mem' = Transaction(mem.then, mem.from) /\ Keep
       \/ Fault /\ Stop

-----------------------------------------------------------------------------
(* The user edits or deletes install.toml; a command dies.                 *)
EditOptions(file) ==
    /\ file # options /\ Spend("edits") /\ options' = file /\ edited' = TRUE
    /\ UNCHANGED <<active, preparing, conflicted, pc, mem>>

Die == pc # "idle" /\ Fault /\ Stop /\ UNCHANGED disk

Init ==
    /\ options = Absent /\ active = NoRec /\ preparing = NoRec /\ conflicted = NoRec
    /\ pc = "idle" /\ mem = Idle /\ left = Limits /\ edited = FALSE

Transacts == WriteJournal \/ PublishRecord \/ WriteOptions \/ ClearJournal
RollBack == RestoreRecord \/ RestoreOptions \/ RestoreRest \/ EndRollBack
Removes == Checkpoint \/ DropRecord \/ DropOptions \/ DropJournals \/ Restart

Next ==
    \/ \E flags \in Commands : InstallByFlags(flags) \/ OpenWizard(flags)
    \/ \E request \in UpgradeRequests, other \in BOOLEAN : Upgrade(request, other)
    \/ WizardKey \/ WizardDone \/ Remove \/ Transacts \/ RollBack \/ Removes
    \/ \E file \in Choices \cup {Absent} : EditOptions(file)
    \/ Die

Spec == Init /\ [][Next]_vars

-----------------------------------------------------------------------------
(* An install that ends well has done what was asked, and where nothing    *)
(* was asked what install.toml said when the command started, and then     *)
(* what the record said, however much was reconciled before it; only the   *)
(* opt-ins are not promised when an interrupted install was reconciled.    *)
Wish(n) ==
    LET said == {r \in {mem.from.request,
                        IF mem.from.options = Absent THEN Silent ELSE AsRequest(mem.from.options)} :
                    n \in DOMAIN r.ask}
    IN IF n \in DOMAIN mem.from.request.ask THEN mem.from.request.ask[n]
       ELSE IF said # {} THEN n \in mem.from.options.on
       ELSE IF mem.from.record # NoRec THEN n \in mem.from.record.sel.on ELSE n \in Default
Promised == IF mem.from.record = mem.prev THEN Names ELSE Carried

ChoicesFollowed ==
    pc = "clear" =>
        /\ \A n \in Promised : (n \in active.sel.on) = Wish(n)
        /\ mem.from.request.profile \in {Absent, active.sel.profile}
        /\ mem.from.request.plugins \in {Absent, active.sel.plugins}
        /\ mem.from.request.profile = Absent /\ mem.from.options # Absent
              => active.sel.profile = mem.from.options.profile

(* Between commands, with no journal left to tell otherwise, install.toml  *)
(* says what the active record says, unless the user has edited it since.  *)
OptionsMatchRecord ==
    pc = "idle" /\ active # NoRec /\ preparing = NoRec /\ conflicted = NoRec /\ ~edited
        => options = active.sel
=============================================================================
