# HolyCodex in TLA+

Specifications, model-checking configurations and machine-checked proofs for
HolyCodex, the TypeScript monorepo under `src/`. Line references are to
`src/packages/core/src/work-state.ts` unless another file is named; installer,
maintenance and the like are the files of those names under `packages/`.

## Inventory

| Component | State it keeps | Operations | Interacts with | Hard behaviours |
|---|---|---|---|---|
| **Work state** (`core/src/work-state.ts`) | A directory per Intent: `intent.toon`, `assignments/*.toon`, `plan.toon` with an archive, a transaction journal; a pointer to the current Intent; lock directories `.intent-store` with an `.owner` file | `IntentStore`: create, select, list, transition, abandon, complete, record evidence, record integration, revise Plan, create / revise / supersede / start Assignment, record result, recover, diagnose | Called by the agent CLI, one process per call; reads the Git repository; the file system is all that processes share | several processes; death between any two calls; failed writes; readers without a lock; work going on in the repository under a recorded baseline |
| **Agent CLI** (`agent/src`) | none of its own | argument parsing; `auto-reset read`, `consume`, `evaluate` | the store; the app-server client | quota read before a credit is consumed, answers that are lost |
| **App-server client** (`codex/src/client.ts`, `transport.ts`) | pending requests, handshake flags, server-request work, a line buffer | initialize, requests, notifications, server requests, close | a child process over pipes | time-outs against late answers, close while requests are pending, lines at the bound |
| **Official plugin bridge** (`codex/src/official-plugins.ts`) | Codex's plugins and marketplaces, a reserved directory | add, remove, addMarketplace, bootstrap of the official marketplace | Codex and git as commands; Codex fills the reserved directory itself | commands that fail having taken effect; others acting between two looks |
| **Runtime configuration** (`codex/src/runtime-config.ts`, `managed-config.ts`) | the user's `config.toml`, which it shares | merge, clean-up, comparison | installer and removal; the user edits the same file | what was the user's must survive a merge and its removal |
| **Installer** (`cli/src/installer.ts`, `storage.ts`, `native-agents.ts`) | active, preparing and conflicted records, `install.toml`, role assets, the managed keys | preflight, review, install with rollback, upgrade | runtime configuration, plugins, tooling, files | a crash or failure between journaled steps; rollback that fails; edits of the user meanwhile |
| **Maintenance** (`cli/src/maintenance.ts`) | the installer's records | doctor, remove, upgrade | as the installer; an install reconciles by a removal | decisions on what was read before a prompt; what a removal forgets |
| **Tooling** (`cli/src/tooling.ts`, `official-manager.ts`) | the global installation of ctx7 | inspect, install, remove | package managers; the user does the same | whose installation is it? |
| **CLI front end** (`cli/src/commands.ts`, `args.ts`, `installer-wizard.ts`) | the choices of the user | parsing, wizard, conflict screens | the installer | screens gone through in any order |
| **Release scripts** (`scripts/package-release.ts`, `release-version.ts`, `package-verification.ts`, the workflows) | npm, GitHub releases, artifacts | prepare, pack, check, publish | GitHub Actions, npm | cancelled and repeated runs, builds that differ |
| **Generated bindings** (`scripts/generate-codex-bindings.ts`, `codex/src/generated-artifact.ts`) | a generated tree with its provenance | ensure, verify | the Codex CLI | a tree replaced file by file without a lock |
| **Routes, catalog, plugin package, proof scripts, executable discovery** | none | tables, assembly, checks | the above | sequential; little a unit test does not reach |

What makes each of them correct:

- *Journal*: an operation replaces all of its records or none, whatever fails;
  a success stands; a journal left behind is resolved.
- *Lock*: operations exclude one another; a lock whose owner died comes back.
- *Lifecycle*: evidence is about the repository it is used for; a result is
  recorded once, for its own invocation; no foreign change is taken for work;
  supersession cannot hide unfinished work; completion rests on completed work
  and never comes undone.
- *Other records of the store*: no Plan is lost; no revision is lost; a sweep
  removes nobody's write.
- *Diagnosis*: what it reports is what the store holds, and records that only
  the operations wrote are called damaged for known causes only.
- *Client*: every caller is told one thing, its own, and is told something.
- *Installer, tooling, plugins*: every effect on the user's system is told by a
  record or reported; what was the user's stays; choices are followed and not
  forgotten; a failed install leaves things as found.
- *Release*: a version is one artifact, everywhere.
- *Banked reset*: a credit goes only when quota is low, also when the request is late.
- *Bindings*: what a run returns is whole, and for the installed Codex.

## Modules

| Module | Models | Role |
|---|---|---|
| `AtomicStore` | what an operation on several records promises | abstract specification |
| `WorkStateJournal` | `#withIntentLock`, `#commitFiles`, `#recoverIntentTransaction`, `atomicWriteText` | implements `AtomicStore` |
| `WorkStateDiagnosis` | `diagnose` reading while operations run | composes with `WorkStateJournal` (EXTENDS) |
| `WorkStateLock` | `withLock`, `readLockOwner`, `isProcessAlive`, `removeOwnedLock` | |
| `WorkState` | the operations of `IntentStore` on one Intent and the repository around it | takes lock and journal as given |
| `WorkStateReport` | what `diagnose` says of the records | over `WorkState` (EXTENDS) |
| `WorkStateRecords` | directories, pointer, Plans, temporary files, legacy records | takes the locks as given |
| `AppServerClient` | the JSON-RPC client, its transport, the server | |
| `InstallJournal` | the installer's records and the rules over them | pure operators |
| `Install` | install, rollback, removal, reconciliation | over `InstallJournal` (EXTENDS) |
| `InstallReview` | preflight and review before the transaction | |
| `Selections` | command lines, wizard, `install.toml`, upgrade | uses `InstallJournal` (INSTANCE) |
| `OfficialPlugins` | the adapter over Codex's plugin commands | |
| `Context7` | ctx7: found, installed, owned, removed | |
| `Release` | the publish workflow | |
| `BankedReset` | policy and consumption of a banked reset | |
| `CodexBindings` | the generated tree | |
| `Parts` | `WorkStateRecords` and the seven from `InstallReview` to `CodexBindings`, side by side | composes them (INSTANCE) |
| `WorkStateJournalProofs`, `WorkStateLockProofs`, `WorkStateProofs`, `WorkStateRecordsProofs`, `AppServerClientProofs`, `InstallProofs`, `ReleaseProofs` | | proofs about the module of that name |
| `PartsProofs` | | proofs about bindings, banked reset, ctx7, selections, review and plugins; theorems of `Parts` |
| `MCDiagnosis`, `MCLock`, `MCWorkState`, `MCClient`, `MCInstall`, `MCParts` | | instances for TLC |

### `WorkStateJournal` and `AtomicStore`

State: `disk` (contents of each record), `journal` (absent, or its mark and both
contents), and the running operation: `pc`, the files still to write, its
request, the answer given last. Contents are the number of the operation that
wrote them, 0 at creation. Steps are single file-system calls: a `rename`
(`Write`, `WriteSingle`, `Prepare`, `Mark`, `Replay`) or the removal of the
journal (`Remove`, `Discard`). Each may fail, before or after taking effect, and
then the code's handler runs: a failure before the journal is in place is passed
on (`PrepareFails`); one inside the guarded block replays the journal *as it is
on disk* (`CommitFails`, then `Replay` and `Discard` from `undoing`); one in the
removal of the journal is passed on with everything written (`RemoveFails`).
`Crash` ends the process anywhere. `Begin` takes the lock and finds out whether
there is a journal to replay.

`AtomicStore` has three steps: an operation begins, takes effect on all of its
records at once, ends. Success requires the effect; failure and death allow
either. The refinement mapping sends the disk to the store a caller would find
after a replay (`Store`), so that the effect of a journaled operation happens at
the rename that sets the commit mark, and that of a simple one at its rename.

### `WorkStateDiagnosis`, `WorkStateReport`

`diagnose` reads the Intent (595), looks for a journal (650) and reads the
Assignments in turn (754), without the lock and without replaying. The first
module adds the reader's variables and interleaves its steps with the journal's;
two history variables record whether an operation ran meanwhile and which writes
were journaled. The second one is the report itself, evaluated on every state
`WorkState` reaches, by its codes: of the Intent its terminal state, suspension,
gates with their evidence, and drift (`IntentIssues`); of each Assignment its
invocations, supersession, and status against the latest result with its evidence
and blocker (`WorkIssues`).

### `WorkStateLock`

State: the directory, the creator of `.owner`, whether it has written its pid
and token, whether the directory has been left alone for `LOCK_STALE_MS`, and
each process's place in `withLock`. `mkdir`, `lstat`, reading the owner, the
exclusive open, the write of pid and token, and each half of the recursive `rm`
(unlink, then rmdir, with another round if a file has appeared) are steps of
their own. The write of the owner may fail before or after the pid has reached
the file; either way the lock stays behind. A process may die anywhere. `Age`
lets the stale limit pass at any time: nothing bounds how long a process is
suspended. The model reads the owner and asks whether it lives in one step
(`Judge`); what matters is the gap between that and the removal. Reuse of pids is
left out.

### `WorkState`

State: the Intent record, the Assignment records, and the repository: HEAD, the
tree of every commit, the worktree. An operation is one step, which is what the
lock and the journal are for; a refused call changes nothing and is not a step.
Each action carries the checks of its method in the order-insensitive form of a
conjunction, and every field it writes.

- A repository snapshot has HEAD and *one letter per path*, as `git status` has;
  contents are visible to the properties only.
- A scope is the set of paths it covers; `Authority` gives the paths a scope may
  be expanded with (3384-3393). `MCWorkState` has two instances: `Near`, all
  paths in one component, and `Far`, each on its own.
- The capability a start issues is random in the code; here the number of the
  start, so that results of every earlier start can be attempted at any time.
- `proof` is a history variable: the commit and contents on which a gate was
  last granted.
- Evidence is there or not. Root may record none, some, or a check with a
  successful result (`Items`); an Intent keeps whether anything was recorded of it
  (`noted`), a successful check for its verification (`proven`) and anything for
  its review (`reviewed`). Of an Assignment's results the order is kept, and of the
  last one its outcome, whether it came with evidence, and the blocker (`Reports`).
  The `context7` field of a result counts as evidence of it.
- Revisions are not kept: a stale revision is a refusal. Left out altogether:
  legacy records without a capability, the Context7 requirement, texts
  (blockers and evidence are there or not; the reason of a supersession is named for the
  predecessor it was given for), identity of the repository root, quoting of
  paths, merge commits (recordVcsIntegration requires a single parent),
  dependencies between Assignments.
- The four Git commands of a snapshot are one step.

### `WorkStateRecords`

Several processes run whole commands over several Intent directories. Each write
is a temporary file and a rename, two steps; an archived Plan is created empty and
filled, two steps; `revisePlan` is archive, Plan, Intent. `Locate` reads every
directory without a lock and writes legacy records back migrated, as do the
readers under a lock. Every locked operation first removes the temporary files
of its directory, whoever made them (`Enter`), as `Sweep` does for recover, list
and currentIntent in one directory after the other. Plans
are the number of the command that wrote them; records carry their revision.
`ArchiveLimit` is the 999 of the three-digit names (4173). Taking a lock whose
owner has died is part of `Taken`.

### `AppServerClient`

A step is what runs between two awaits. `Register` is `requestEffect` up to its
line, `Settle` the one place where a caller is told something, `Close`
`closeWithErrorEffect`; every line read is one of `ReadAnswer`, `ReadAsk`, a
notification, garbage or an overlong line. The server answers in any order, late,
twice, for others, asks by itself, sends garbage and exits. All public methods
are the one action `Call`: they differ in their schemas, and an answer fits its
schema or does not.

### `InstallJournal`, `Install`

`InstallJournal` has the records and the pure rules: diagnosis of journals,
which record a removal acts on, and merge, drift and clean-up of *one* managed
key (they are treated one by one). `Install` is one process over a CODEX_HOME:
every durable write is a step, followed by the journal write that tells it, as in
the code; a death or failure may come at any of them, before or after the effect.
The rollback of install goes on after failed steps as the code's does, and the
removal stops at the first. An install that finds a journal it can reconcile
removes first and starts again. The user edits the managed key or a role asset
while a command runs. Digests of records are the records. Left out here: what
`InstallReview`, `Selections`, `OfficialPlugins` and `Context7` model on their
own; provider entries of `config.toml`; the window between the last comparison of
a file and its write; disabled plugins; symbolic links.

### `InstallReview`

One entry of `config.toml` per kind of conflict: invalid table, marketplace,
provider, managed key. The preflight may write a temporary `config.toml` without
invalid tables, has Codex list plugins, and puts the user's text back; conflict
screens are shown and reopened, decisions remembered over restarts; the final
review applies, changes options, resolves again or cancels; the transaction is
one removal of invalid tables, one publication, and the rollback of both. A write
may fail before or after its text is in place. The mode is that of the command
line: with `--yes` no screen is shown and every conflict gets its default. `found`
is a history variable: the file as all but the installer have left it. Left out:
role assets and earlier records, `resolveConflict` one by one (callers of the
library), the window between comparison and write.

### `Selections`

`CommandLines` is what `parseArgv` and `validateCommand` let through, `RequestOf`
what becomes of it; the wizard is an editor of `StateFrom`; `Chosen` fills in what
was not said from `install.toml`, the active record, the defaults. The transaction
writes journal, record and `install.toml` with the rollback of both; the removal
that reconciles deletes `install.toml` before the install starts again with
`Narrowed`. Upgrade does nothing when nothing changed. Profile and tier are one
field. `from` in the memory of a command is history, for the properties.

### `OfficialPlugins`

A step is one command of Codex or git or one look at the file system; between two
of them the user or Codex may add, disable or remove plugins, register
marketplaces, fill the reserved directory. A command may fail, or time out,
having taken effect or not. `put` and `took` are history: what the call has
really added and removed. Left out: abort signals (production passes none),
retries of the rename on Windows, the read-only status, the offline check of
manifests.

### `Context7`

Each package manager has a package of ctx7 or none, made by the user or by
HolyCodex; there may be a copy on PATH. The record has manager, version,
executable and, for an owned tool, its identity. An inspection is one step: it looks
for the package, and only if that is there whether PATH leads elsewhere; it may
fail and then says "not there". So an install under a foreign ctx7 on PATH adds its
package and is then refused as shadowed, and a removal does not mind PATH once the
package is gone. The rest of the install fails or not, with the rollback of the
tool. `blind` and `forgotten` are history: where an inspection failed, and what is
told by no record any more after a step that is known to lose it (listed at
`ToolsTold`).

### `Release`

Runs of the workflow per ref and commit, queued behind runs of the same ref; jobs
fail, are cancelled, re-run alone or all together, which is when a build may
differ. Every check reads the registry anew; an upload may stand though its job
failed. A maintainer moves a tag or deletes a draft. Left out: `latest` and `dev`
as dist-tags, what the package contains.

### `BankedReset`

The account has windows of lengths with what remains in each: used by anyone,
renewed in time, filled by a reset. Root reads, asks the user, consumes; a request
is carried out at some time or never; Root repeats an attempt under its key.
Thresholds are the code's. `outdated` is history: a window has renewed since the
look a request rests on, or another such request has been carried out since.

### `CodexBindings`

Several runs over one tree: provenance and files are read one by one, compared,
generated into a temporary directory, removed one by one, copied one by one. A
run dies, or fails when another removes the directory below it; `bun install`
brings another CLI, or one there was before. `alone` and `mixed` are history:
whether a run was disturbed, and for which versions a tree was generated by a CLI
installed after the version was resolved.

### `Parts`

`WorkStateRecords`, `InstallReview`, `Selections`, `OfficialPlugins`, `Context7`,
`Release`, `BankedReset` and `CodexBindings` share no state in these models.
`Parts` has them side by side: `part` says which of them a behaviour is about and
never changes, its variables are those of the eight (one of a name that several
have), and the variables of the other parts are `Unused`. Constants of different
meaning and the same name are renamed where the module is instantiated (`Nothing`
for the `None` of records and ctx7, `Releases` for the `Versions` of the bindings,
`Standard` for the `Default` of the selections, a `Limits` for each). The states
are the disjoint union of the eight state spaces, and every property speaks of its
own part. `PartsAssumption` is what the eight assume of their constants. `MCParts`
gives values only.

## Runs

| Run | Configuration | What it shows |
|---|---|---|
| `journal` | 2 Assignments and the Intent, 3 operations, 2 faults, a diagnosis throughout; deadlock checked | `JournalInv`, `Implements`, `SuccessIsFinal`, `PendingResolved`, `QuietDiagnosisSound` |
| `diagnosis_race` | 1 operation, no fault | finding: `WholeTransactionsOrReported` |
| `lock` | 3 processes, 2 attempts each, a death, an expiry, a failed owner write | `ExclusiveUnlessRobbed`, `RobbedOnlyAfterLoss`, `DeadOwnerReclaimed` |
| `lock_reclaim` | 3 processes, 3 attempts, a death | finding: `Exclusive` |
| `gates` | an ordinary and an operations Assignment, 2 starts each, 1 path, 1 edit, 1 commit; evidence always meaningful | `TypeOK`, `EvidenceCovers`, `IntegratedBaseline`, `InvocationsAccounted` |
| `supersede` | 3 Assignments, 1 start each, open Plans, passed and both review verdicts, results with and without evidence and blocker; no edits | `SupersessionSound`, `CompletionSound`, `TerminalFrozen`, `LawfulRecordsDiagnosedSound` |
| `concurrent` | 2 Assignments, 2 paths in one component, 1 edit, 1 commit | `BaselineAttributed` |
| `client` | the handshake and 2 requests, 4 lines of the server, one request of its own, with time-outs | `HandshakeFirst`, `OwnAnswer`, `SettledOnce`, `SilentWhenClosed`, `SettledAfterExit` |
| `install` | 3 commands over 2 selections, 2 troubles (deaths, failures, edits), a new release; a user who had nothing before, or the key and the plugin | `EffectsTold`, `UserPluginsStay`, `RestoresOriginal`, `EditsSurvive` |
| `install_stale` | the same | finding: `JournalsReconcilable` |
| `install_rollback` | the same | finding: `RollbackRestores` |
| `parts` | see below | `LostOnlyToMigration`, `LockedWritesStand`, `PlansKept`; `UserToolsStay`, `ToolsTold`; `EffectsReported`, `OthersSpared`; `EndsAsFound`, `OnlyReviewedReplaced`; `ChoicesFollowed`, `OptionsMatchRecord`; `OneArtifactPerVersion`; `SpentOnlyWhenLow`; `WholeTreeReturned` |

The instances of `parts`:

| Part | Bounds |
|---|---|
| records | 2 processes, 2 Intents, 3 commands of all kinds, 1 fault; at first nothing, a legacy Intent, a new one, or one with a Plan; `ArchiveLimit` 1 |
| plugins | a plugin with two identities and one with one; every list Codex may give of either, every set of marketplaces, every reserved directory; 1 call, 2 failing commands, 2 moves of others |
| tools | 2 package managers and a copy on PATH, 2 versions, 2 commands, 1 fault, 1 install that fails later, 2 moves of the user |
| review | one entry of each kind, interactive and `--yes`; 1 edit, 2 faults, 1 restart |
| choice | a capability with flags and one without, a plugin to add, command lines that say something, nothing, or the opposite of a default; 2 commands, 1 trouble, 1 edit |
| publishing | 2 runs, 2 commits of one version, 2 builds; 3 starts and re-runs, 1 fault, 1 move of a maintainer; a branch, a tag, a fork |
| reset | 1 Root, 2 credits, five-hour, weekly and monthly windows in four plans, levels around each threshold; 2 attempts, 2 lost answers, 3 uses, 1 renewal |
| bindings | 2 processes, 2 versions, one file besides `protocol.ts`; 3 runs, 1 death, 2 changes of version |

Why the bounds are enough:

- *Journal.* A journaled write of two Assignments and the Intent is what
  supersession does, the largest the code makes. Two faults let a replay fail
  that a first fault made necessary; three operations leave one to come after
  both, which is what `PendingResolved` speaks about.
- *Lock.* Three processes are what it takes to rob a live owner: the dead one's
  lock judged by two, taken by one. Two attempts let a process reclaim and then
  acquire. One death, one expiry and one error happen at any moment, together.
- *Lifecycle.* An Assignment started twice has a result that is late. One path
  suffices for a gate to be stale, two for one Assignment's change to be taken
  for another's, three Assignments for a chain of replacements. The runs split
  what one run could not hold in five minutes; each switches off only the
  inputs its properties least depend on (`Needs`, `Suspensions`, `Questions`,
  `Results`, `Declarations`, `Items`, `Reports`): evidence that is missing matters
  to the diagnosis alone, so that `supersede` has it and the others do not. `Declarations` lets Root declare acceptance and
  readiness together or withdraw both.
- *Client.* Two requests can be answered in the wrong order; four lines allow a
  late, a double and a foreign answer next to one the other request waits for.
- *Install.* Three commands are install, re-install or removal, and whatever has
  to reconcile them; the two troubles let a rollback fail, or an edit meet a death.
- *Records.* Two processes let a reader meet a writer or a sweep meet a write;
  after an Intent with a Plan, three revisions pass the archive's limit.
- *Plugins, tools, review, choice.* One command is what a report is about; a
  trouble in it and one in the command that follows are covered by the arbitrary
  state at the start or by the second command. In the review a second fault lets the
  rollback of a failed write fail. The proofs have no bounds.
- *Publishing.* Two runs with two builds are what it takes for two artifacts to
  compete; the third start is a re-run.
- *Reset.* An attempt given up, a second one, uses on both sides of each threshold,
  and a window that renews between the look and the request.
- *Bindings.* Two runs collide, the third finds what they left; two changes of version
  are an upgrade during a run and the way back.

In most runs the bounds let the system stop, so they do not check for deadlock;
the journal run does, as a diagnosis can always be made. Symmetry is used where
no temporal formula other than an action property is checked, over
interchangeable Assignments, paths, contents and processes; in `parts`, over the
two processes and the two digests of a build.

Fairness. `PendingResolved` and `DeadOwnerReclaimed` are checked under weak
fairness of the file-system calls of a live process (`Step`) and, for the
journal, of callers coming (`Begin`): a promise or effect the runtime has
resolved is continued. `SettledAfterExit` is checked under weak fairness of what
the client's runtime does by itself: reading lines that are there, continuing what
was resolved, closing the transport. Nothing is assumed of faults, time, the
diagnosis, the server (which need not exit) or a handler (which need not
return). `PendingResolved` is stated for the case that more operations than
faults are still to come, which is the bounded form of "finitely many faults".

## Findings

1. **A diagnosis can miss the transaction that misleads it** (`diagnosis_race`).
   A commit that begins after `diagnose` looked for the journal makes it compare
   the old Intent with new Assignments; STATE.md says a pending transaction is
   reported. `QuietDiagnosisSound` is what does hold: with no operation in
   between the report is right.
2. **Reclaiming can remove a live lock** (`lock_reclaim`). Between judging the
   owner dead (3887-3891) and `rm` (3892) another waiter may have reclaimed the
   lock and taken it. `ExclusiveUnlessRobbed` and `RobbedOnlyAfterLoss` say how
   far exclusion reaches: it is only ever lost this way, and never before a
   process has died or the stale limit has passed.
3. **A journal no command accepts** (`install_stale`). A re-install writes its
   active record (installer.ts:2188) and then removes its journal (2197). After a
   death in between the journal belongs to neither the old nor the new record and
   is "stale": install, upgrade and removal are refused until it is deleted by hand.
4. **A failed re-install rolls the plugin preference back too far**
   (`install_rollback`). After the write of `config.toml` its journal has the
   preference of before the *first* install (installer.ts:2048), and the rollback
   restores that under a record that claims the preference.

### Observations

Found while modelling, without a run of their own. What the properties must
exempt because of them is named at the property.

Work state:
- Blocked while reviewing, its Plan revised or a result failed, its blockers
  cleared: the only transition of that Intent is to reviewing, which needs a
  verification that can only be recorded while verifying (2833). Superseding an
  unfinished Assignment or failed operations lead out; otherwise only abandoning.
- The second replacement overwrites the reason the middle Assignment shares with
  the first (2113), and `diagnose` calls it a mismatch. Abandonment and failed
  operations keep `resume_state` (2764), which it calls stale.
- A result "completed" and a review "accepted" may be recorded with an empty list of
  evidence, and an Intent completed on them; `diagnose` then reports the evidence as
  missing (869-878, 967-976). `LawfulRecordsDiagnosedSound` lets these reports
  through, each only where its cause is, and no other.
- Integration compares paths, not contents (1745): a path edited between review
  and commit is integrated with the review still accepted. Verification evidence
  outlives the reset of its gate (1601).
- A reader that migrates a legacy record without the lock may write it over a newer
  revision (`UnlockedMigration`). With 999 archived Plans the next revision
  succeeds and every one after it fails (4173). A death inside `revisePlan` leaves
  a Plan the Intent does not name yet; a torn archive stays beside the good one.
- The clause on paths undeclared in an Assignment's own scope (2653-2659) is
  implied by the one on unexpected paths (2651); the exception for successful
  operations (2743) never has an effect.

Client: an answer that comes after its time-out is an unknown id and closes the
client with every other request; `work.active` of `completeServerRequest` never has
an effect; a line being read at close is still handled; close waits for the end of
the child's stderr without a limit.

Installer:
- Role files are written before the journal that names them, a plugin is added and
  `config.toml` written before their journal writes, where ARCHITECTURE.md:119 and
  INSTALLATION.md:134 have the journal first. After a removal of the records the
  first retry stops at role assets nobody names.
- A conflicted record after a rollback describes the intended state, not the one
  found. A failure to drop the active record or `install.toml` writes back a state
  from before the clean-up. A rollback inside the role installation that fails is
  not reported. A role asset edited between its reading and its writing is lost. A
  directory sync that fails after a rename reports a failure for a write that
  stands (storage.ts:196-209).
- The preference of a provider that is deselected stays in `config.toml`. Edits of
  kept or managed keys while Codex sets plugins up are put back. Nothing excludes
  two installers.
- Selections: an install that reconciles forgets the opt-ins (session-audit,
  auto-reset), which have no flags; `install.toml` is deleted before the restart,
  so that a death or failure then loses every selection where INSTALLATION.md:125
  promises it preserved; an upgrade ignores the opt-ins and compares plugins by
  their order (maintenance.ts:1491); the required plugins leak into
  `additional_plugins` when `install.toml` is missing; `--no-x=false` says nothing.
- Review: `--yes` replaces what the user has configured by the default of each
  conflict (commands.ts:577-599) without showing it, where INSTALLATION.md:145-146
  says it preserves foreign configuration; `OnlyReviewedReplaced` says of `--yes` only
  that the value was there when the install began. A write of the text without the
  invalid tables that fails after its rename (storage.ts:196-209) is not noted
  (installer.ts:1577), so the rollback does not give the tables back and nobody is
  told; likewise the temporary `config.toml` of the preflight: `LeftTorn` in
  `EndsAsFound`. A death in the preflight leaves the temporary
  `config.toml`; Escape in a reopened conflict screen turns an earlier "replace"
  into "keep"; an invalid value the user has removed himself comes back when the
  install fails.

Tooling: an inspection that fails is taken for absence, and the user's package
replaced, owned and later removed; with another ctx7 on PATH that reports no version
a package is added (tooling.ts:470-489), then found shadowed (926-942), and no
record tells of it, and so with an add that fails having taken effect; the upgrade of an owned tool is not rolled back
and leaves a record that fits nothing; a removal under another package manager
drops the record and leaves the package; `preflightContext7` has no caller.

Plugins: a poll that reads a half-written manifest ends the wait and the fallback
then refuses; a `plugin add` killed by its time limit that takes effect after the
next list is reported nowhere; registrations are removed by name from a list some
commands old; a disabled plugin cannot be restored; an add that fails after
conflicting registrations were removed leaves none.

Release: a draft left by a dying `gh release create` blocks every re-run until
deleted by hand; a full re-run after the publication on npm rebuilds, and is
refused unless the build is reproduced; the failed `package` job alone can never
be re-run, as the build is named after another attempt; a moved tag is looked at in
`prepare` only; dist-tags may go backwards.

Banked reset: a retry after a lost answer may say notConsumed though the credit was
used; two Roots with stale reads can spend a second credit; a window that renews
between the look and the request's execution makes the credit go at a high quota,
which no adapter can prevent; with a five-hour and no weekly window the five-hour
window alone authorises (auto-reset.ts:83-95), where BEHAVIOR.md:325-326 and the
auto-reset skill (SKILL.md:8) have a reset refused on missing evidence:
`OnHoursAlone` in `SpentOnlyWhenLow`.

Bindings: an upgrade between resolving the CLI and generating records files of the
new CLI under the old version; when that version is installed again the tree
verifies and is reused (generate-codex-bindings.ts:123-135), though the comment of
`ensureCodexGenerated` (133-136) has it refreshed from the installed CLI: `mixed` in
`WholeTreeReturned`. A slower run removes the tree a faster one has returned, so
that the property is about runs nothing disturbs.

## Proofs

| Theorem | Says |
|---|---|
| `WorkStateJournalProofs!Invariance` | `Spec => [](TypeOK /\ JournalInv)` |
| `WorkStateJournalProofs!Refinement` | `Spec => Implements` |
| `WorkStateJournalProofs!FinalSuccess` | `Spec => SuccessIsFinal` |
| `WorkStateJournalProofs!DiagnosisReadsOnly` | `DSpec => Spec`: a diagnosis changes nothing |
| `WorkStateJournalProofs!QuietDiagnosis` | `DSpec => []QuietDiagnosisSound` |
| `WorkStateLockProofs!Exclusion` | `Spec => []ExclusiveUnlessRobbed` |
| `WorkStateLockProofs!NoRobberyWhileAllLive` | `Spec => []RobbedOnlyAfterLoss` |
| `WorkStateProofs!TypeCorrect` | `Spec => []TypeOK` |
| `WorkStateProofs!Evidence` | `Spec => []EvidenceCovers` |
| `WorkStateProofs!Completion` | `Spec => []CompletionSound` |
| `WorkStateProofs!Supersession` | `Spec => []SupersessionSound` |
| `WorkStateProofs!InvocationsSettled` | `Spec => []InvocationsAccounted` |
| `WorkStateProofs!Attribution` | `Spec => BaselineAttributed` |
| `WorkStateProofs!IntegratedIsHead` | `Spec => []IntegratedBaseline` |
| `WorkStateProofs!Frozen` | `Spec => TerminalFrozen` |
| `WorkStateProofs!DiagnosedSound` | `Spec => []LawfulRecordsDiagnosedSound` |
| `AppServerClientProofs!TypeCorrect` | `Spec => []TypeOK` |
| `AppServerClientProofs!Handshake` | `Spec => []HandshakeFirst` |
| `AppServerClientProofs!AnswersBelong` | `Spec => []OwnAnswer` |
| `AppServerClientProofs!Settlement` | `Spec => SettledOnce` |
| `AppServerClientProofs!Silence` | `Spec => SilentWhenClosed` |
| `InstallProofs!UserPlugins` | `Spec => []UserPluginsStay` |
| `InstallProofs!Edits` | `Spec => EditsSurvive` |
| `InstallProofs!Told` | `Spec => []ToldInv`, the invariant under the next two |
| `InstallProofs!Effects` | `Spec => []EffectsTold` |
| `InstallProofs!Restores` | `Spec => []RestoresOriginal` |
| `PartsProofs!PlansStand` | `Spec => []PlansKept` |
| `PartsProofs!WritesUnderLocks` | `Spec => []LockedWritesStand` |
| `PartsProofs!OnlyMigrationLoses` | `Spec => LostOnlyToMigration` |
| `PartsProofs!TextsAsFound` | `Spec => []EndsAsFound` |
| `PartsProofs!ReviewedReplaced` | `Spec => OnlyReviewedReplaced` |
| `PartsProofs!PluginsReported` | `Spec => EffectsReported` |
| `PartsProofs!PluginsSpared` | `Spec => OthersSpared` |
| `PartsProofs!SelectionsMade` | `Spec => []ChoicesFollowed` |
| `PartsProofs!OptionsAgreed` | `Spec => []OptionsMatchRecord` |
| `PartsProofs!ToolsRecorded` | `Spec => []ToolsTold` |
| `PartsProofs!ToolsSpared` | `Spec => UserToolsStay` |
| `PartsProofs!Artifacts` | `Spec => []OneArtifactPerVersion` |
| `PartsProofs!ResetsWarranted` | `OneRoot` given, `Spec => SpentOnlyWhenLow` |
| `PartsProofs!WholeTrees` | `Spec => []WholeTreeReturned` |

They hold for every set of Assignments, processes, paths, plugins, entries,
capabilities, runs and versions and every value of the bounds, from the modules'
named assumptions on the constants only; the one theorem with a hypothesis of its
own is `ResetsWarranted`. `OneRoot` says that the agent of the banked reset is one:
with two, a stale read spends a second credit, which is listed above.

*Journal.* `JournalInv` is inductive with the types: it says what each program
point knows. In `writing` the journal is still prepared with the request as its
new contents, and every file no longer to do has them; in a replay every file no
longer to do has the contents the journal prescribes; `marked` has all of them
written. From it the refinement is one case per action: only `Mark`,
`CommitFails` at the mark, and `WriteSingle` change `Store`, and they change it
for the whole request at once; a replay leaves `Store` as it is, because it only
writes what `Store` already shows; removing the journal leaves it, because by
then the disk agrees. `SuccessIsFinal` is the same observation about the replay
that follows a success.

*Diagnosis.* The reader's steps leave every variable of the journal alone
(`DiagnosisReadsOnly`), so that what is proved of the journal holds under it.
`QuietDiagnosis` rests on `ReadSoFar`: as long as no operation has run since it
began, each record it has read is the one on disk, and what it saw of the journal
still holds. `DiagnosedSound` is about the records alone. `SoundIntent` says which
fields of the Intent go with its state (blockers, resume target, evidence,
declarations), `SoundWork` which of an Assignment go with its status (its latest
outcome, its blocker), `SoundTogether` that a supersession is noted and that a resume
target left in an executing Intent is the doing of operations; with
`InvocationsInv`, `SupersessionSound` and `CompletionSound`, which are proved
already, no issue is left for the report but those the property exempts.

*Lock.* Exclusion rests on `FenceInv`: while nobody has been robbed, a process
between its exclusive open and its release is the one `.owner` names. The second
theorem needs `LosslessInv`: without a death or an expiry nobody ever gets to
reclaim, so that the directory has one holder at a time.

*Lifecycle.* What a run must switch off, the proofs keep: they hold with all
inputs and any number of edits and commits at once.

- `SupersessionSound` is inductive: the replacement is neither superseded nor a
  replacement yet, so that a set of superseded Assignments closed under `by`
  cannot contain the one just superseded.
- `CompletionSound` needs `CompletedInv` (what `completeIntent` found, which
  `Frozen` keeps true) and `SupersessionSound`: if every Assignment were
  superseded, the replacements would not lead out.
- `IntegratedBaseline` and `BaselineAttributed` follow from `BaselineKinds`:
  only an integration and a result change the baseline.
- `EvidenceCovers` is not inductive, as it speaks only of a repository without
  drift. `EvidenceInv` says of every granted gate that the baseline stands for
  what it was granted on, either as that uncommitted change or as a clean
  worktree whose commits amount to it. Integration leads from the first to the
  second because it compares the commit with the baseline; a result keeps gates
  only if the repository is as the baseline says, for which successful
  operations need `IntegratedBaseline`.
- `InvocationsAccounted` becomes inductive with the fact that running work has
  been started.

*Records.* `ProcInv` says what a command in the middle of its work knows, place by
place: whose lock it holds, what it has read, what it is about to write and on which
record that is based (`Revising`, `WriteInv`). `PlansKept` and the types are
inductive with it; the step of one process keeps what the others know, because
they know it of a directory they have the lock of, or it never shrinks
(`Respects`). From it follow `LockedWrites`, as only who holds the lock of a place
sweeps it, and that only a migration loses a revision: under the lock a write is
based on the record it replaces.

*Client.* `Fresh` says that no id is used before it is issued, `Progress` how far the
handshake has come in the ids and on the wire, `Received` that an answer in the
inbox was sent, `OnePlace` that a request of the server is unread, being handled
or replied to, `Quiet` that a closed client has no open transport. `HandshakeFirst`
and `OwnAnswer` are inductive with these; `SettledOnce` and `SilentWhenClosed` are
action properties over the same invariant.

*Installer.* `UserPluginsStay` is not inductive by itself: whatever an install or a
removal may take out comes from a record or from the memory of the command.
`WellFormed` says that no record owns a plugin of the user, `Installing` and
`RemovalInv` the same of the lists in memory at each place. `EditsSurvive` needs in
addition where the values in a journal's entry of the managed key come from (the
record found, a reviewed value, or a selection).

`EffectsTold` and `RestoresOriginal` speak of the times between commands; what makes
them true is spread over every place of an install, a rollback and a removal. Their
invariant, `ToldInv`, adds to the above:

- `Typed`: the types of the records, of the system and of a command's memory.
- `Shape`: what the records have to do with that memory. Until it is published the
  active record is the one the install found; its journal is bound to it and carries
  an entry that is either that record's or the one in memory; after the publication
  the active record, the journal and the memory agree. What a removal acts on is
  bound to the active record, and each of its stages has dropped what comes before.
  `InstallRecovery` and `RemovalRecovery` then say which record a later removal
  would choose.
- `KeyInv`: a key with HolyCodex's own value is as the command found it or has the
  value of the entry in its journal, by the stage; between commands the record a
  removal would choose has an entry for it.
- `OriginalInv`: every entry, in a record or in memory, has the user's first value
  as its original.
- `PluginInv` and `FileInv`, for one plugin and one role asset at a time: HolyCodex
  has it in its records before it is there, and it is gone, or told by what the
  command found or by the conflicted record, when the rollback ends.

Each but the types is conditional on `notes` not having given up what it speaks of,
as `EffectsTold` is: `KeyInv` on the key, `PluginInv` and `FileInv` on the plugin or
file, `OriginalInv` on all. `Shape` holds unless everything was given up at once,
which is what happens when a rollback cannot put the active record back. Each part has a lemma
for each stage, and one for the stages that leave what it speaks of alone (`KeyQuiet`
and the like). TLC checked the parts on the states of `install` before they were proved.
`InstallAssumption` types the constants and keeps `NoRec` apart from records and
values.

*Review.* `TextInv` relates `config.toml`, what others have made of it, and the
text read first, entry by entry and for each stage: kept, hidden in the temporary
text, taken away, published. `AnswersInv` says that an entry about to be changed
has been answered for, `PlanInv` that the plan is the one decided on. An edit
keeps all of them, wherever it comes. `EndsAsFound` is the last conjunct of
`TextInv`; `OnlyReviewedReplaced` follows action by action, as a step that writes
has either compared the file with the reviewed text or takes back what it wrote
itself. `ModeInv` adds that an install with `--yes` decides nothing but defaults.

*Selections.* `TransactionInv`: until its journal is written a transaction has
changed nothing; from then on the journal tells of it, and the rollback puts back
what the command found. `RemovalInv`: what a reconciling removal has narrowed is
what the install after it chooses. `Settled` is what holds between commands.

*Plugins.* `PluginsInv` says of a running call that what it has added is of the
plugin it was asked for and still there, that it has added nothing before its first
command and removed nothing before the list told what to remove, and that an
addition has seen the plugin missing before it tried. With what a look at Codex's
list says of the plugin's identities (`EntryIs`), every way a call can end tells
what it did. For the marketplaces it says that a name about to be cleared was in
the way when they were listed.

*Ctx7.* `Inspects` says what an inspection has told the command that acts on it,
`Telling` that every package HolyCodex installed and no listed step has lost is
told, as the installation it is, by the record in force, by the previous one the
command remembers, or is the one it has just added.

*Release.* `RunsSound`: a run that goes on to GitHub, or would when its failed job is
started again, has its artifact on npm. `NpmUnique`: npm has one package of a
version. Versions of different runs are the same only if their tags are.

*Banked reset.* `ResetInv`: a request that can still be carried out and is not out of
date is of the attempt its agent is at and authorised by the quota as it is now
(`Current`), and so is the credit an agent has chosen (`Chosen`); what overtakes an
agent overtakes all its requests (`Overtaken`).

*Bindings.* `Undisturbed` says of a run nothing has disturbed that it is the only
one, that what it has read is the tree, and when it is done that the tree is whole
and recorded as it is; `MadeInv` that what a run has made and what the provenance
vouches for is of one version, unless that version is in `mixed`.

*Parts.* `part` never changes, so a behaviour of `Parts` in which it is, say,
"tools" is one of `Context7`, step by step (`ToolsAlone` and the like), and in all
others the property holds by its antecedent. `Release` and `WorkStateRecords` are
proved in modules of their own; their operators are shown equal to those of the
instances in `Parts`.

*What proving changed.* Five statements or definitions did not survive it and
were corrected, with the code as the judge:

- `EditsSurvive` now exempts one edit: a rollback takes the key for HolyCodex's own
  when the user has meanwhile put its value there (installer.ts:4138).
- A rollback that fails and cannot say so, because the record of it is not written
  either, leaves effects no record tells; the exemption of `EffectsTold` says so.
- `OnlyReviewedReplaced` recognises the user's own edits by the action, not by the
  values, which an installer's write can equal.
- The preflight strips only the invalid tables it has reviewed
  (installer.ts:3022); the model had let it take any.

- A user's change of a role asset is no content of any release (`Edited`, and the
  fields of the records are typed): the model had taken the number of a possible
  release for it.

*Not proved, and only model-checked.* Liveness (`PendingResolved`,
`DeadOwnerReclaimed`, `SettledAfterExit`), which is beyond the prover. Every
invariant and every other action property of a passing run is a theorem.

## Not modelled, and the plan

Not modelled, and why:

- *Durability*: a rename is durable when it returns. What a power failure may
  undo would need a model of the file system.
- *Contents*: digests, schemas, TOML and TOON text, framing of lines in chunks,
  plugin manifests, the model catalog. A value is a model value; where a
  property depends on a conversion (command lines, selections) it is modelled.
- *Work state*: dependencies between Assignments, the Context7 requirement,
  `readPlan`, which writes nothing.
- *doctor*, routes and catalog, the plugin package, `validate.ts`,
  `repository-proof.ts`, the end-to-end part of `package-verification.ts`, the
  search for the Codex executable, the choice of the plugin manager: they are
  sequential, change nothing another part reads, and are tables, reports or I/O.
- *Two installers at once*: nothing in the code speaks of it; every property of
  the installer would fail for want of a lock.

Done, in this order: journal, lock, diagnosis, lifecycle with their proofs;
client, installer and its journal, plugins, records, tooling, review, selections,
release, banked reset, bindings, the report of a diagnosis; then their proofs.

Next: an abstract specification of a transaction on the user's system (all or told)
that `Install` and `Context7` implement between commands.
