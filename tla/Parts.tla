--------------------------------- MODULE Parts ---------------------------------
(***************************************************************************)
(* The components that do not interact in these models, side by side:      *)
(* "part" says which of them a behaviour is about and never changes; the   *)
(* variables of the others are Unused.  A constant or variable several     *)
(* components have under one name is one here, unless it is renamed below. *)
(***************************************************************************)
EXTENDS Naturals, FiniteSets

CONSTANTS
    Absent, Nothing, Unused,
    (* OfficialPlugins *)
    Providers, Ids, NoId, Canonical, Candidates, Starts, Budget,
    (* WorkStateRecords *)
    Procs, Nobody, Torn, MaxDirs, Commands, ArchiveLimit, MaxRuns, MaxFaults,
    (* Context7 *)
    Managers, Bun, Foreign, Gone, MaxVersion, MaxUses, MaxFails, MaxMoves,
    (* InstallReview *)
    Invalid, Markets, Offered, Keys, ReviewLimits,
    (* Selections *)
    Profiles, Usual, Carried, OptIns, Standard, PluginOf, Basic, Extras, Flags, NoRec,
    ChoiceLimits,
    (* Release *)
    Runs, Shas, Digests, Tags, CanonicalOf, Betas, Triggers, Corrupt, ReleaseLimits,
    (* BankedReset *)
    Agents, Credits, Plans, Levels, ResetLimits,
    (* CodexBindings *)
    Required, Releases, BindingsLimits

VARIABLES
    part,
    left, pc, mem, active, plan, runs,          \* of several components
    live, shop, cache, snap, runtime, remote, call, put, took,
    made, rec, archive, current, temps, holder, at, faults, written,
    package, path, latest, journal, budget, blind, forgotten,
    broken, config, found, screen, selected,
    options, preparing, conflicted, edited,
    tag, npm, github,
    enabled, remaining, spent, agents, requests,
    cli, tree, provenance, procs, mixed

Plugins == INSTANCE OfficialPlugins
Records == INSTANCE WorkStateRecords WITH None <- Nothing
Tools == INSTANCE Context7 WITH None <- Nothing, MaxRuns <- MaxUses
Review == INSTANCE InstallReview WITH Providers <- Offered, Limits <- ReviewLimits
Choice == INSTANCE Selections WITH Default <- Standard, Required <- Basic, Commands <- Flags, Limits <- ChoiceLimits
Publishing == INSTANCE Release WITH Limits <- ReleaseLimits
Reset == INSTANCE BankedReset WITH Limits <- ResetLimits
Bindings == INSTANCE CodexBindings WITH Versions <- Releases, Limits <- BindingsLimits

(* What each of them takes for granted of its constants.                   *)
ASSUME PartsAssumption ==
    /\ Plugins!PluginAssumption /\ Records!WorkStateRecordsAssumption
    /\ Tools!Context7Assumption /\ Choice!CapabilityAssumption
    /\ Publishing!CommitAssumption /\ Bindings!VersionAssumption
    /\ Reset!ResetAssumption /\ Review!ReviewAssumption

-----------------------------------------------------------------------------
OfPlugins == <<live, shop, cache, snap, runtime, remote, call, put, took>>
OfRecords == <<made, rec, archive, current, temps, holder, at, faults, written>>
OfTools == <<package, path, latest, journal, budget, blind, forgotten>>
OfReview == <<broken, config, found, screen, selected>>
OfChoice == <<options, preparing, conflicted, edited>>
OfPublishing == <<tag, npm, github>>
OfReset == <<enabled, remaining, spent, agents, requests>>
OfBindings == <<cli, tree, provenance, procs, mixed>>
vars == <<part, left, pc, mem, active, plan, runs, OfPlugins, OfRecords, OfTools, OfReview,
          OfChoice, OfPublishing, OfReset, OfBindings>>

NoPlugins ==
    /\ live = Unused /\ shop = Unused /\ cache = Unused /\ snap = Unused /\ runtime = Unused
    /\ remote = Unused /\ call = Unused /\ put = Unused /\ took = Unused
NoRecords ==
    /\ made = Unused /\ rec = Unused /\ archive = Unused /\ current = Unused /\ temps = Unused
    /\ holder = Unused /\ at = Unused /\ faults = Unused /\ written = Unused
NoTools ==
    /\ package = Unused /\ path = Unused /\ latest = Unused /\ journal = Unused
    /\ budget = Unused /\ blind = Unused /\ forgotten = Unused
NoReview ==
    broken = Unused /\ config = Unused /\ found = Unused /\ screen = Unused /\ selected = Unused
NoChoice == options = Unused /\ preparing = Unused /\ conflicted = Unused /\ edited = Unused
NoPublishing == tag = Unused /\ npm = Unused /\ github = Unused
NoReset ==
    /\ enabled = Unused /\ remaining = Unused /\ spent = Unused /\ agents = Unused
    /\ requests = Unused
NoBindings ==
    /\ cli = Unused /\ tree = Unused /\ provenance = Unused /\ procs = Unused
    /\ mixed = Unused

Init ==
    /\ \/ part = "plugins" /\ Plugins!Init /\ pc = Unused /\ mem = Unused
       \/ part = "records" /\ Records!Init /\ left = Unused /\ pc = Unused
       \/ part = "tools" /\ Tools!Init /\ left = Unused
       \/ part = "review" /\ Review!Init
       \/ part = "choice" /\ Choice!Init
       \/ part = "publishing" /\ Publishing!Init /\ pc = Unused /\ mem = Unused
       \/ part = "reset" /\ Reset!Init /\ pc = Unused /\ mem = Unused
       \/ part = "bindings" /\ Bindings!Init /\ pc = Unused /\ mem = Unused
    /\ part \notin {"tools", "choice"} => active = Unused
    /\ part \notin {"records", "reset"} => plan = Unused
    /\ part \notin {"records", "publishing"} => runs = Unused
    /\ part # "plugins" => NoPlugins
    /\ part # "records" => NoRecords
    /\ part # "tools" => NoTools
    /\ part # "review" => NoReview
    /\ part # "choice" => NoChoice
    /\ part # "publishing" => NoPublishing
    /\ part # "reset" => NoReset
    /\ part # "bindings" => NoBindings

(* What is not of the part a behaviour is about does not change.          *)
Rests(parts, theirs) == IF part \in parts THEN TRUE ELSE UNCHANGED theirs

Next ==
    /\ part' = part
    /\ \/ part = "plugins" /\ Plugins!Next /\ UNCHANGED <<pc, mem>>
       \/ part = "records" /\ Records!Next /\ UNCHANGED <<left, pc>>
       \/ part = "tools" /\ Tools!Next /\ UNCHANGED left
       \/ part = "review" /\ Review!Next
       \/ part = "choice" /\ Choice!Next
       \/ part = "publishing" /\ Publishing!Next /\ UNCHANGED <<pc, mem>>
       \/ part = "reset" /\ Reset!Next /\ UNCHANGED <<pc, mem>>
       \/ part = "bindings" /\ Bindings!Next /\ UNCHANGED <<pc, mem>>
    /\ Rests({"tools", "choice"}, active)
    /\ Rests({"records", "reset"}, plan)
    /\ Rests({"records", "publishing"}, runs)
    /\ Rests({"plugins"}, OfPlugins)
    /\ Rests({"records"}, OfRecords)
    /\ Rests({"tools"}, OfTools)
    /\ Rests({"review"}, OfReview)
    /\ Rests({"choice"}, OfChoice)
    /\ Rests({"publishing"}, OfPublishing)
    /\ Rests({"reset"}, OfReset)
    /\ Rests({"bindings"}, OfBindings)

Spec == Init /\ [][Next]_vars

-----------------------------------------------------------------------------
(* What a call of the plugin adapter has done to Codex is what it reports. *)
EffectsReported == [][part = "plugins" => Plugins!Told]_vars

(* Plugins, marketplaces and directories of others stay as they are.       *)
OthersSpared == [][part = "plugins" => Plugins!LeavesOthers]_vars

(* Only a migration without the lock can lose a revision of an Intent.     *)
LostOnlyToMigration == [][part = "records" => Records!Supersedes]_vars

(* No recovery removes the temporary file of a write under a lock.         *)
LockedWritesStand == part = "records" => Records!LockedWritesStand

(* Every Plan there ever was is kept, wherever a revision is cut short.    *)
PlansKept == part = "records" => Records!PlansKept

(* A ctx7 the user has installed is not replaced or removed.               *)
UserToolsStay == [][part = "tools" => Tools!Spares]_vars

(* A ctx7 HolyCodex has installed is told by a record.                     *)
ToolsTold == part = "tools" => Tools!ToolsTold

(* A failed or cancelled install leaves config.toml as others left it.     *)
EndsAsFound == part = "review" => Review!EndsAsFound

(* Only values that were shown with that decision are replaced.            *)
OnlyReviewedReplaced == [][part = "review" => Review!Reviewed]_vars

(* An install does what was asked, then what the files before it said.     *)
ChoicesFollowed == part = "choice" => Choice!ChoicesFollowed

(* Between commands install.toml says what the active record says.         *)
OptionsMatchRecord == part = "choice" => Choice!OptionsMatchRecord

(* A release on GitHub is the artifact npm has under its version.          *)
OneArtifactPerVersion == part = "publishing" => Publishing!OneArtifactPerVersion

(* A banked reset is spent only while the quota is below the thresholds.   *)
SpentOnlyWhenLow == [][part = "reset" => Reset!Spends]_vars

(* An undisturbed run ends with the whole tree of the installed CLI.       *)
WholeTreeReturned == part = "bindings" => Bindings!WholeTreeReturned
=============================================================================
