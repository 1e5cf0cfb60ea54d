--------------------------- MODULE OfficialPlugins ---------------------------
(***************************************************************************)
(* How the installer has Codex add and remove plugins: the adapter over     *)
(* Codex's plugin commands and the bootstrap of the official marketplace    *)
(* (packages/codex/src/official-plugins.ts), with the installer's checks    *)
(* before and after each call (packages/cli/src/installer.ts,               *)
(* installAndVerifyEffect and the two below it).                            *)
(*                                                                         *)
(* A step is one command of Codex or git, or one look at the file system.   *)
(* A command may fail or time out having taken effect or not; between two   *)
(* steps the user, or Codex itself, may do what the installer is about to.  *)
(***************************************************************************)
EXTENDS Naturals, Sequences

CONSTANTS
    Providers,   \* the plugins by the name HolyCodex gives them
    Ids,         \* the identities Codex may list them under
    Canonical,   \* [Providers -> Ids]
    Candidates,  \* [Providers -> Seq(Ids)]: in the order they are tried
    NoId,
    Starts,      \* what Codex may have at first: [live, shop, snap]
    Budget       \* bounds: calls, troubles (commands that fail), moves of others

IdsOf(p) == {Candidates[p][k] : k \in DOMAIN Candidates[p]}

PluginAssumption ==
    /\ NoId \notin Ids
    /\ \A p \in Providers : IdsOf(p) \subseteq Ids /\ Canonical[p] \in IdsOf(p)
    /\ \A p, q \in Providers : p # q => IdsOf(p) \cap IdsOf(q) = {}
    /\ Candidates \in [Providers -> Seq(Ids)]
    /\ \A start \in Starts : start.live \in [Ids -> {"unknown", "available", "enabled", "disabled"}]

VARIABLES
    live,      \* Ids -> what Codex lists
    shop,      \* Codex's marketplaces: a set of [name, ours: is the source HolyCodex's]
    cache,     \* of HolyCodex's marketplace: "whole", or "incomplete": no list is given
    snap,      \* the reserved directory of the official marketplace
    runtime,   \* is the App Server that should fill it running?
    remote,    \* HEAD of the official repository
    call,      \* the running call
    put, took, \* history: identities the call has added and removed, still so
    left       \* what is left of Budget

vars == <<live, shop, cache, snap, runtime, remote, call, put, took, left>>
codex == <<live, shop, cache>>
reserved == <<snap, runtime, remote>>

Idle == [op |-> "none", pc |-> "end", report |-> "none", ok |-> TRUE]
Holy == "holycodex"
Names == {Holy, "other"}

Listed == {"unknown", "available", "enabled", "disabled"}
Installed(i) == live[i] \in {"enabled", "disabled"}
Some(p) == \E i \in IdsOf(p) : Installed(i)

Trouble == left.troubles > 0 /\ left' = [left EXCEPT !.troubles = @ - 1]
Fine == UNCHANGED left
Go(pc) == call' = [call EXCEPT !.pc = pc]
End(ok, report) == call' = [Idle EXCEPT !.ok = ok, !.report = report]
Quiet == UNCHANGED <<put, took>>

(***************************************************************************)
(* The entry of a provider among what Codex lists: an installed one first,  *)
(* then the canonical one.                                                  *)
(***************************************************************************)
Preferred(p, S) == IF Canonical[p] \in S THEN Canonical[p] ELSE CHOOSE i \in S : TRUE
Entry(p) ==
    LET known == {i \in IdsOf(p) : live[i] # "unknown"}
        there == {i \in known : Installed(i)}
    IN IF there # {} THEN Preferred(p, there)
       ELSE IF known # {} THEN Preferred(p, known) ELSE NoId
Look(p) == [id |-> Entry(p), state |-> IF Entry(p) = NoId THEN "unknown" ELSE live[Entry(p)]]
Has(seen) == seen.state \in {"enabled", "disabled"}
Same(seen, now) == seen = now

-----------------------------------------------------------------------------
(* installAndVerifyEffect, one plugin, and the adapter's add.              *)
NewCall ==
    /\ call.pc = "end" /\ put' = {} /\ took' = {}
    /\ left.calls > 0 /\ left' = [left EXCEPT !.calls = @ - 1]

Begin(op, p, prior) ==
    /\ NewCall
    /\ call' = [op |-> op, p |-> p, pc |-> "before", prior |-> prior, k |-> 1, tried |-> FALSE,
                seen |-> [id |-> NoId, state |-> "unknown"], target |-> NoId]
    /\ UNCHANGED <<codex, reserved>>

(* "refresh" adds a plugin that is there, "restore" one a rollback misses.  *)
Adding == call.op \in {"add", "refresh", "restore"}
At(pc) == call.pc = pc
Attempt == call' = [call EXCEPT !.pc = "adding", !.tried = TRUE, !.seen = Look(call.p)]
Expected == IF call.prior = "installed" THEN "enabled" ELSE "disabled"

ListBeforeAdd ==
    /\ Adding /\ At("before")
    /\ LET now == Look(call.p) IN
       \/ Trouble /\ End(FALSE, "none")
       \/ call.op = "restore" /\ call.prior = "missing" /\ Fine /\ End(FALSE, "none")
       \/ /\ call.op = "restore" /\ call.prior # "missing" /\ Fine
          /\ IF now.state = Expected THEN End(TRUE, "none") ELSE Attempt
       \/ /\ call.op # "restore" /\ Fine
          /\ IF now.state = "disabled" THEN End(FALSE, "none")
             ELSE IF now.state = "enabled" /\ call.op = "add"
             THEN call' = [call EXCEPT !.pc = "after", !.seen = now]
             ELSE Attempt
    /\ Quiet /\ UNCHANGED <<codex, reserved>>

Candidate == Candidates[call.p][call.k]
InstallCandidate ==
    /\ live' = [live EXCEPT ![Candidate] = IF @ = "disabled" THEN @ ELSE "enabled"]
    /\ put' = IF Installed(Candidate) THEN put ELSE put \cup {Candidate}
Failed == Go("failed")

CommandAdd ==
    /\ At("adding")
    /\ \/ /\ live[Candidate] # "unknown" /\ InstallCandidate
          /\ \/ Fine /\ Go("check")
             \/ Trouble /\ Failed
       \/ Trouble /\ Failed /\ UNCHANGED <<live, put>>
       \/ /\ live[Candidate] = "unknown" /\ Fine /\ UNCHANGED <<live, put>>
          /\ IF call.k < Len(Candidates[call.p])
             THEN call' = [call EXCEPT !.k = @ + 1] ELSE Failed
    /\ UNCHANGED <<shop, cache, reserved, took>>

CheckAdded ==
    /\ At("check")
    /\ \/ Trouble /\ Failed
       \/ Fine /\ IF Look(call.p).state = "enabled" THEN Go("after") ELSE Failed
    /\ Quiet /\ UNCHANGED <<codex, reserved>>

(* After a failed add the list says whether anything has changed.          *)
ListAfterFailure ==
    /\ Adding /\ At("failed")
    /\ LET unsure == IF call.op = "restore" THEN "none" ELSE "uncertain" IN
       \/ Trouble /\ End(FALSE, unsure)
       \/ /\ Fine
          /\ End(FALSE, IF call.op = "refresh" \/ ~Same(call.seen, Look(call.p))
                        THEN unsure ELSE "none")
    /\ Quiet /\ UNCHANGED <<codex, reserved>>

ListAfterAdd ==
    /\ Adding /\ At("after")
    /\ LET now == Look(call.p)
           done == IF ~call.tried \/ call.op = "restore" THEN "none"
                   ELSE IF call.op = "refresh" THEN "uncertain" ELSE "new"
           unsure == IF done = "none" THEN "none" ELSE "uncertain"
       IN \/ Trouble /\ End(FALSE, unsure)
          \/ /\ ~Has(now) /\ Fine
             /\ End(FALSE, IF call.op = "refresh" \/ ~Same(call.seen, now) THEN unsure ELSE "none")
          \/ /\ Has(now) /\ Fine
             /\ End(now.state = IF call.op = "restore" THEN Expected ELSE "enabled", done)
    /\ Quiet /\ UNCHANGED <<codex, reserved>>

-----------------------------------------------------------------------------
(* removeAndVerifyEffect and the adapter's remove.                         *)
ListBeforeRemove ==
    /\ call.op = "remove" /\ At("before")
    /\ \/ Trouble /\ End(FALSE, "uncertain")
       \/ ~Has(Look(call.p)) /\ Fine /\ End(TRUE, "absent")
       \/ Has(Look(call.p)) /\ Fine /\ Go("resolve")
    /\ Quiet /\ UNCHANGED <<codex, reserved>>

(* The adapter lists again to learn under which identity it is installed.  *)
Resolve ==
    /\ At("resolve")
    /\ \/ Trouble /\ Failed
       \/ /\ Fine
          /\ call' = [call EXCEPT !.pc = "removing",
                                  !.target = IF Has(Look(call.p)) THEN Entry(call.p)
                                             ELSE Canonical[call.p]]
    /\ Quiet /\ UNCHANGED <<codex, reserved>>

(* That it is not installed is no failure.                                 *)
CommandRemove ==
    /\ At("removing")
    /\ \/ /\ live' = [live EXCEPT ![call.target] = IF Installed(call.target) THEN "available" ELSE @]
          /\ took' = IF Installed(call.target) THEN took \cup {call.target} ELSE took
          /\ \/ Fine /\ Go("check_removed")
             \/ Trouble /\ Failed
       \/ Trouble /\ Failed /\ UNCHANGED <<live, took>>
    /\ UNCHANGED <<shop, cache, reserved, put>>

CheckRemoved ==
    /\ At("check_removed")
    /\ \/ Trouble /\ Failed
       \/ Fine /\ IF Installed(call.target) THEN Failed ELSE Go("after")
    /\ Quiet /\ UNCHANGED <<codex, reserved>>

TargetRemains == call.target \in Ids /\ Installed(call.target)  \* mutant of Remains: only the removed identity is looked for
Remains == Has(Look(call.p))
ListAfterRemove ==
    /\ call.op = "remove" /\ call.pc \in {"after", "failed"}
    /\ \/ Trouble /\ End(FALSE, "uncertain")
       \/ Remains /\ Fine /\ End(FALSE, "uncertain")
       \/ ~Remains /\ Fine /\ End(At("after"), "removed")
    /\ Quiet /\ UNCHANGED <<codex, reserved>>

-----------------------------------------------------------------------------
(* addMarketplace: the canonical registration of HolyCodex's marketplace.  *)
Registration == [name |-> Holy, ours |-> TRUE]
Named == {m \in shop : m.name = Holy}
ConflictNames ==
    {m.name : m \in {m \in shop : IF m.name = Holy THEN Named # {Registration} ELSE m.ours}}
Conflict == ConflictNames # {}

BeginMarketplace ==
    /\ NewCall
    /\ call' = [op |-> "marketplace", pc |-> "list", listed |-> {}, names |-> {}, rebuilt |-> FALSE]
    /\ UNCHANGED <<codex, reserved>>

ListMarketplaces ==
    /\ At("list")
    /\ \/ Trouble /\ End(FALSE, "none")
       \/ /\ Fine /\ cache = "incomplete"
          /\ IF call.rebuilt THEN End(FALSE, "none") ELSE Go("rebuild")
       \/ /\ Fine /\ cache = "whole"
          /\ call' = [call EXCEPT !.listed = shop, !.names = ConflictNames,
                                  !.pc = IF Conflict THEN "clear" ELSE "register"]
    /\ Quiet /\ UNCHANGED <<codex, reserved>>

(* "marketplace add", also over an incomplete cache.                       *)
Register ==
    /\ shop' = {m \in shop : m.name # Holy} \cup {Registration}
    /\ cache' = "whole"

RebuildMarketplace ==
    /\ At("rebuild")
    /\ \/ Register /\ Fine /\ call' = [call EXCEPT !.pc = "list", !.rebuilt = TRUE]
       \/ Trouble /\ End(FALSE, "none") /\ (Register \/ UNCHANGED <<shop, cache>>)
    /\ Quiet /\ UNCHANGED <<live, reserved>>

ClearConflict ==
    /\ At("clear") /\ call.names # {}
    /\ \E name \in call.names :
       LET gone == {m \in shop : m.name # name} IN
       \/ shop' = gone /\ Fine /\ call' = [call EXCEPT !.names = @ \ {name}]
       \/ Trouble /\ End(FALSE, "none") /\ shop' \in {shop, gone}
    /\ Quiet /\ UNCHANGED <<live, cache, reserved>>

ListCleared ==
    /\ At("clear") /\ call.names = {}
    /\ \/ Trouble /\ End(FALSE, "none")
       \/ Fine /\ IF Conflict \/ cache = "incomplete" THEN End(FALSE, "none") ELSE Go("register")
    /\ Quiet /\ UNCHANGED <<codex, reserved>>

(* Added when it is missing, refreshed when it was there at the start.      *)
RegisterMarketplace ==
    /\ At("register")
    /\ \/ /\ Named = {} /\ \/ Register /\ Fine /\ Go("readback")
                           \/ Trouble /\ End(FALSE, "none") /\ (Register \/ UNCHANGED <<shop, cache>>)
       \/ /\ Named # {} /\ UNCHANGED <<shop, cache>>
          /\ \/ Fine /\ Go("readback")
             \/ ~call.rebuilt /\ Trouble /\ End(FALSE, "none")
    /\ Quiet /\ UNCHANGED <<live, reserved>>

ReadMarketplaceBack ==
    /\ At("readback")
    /\ \/ Trouble /\ End(FALSE, "none")
       \/ Fine /\ End(cache = "whole" /\ ~Conflict /\ Named = {Registration}, "none")
    /\ Quiet /\ UNCHANGED <<codex, reserved>>

-----------------------------------------------------------------------------
(* bootstrapOfficialMarketplaceEffect: the reserved directory is used as    *)
(* it is, filled by the App Server, or else published from a clone.         *)
(* An "empty" directory has no manifest, a "broken" one a wrong manifest.   *)
(* "ours" is a published clone.                                             *)
Snapshots == {"none", "empty", "broken", "full", "ours"}
Ready == snap \in {"full", "ours"}

BeginBootstrap ==
    /\ NewCall
    /\ call' = [op |-> "bootstrap", pc |-> "look", head |-> 0, stage |-> 0, done |-> FALSE]
    /\ UNCHANGED <<codex, reserved>>

LookAtSnapshot ==
    /\ At("look") /\ Fine
    /\ IF Ready THEN End(TRUE, "none")
       ELSE IF snap = "broken" THEN End(FALSE, "none") ELSE Go("start")
    /\ Quiet /\ UNCHANGED <<codex, reserved>>

StartRuntime ==
    /\ At("start")
    /\ \/ runtime' = TRUE /\ Fine /\ Go("poll")
       \/ Trouble /\ Go("head") /\ UNCHANGED runtime
    /\ Quiet /\ UNCHANGED <<codex, snap, remote>>

(* The wait is bounded; a snapshot that is not valid ends it as well.      *)
PollSnapshot ==
    /\ At("poll") /\ Fine
    /\ call' = [call EXCEPT !.pc = "close", !.done = Ready]
    /\ Quiet /\ UNCHANGED <<codex, reserved>>

CloseRuntime ==
    /\ At("close") /\ runtime' = FALSE /\ Fine
    /\ IF call.done THEN End(TRUE, "none") ELSE Go("head")
    /\ Quiet /\ UNCHANGED <<codex, snap, remote>>

ResolveHead ==
    /\ At("head")
    /\ \/ Fine /\ call' = [call EXCEPT !.pc = "reserve", !.head = remote]
       \/ Trouble /\ End(FALSE, "none")
    /\ Quiet /\ UNCHANGED <<codex, reserved>>

InspectReserved ==
    /\ At("reserve") /\ Fine
    /\ IF snap = "none" THEN Go("clone") ELSE End(FALSE, "none")
    /\ Quiet /\ UNCHANGED <<codex, reserved>>

(* From here on a failure ends by removing the staging directory.          *)
Clone ==
    /\ At("clone")
    /\ \/ Fine /\ call' = [call EXCEPT !.pc = "verify", !.stage = remote]
       \/ Trouble /\ End(FALSE, "none")
    /\ Quiet /\ UNCHANGED <<codex, reserved>>

(* The tree has the selected plugins and no links, its HEAD is the one of   *)
(* before, and nothing has taken the reserved path.                        *)
Vacant == snap = "none"
VerifyStage ==
    /\ At("verify")
    /\ \/ Fine /\ IF call.stage = call.head /\ Vacant THEN Go("publish") ELSE End(FALSE, "none")
       \/ Trouble /\ End(FALSE, "none")
    /\ Quiet /\ UNCHANGED <<codex, reserved>>

(* rename fails on a directory with something in it.                       *)
AnySnapshot == snap \in Snapshots  \* mutant of Replaceable: what is there is removed first
Replaceable == snap \in {"none", "empty"}
Publish ==
    /\ At("publish")
    /\ \/ Replaceable /\ snap' = "ours" /\ Fine /\ Go("published")
       \/ ~Replaceable /\ End(FALSE, "none") /\ Fine /\ UNCHANGED snap
       \/ Trouble /\ End(FALSE, "none") /\ UNCHANGED snap
    /\ Quiet /\ UNCHANGED <<codex, runtime, remote>>

ReadPublished ==
    /\ At("published") /\ Fine /\ End(Ready, "none")
    /\ Quiet /\ UNCHANGED <<codex, reserved>>

-----------------------------------------------------------------------------
(* The user and Codex.                                                     *)
Move == left.moves > 0 /\ left' = [left EXCEPT !.moves = @ - 1]

Toggle(i) ==
    /\ Move
    /\ \E state \in Listed \ {live[i], "unknown"} :
        /\ live' = [live EXCEPT ![i] = state]
        /\ put' = IF state = "available" THEN put \ {i} ELSE put
        /\ took' = IF state = "available" THEN took ELSE took \ {i}
    /\ UNCHANGED <<shop, cache, reserved, call>>

Reregister ==
    /\ Move
    /\ \E name \in Names, ours \in BOOLEAN :
        LET m == [name |-> name, ours |-> ours] IN shop' \in {shop \cup {m}, shop \ {m}}
    /\ UNCHANGED <<live, cache, reserved, call, put, took>>

(* Codex fills the reserved directory, ours or another one.                *)
Populate ==
    /\ (runtime /\ Fine) \/ Move
    /\ \/ snap = "none" /\ snap' = "empty"
       \/ snap = "empty" /\ snap' = "broken"
       \/ snap \in {"empty", "broken"} /\ snap' = "full"
    /\ UNCHANGED <<codex, runtime, remote, call, put, took>>

RemoteMoves ==
    /\ Move /\ remote' = remote + 1
    /\ UNCHANGED <<codex, snap, runtime, call, put, took>>

-----------------------------------------------------------------------------
Init ==
    /\ \E start \in Starts : live = start.live /\ shop = start.shop /\ snap = start.snap
    /\ cache \in {"whole", "incomplete"} /\ (cache = "incomplete" => Named # {})
    /\ runtime = FALSE /\ remote = 1
    /\ call = Idle /\ put = {} /\ took = {} /\ left = Budget

Calls ==
    \/ \E p \in Providers :
        \/ \E op \in {"add", "refresh", "remove"} : Begin(op, p, "none")
        \/ \E prior \in {"installed", "disabled", "missing"} : Begin("restore", p, prior)
    \/ BeginMarketplace \/ BeginBootstrap
Plugins ==
    \/ ListBeforeAdd \/ CommandAdd \/ CheckAdded \/ ListAfterFailure \/ ListAfterAdd
    \/ ListBeforeRemove \/ Resolve \/ CommandRemove \/ CheckRemoved \/ ListAfterRemove
Marketplace ==
    \/ ListMarketplaces \/ RebuildMarketplace \/ ClearConflict \/ ListCleared
    \/ RegisterMarketplace \/ ReadMarketplaceBack
Bootstrap ==
    \/ LookAtSnapshot \/ StartRuntime \/ PollSnapshot \/ CloseRuntime \/ ResolveHead
    \/ InspectReserved \/ Clone \/ VerifyStage \/ Publish \/ ReadPublished
Others == (\E i \in Ids : Toggle(i)) \/ Reregister \/ Populate \/ RemoteMoves

Next == Calls \/ Plugins \/ Marketplace \/ Bootstrap \/ Others
Spec == Init /\ [][Next]_vars

-----------------------------------------------------------------------------
(* What the installer is told of a plugin is what its rollback rests on:    *)
(* whatever the call has added or removed is reported, though a command     *)
(* that took effect has failed; what is called new was not there before;    *)
(* after a removal called done no identity of the plugin is installed, and  *)
(* after a successful addition one is enabled.                             *)
Told ==
    call.pc # "end" /\ call'.pc = "end" =>
        /\ put # {} /\ call.op # "restore" => call'.report \in {"new", "uncertain"}
        /\ took # {} => call'.report \in {"removed", "uncertain"}
        /\ call'.report = "new" => ~Has(call.seen)
        /\ call'.report \in {"removed", "absent"} => ~Some(call.p)
        /\ call'.ok /\ call.op \in {"add", "refresh"} => \E i \in IdsOf(call.p) : live[i] = "enabled"
EffectsReported == [][Told]_vars

(* The installer touches nothing of others: plugins it was not asked for,   *)
(* marketplaces under names that were in nobody's way when it listed them,  *)
(* and a reserved directory that Codex or another installer fills while it  *)
(* looks or clones.                                                        *)
Spared ==
    /\ \A i \in Ids : live'[i] # live[i] => i \in IdsOf(call.p)
    /\ \A m \in shop \ shop' :
        m.name = Holy \/ \E n \in call.listed : n.name = m.name /\ n.ours
    /\ snap' # snap => snap \in {"none", "empty"} /\ snap' = "ours"
LeavesOthers == Others \/ Spared
OthersSpared == [][LeavesOthers]_vars
=============================================================================
