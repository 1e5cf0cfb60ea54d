------------------------------- MODULE MCParts --------------------------------
(***************************************************************************)
(* Bounds and instances of each part, for TLC.                             *)
(***************************************************************************)
EXTENDS Parts, TLC

CONSTANTS
    sites, holy, bundled, curated, holyid,      \* plugins and their identities
    p1, p2, root,                               \* processes, and a Root
    bun, pnpm, foreign,                         \* what installs ctx7
    i1, m1, k1,                                 \* entries of config.toml
    r1, r2, d1, d2                              \* workflow runs, digests

(* One provider plugin with two identities, one with a single one; every   *)
(* list Codex may give of either, every set of marketplaces, every state   *)
(* of the reserved directory.                                              *)
MCProviders == {sites, holy}
MCIds == {bundled, curated, holyid}
MCCanonical == (sites :> bundled) @@ (holy :> holyid)
MCCandidates == (sites :> <<bundled, curated>>) @@ (holy :> <<holyid>>)
Untouched == [i \in MCIds |-> "available"]
States == {"unknown", "available", "enabled", "disabled"}
Lists ==
    {[Untouched EXCEPT ![bundled] = a, ![curated] = b] : a, b \in States}
      \cup {[Untouched EXCEPT ![holyid] = a] : a \in States}
Shops == SUBSET [name : {"holycodex", "other"}, ours : BOOLEAN]
Snapshots == {"none", "empty", "broken", "full", "ours"}
MCStarts ==
    {[live |-> list, shop |-> {}, snap |-> "none"] : list \in Lists}
      \cup {[live |-> Untouched, shop |-> some, snap |-> "none"] : some \in Shops}
      \cup {[live |-> Untouched, shop |-> {}, snap |-> s] : s \in Snapshots}
MCBudget == [calls |-> 1, troubles |-> 2, moves |-> 2]

(* Two processes, two Intents, and room for one archived Plan.             *)
MCProcs == {p1, p2}
MCCommands == {"create", "select", "transition", "revise", "recover", "list", "current"}

(* Two managers and a copy of ctx7 on PATH that neither has installed.     *)
MCManagers == {bun, pnpm}

(* One entry of each kind.                                                 *)
MCInvalid == {i1}
MCMarkets == {m1}
MCOffered == {sites}
MCKeys == {k1}
MCReviewLimits == [edits |-> 1, faults |-> 2, restarts |-> 1]

(* One capability with flags, one without, one plugin to add; flags that   *)
(* say nothing, and flags that contradict a default.                       *)
MCProfiles == {"thorough", "usual"}
MCCarried == {"sites"}
MCOptIns == {"audit"}
MCPluginOf == "sites" :> "sites-plugin"
MCBasic == {"holy"}
MCExtras == {"x1"}
MCFlags ==
    {[profile |-> Absent, ask |-> <<>>, plugins |-> Absent],
     [profile |-> "thorough", ask |-> "sites" :> "no-x", plugins |-> {"x1"}],
     [profile |-> Absent, ask |-> "sites" :> "x", plugins |-> Absent],
     [profile |-> Absent, ask |-> "sites" :> "no-x=false", plugins |-> Absent]}
MCChoiceLimits == [commands |-> 2, troubles |-> 1, edits |-> 1]

(* Two runs, two commits of one version, two builds that differ.           *)
MCRuns == {r1, r2}
MCDigests == {d1, d2}
MCCanonicalOf == "c1" :> "v1" @@ "c2" :> "v1"
MCTriggers ==
    {[ref |-> "main", channel |-> "dev", fork |-> FALSE],
     [ref |-> "v1", channel |-> "stable", fork |-> FALSE],
     [ref |-> "pr", channel |-> "dev", fork |-> TRUE]}
MCReleaseLimits == [starts |-> 3, faults |-> 1, moves |-> 1]

(* One Root; windows of five hours, of a week, and of a month.             *)
MCAgents == {root}
MCPlans == {{300, 10080}, {10080}, {300}, {10080, 43200}}
MCResetLimits == [attempts |-> 2, faults |-> 2, uses |-> 3, renewals |-> 1]

(* Two processes, one file besides protocol.ts, a version and back again.  *)
MCBindingsLimits == [runs |-> 3, faults |-> 1, upgrades |-> 2]

(* p1, p2 and the digests are alike in every part that has them.           *)
Symmetry == Permutations({p1, p2}) \cup Permutations({d1, d2})
=============================================================================
