------------------------------- MODULE Release --------------------------------
(***************************************************************************)
(* The release of a package: scripts/package-release.ts and                *)
(* release-version.ts, in the order .github/workflows/publish.yml and      *)
(* validation.yml run them, against the npm registry and the releases of   *)
(* GitHub.  Runs are started by pushes, tags, pull requests and by hand;   *)
(* jobs fail, are re-run alone or all together, and die half-way.          *)
(*                                                                         *)
(* A build is its digest, and two builds of one commit may differ.         *)
(***************************************************************************)
EXTENDS Naturals

CONSTANTS
    Runs,           \* workflow runs; a run is its own run number
    Shas, Digests,  \* commits; what packing a package can come to
    Tags,           \* stable versions, and the tags that name them
    CanonicalOf,    \* [Shas -> Tags], the version in the manifest of a commit
    Betas,          \* the stable versions with a numeric suffix
    Triggers,       \* [ref, channel, fork]: what starts a run
    Absent, Corrupt,
    Limits          \* bounds: runs and re-runs, faults, moves of people

CommitAssumption ==
    CanonicalOf \in [Shas -> Tags] /\ Betas \subseteq Tags /\ Corrupt \notin Digests

VARIABLES
    runs,           \* [Runs -> a run, or Absent]
    tag,            \* [Tags -> the commit it names]
    npm, github,    \* what is published
    left            \* what is left of Limits

vars == <<runs, tag, npm, github, left>>

Spend(what) == left[what] > 0 /\ left' = [left EXCEPT ![what] = @ - 1]
Published == <<npm, github>>

(* The phases of a run, and the job each belongs to, which is where a      *)
(* re-run of the failed jobs begins.                                       *)
JobOf == [prepare |-> "prepare", validate |-> "validate", package |-> "package",
          check_npm |-> "check_npm", publish_npm |-> "check_npm",
          check_github |-> "check_github", create |-> "check_github",
          upload |-> "check_github"]
Running(r) == runs[r] # Absent /\ runs[r].phase \in DOMAIN JobOf
At(r, phase) == runs[r] # Absent /\ runs[r].phase = phase

Goes(r, phase) == runs' = [runs EXCEPT ![r].phase = phase]
Fails(r) == runs' = [runs EXCEPT ![r].phase = "failed", ![r].resume = JobOf[runs[r].phase]]

-----------------------------------------------------------------------------
(* developmentVersion, stableVersionFromTag, assertReleaseVersion.         *)
VersionOf(r) ==
    IF runs[r].channel = "dev"
    THEN [base |-> CanonicalOf[runs[r].sha], run |-> r, attempt |-> runs[r].attempt]
    ELSE [base |-> runs[r].ref, run |-> Absent, attempt |-> 0]
Lawful(version, channel, sha) ==
    /\ version.base = CanonicalOf[sha]
    /\ channel = "stable" <=> version.run = Absent
Prerelease(version, channel) == channel = "dev" \/ version.base \in Betas

(* The identity that metadata, the stamp in the package and the marker in  *)
(* the release notes carry.                                                *)
Identity(run) ==
    [version |-> run.version, channel |-> run.channel, sha |-> run.sha, digest |-> run.digest]

(* verifyReleaseArtifact, with the bytes that were downloaded.             *)
Verified(run, artifact, bytes) ==
    /\ Lawful(run.version, run.channel, run.sha)
    /\ artifact = Identity(run)
    /\ bytes = artifact.digest

-----------------------------------------------------------------------------
(* A run starts, or one or all of its jobs are started again; runs of one  *)
(* ref wait for each other.                                                *)
Trigger(r) ==
    \E t \in Triggers, s \in Shas :
        /\ runs[r] = Absent /\ Spend("starts") /\ UNCHANGED <<tag, Published>>
        /\ t.ref \in Tags => s = tag[t.ref]
        /\ runs' = [runs EXCEPT ![r] =
                [ref |-> t.ref, channel |-> t.channel, fork |-> t.fork, sha |-> s, attempt |-> 1,
                 phase |-> "queued", resume |-> "prepare", version |-> Absent, build |-> 0,
                 artifact |-> Absent, digest |-> Absent, bytes |-> Absent]]

ReRun(r) ==
    /\ runs[r] # Absent /\ runs[r].phase \in {"failed", "done"} /\ Spend("starts")
    /\ UNCHANGED <<tag, Published>>
    /\ \E resume \in {"prepare", runs[r].resume} :
            /\ runs[r].phase = "done" => resume = "prepare"
            /\ runs' = [runs EXCEPT ![r].phase = "queued", ![r].attempt = @ + 1,
                                    ![r].resume = resume]

Begin(r) ==
    /\ At(r, "queued") /\ UNCHANGED <<tag, Published, left>>
    /\ \A o \in Runs : Running(o) => runs[o].ref # runs[r].ref
    /\ Goes(r, runs[r].resume)

(* The job "prepare": the channel must fit the ref, and the tag of a       *)
(* stable release must still name the commit and its version.              *)
MayRelease(run) ==
    IF run.channel = "dev" THEN run.ref \notin Tags
    ELSE run.ref \in Tags /\ tag[run.ref] = run.sha /\ CanonicalOf[run.sha] = run.ref

Prepare(r) ==
    /\ At(r, "prepare") /\ UNCHANGED <<tag, Published, left>>
    /\ \/ MayRelease(runs[r])
          /\ runs' = [runs EXCEPT ![r].phase = "validate", ![r].version = VersionOf(r)]
       \/ ~MayRelease(runs[r]) /\ Fails(r)

(* The build is uploaded under the number of the attempt that made it.     *)
Validate(r) ==
    /\ At(r, "validate") /\ UNCHANGED <<tag, Published, left>>
    /\ runs' = [runs EXCEPT ![r].phase = "package", ![r].build = runs[r].attempt]

(* packPublicPackage: nothing makes two packings of a commit the same      *)
(* bytes.  createReleaseArtifact: pack, digest, metadata, upload.          *)
Packed(run) == {d \in Digests : Lawful(run.version, run.channel, run.sha)}

Package(r) ==
    /\ At(r, "package") /\ UNCHANGED <<tag, Published, left>>
    /\ \/ \E d \in Packed(runs[r]) :
            /\ runs[r].build = runs[r].attempt
            /\ runs' = [runs EXCEPT ![r].digest = d,
                    ![r].artifact = Identity([runs[r] EXCEPT !.digest = d]),
                    ![r].phase = IF runs[r].fork THEN "done" ELSE "check_npm"]
       \/ (runs[r].build # runs[r].attempt \/ Packed(runs[r]) = {}) /\ Fails(r)

-----------------------------------------------------------------------------
(* checkNpmPublication: absent, matching, or the job fails.                *)
Downloads(r) == {runs[r].digest} \cup (IF left.faults > 0 THEN {Corrupt} ELSE {})
PaysFor(bytes) == IF bytes = Corrupt THEN Spend("faults") ELSE UNCHANGED left
OnNpm(version) == {p \in npm : p.version = version}

MatchesStamp(found, metadata) ==  \* mutant of MatchesNpm: the tarball is not compared
    found.channel = metadata.channel /\ found.sha = metadata.sha
MatchesNpm(found, metadata) ==
    /\ found.channel = metadata.channel /\ found.sha = metadata.sha
    /\ found.digest = metadata.digest

CheckNpm(r) ==
    /\ At(r, "check_npm") /\ UNCHANGED <<tag, Published>>
    /\ \E bytes \in Downloads(r) :
        /\ PaysFor(bytes)
        /\ LET found == OnNpm(runs[r].version)
               good == Verified(runs[r], runs[r].artifact, bytes)
           IN \/ ~good /\ Fails(r)
              \/ good /\ found = {}
                    /\ runs' = [runs EXCEPT ![r].phase = "publish_npm", ![r].bytes = bytes]
              \/ \E p \in found :
                    /\ good
                    /\ IF MatchesNpm(p, runs[r].artifact) THEN Goes(r, "check_github") ELSE Fails(r)

(* npm publish: a version is published once; the answer may be lost.       *)
PublishNpm(r) ==
    LET package == [Identity(runs[r]) EXCEPT !.digest = runs[r].bytes] IN
    /\ At(r, "publish_npm") /\ UNCHANGED <<tag, github>>
    /\ \/ OnNpm(runs[r].version) # {} /\ Fails(r) /\ UNCHANGED <<npm, left>>
       \/ /\ OnNpm(runs[r].version) = {} /\ npm' = npm \cup {package}
          /\ (Goes(r, "check_github") /\ UNCHANGED left) \/ (Spend("faults") /\ Fails(r))

(* checkGitHubPublication: likewise, and a draft is not accepted.          *)
OnGitHub(version) == {g \in github : g.version = version}
MatchesGitHub(g, metadata) ==
    /\ ~g.draft /\ g.prerelease = Prerelease(metadata.version, metadata.channel)
    /\ g.channel = metadata.channel /\ g.sha = metadata.sha /\ g.digest = metadata.digest
    /\ g.asset = metadata.digest

CheckGitHub(r) ==
    /\ At(r, "check_github") /\ UNCHANGED <<tag, Published>>
    /\ \E bytes \in Downloads(r) :
        /\ PaysFor(bytes)
        /\ LET found == OnGitHub(runs[r].version)
               good == Verified(runs[r], runs[r].artifact, bytes)
           IN \/ ~good /\ Fails(r)
              \/ good /\ found = {}
                    /\ runs' = [runs EXCEPT ![r].phase = "create", ![r].bytes = bytes]
              \/ \E g \in found :
                    /\ good
                    /\ IF MatchesGitHub(g, runs[r].artifact) THEN Goes(r, "done") ELSE Fails(r)

(* gh release create: a draft with the notes, the asset, the publication.  *)
Notes(run) ==
    [version |-> run.version, channel |-> run.channel, sha |-> run.sha,
     digest |-> run.artifact.digest, prerelease |-> Prerelease(run.version, run.channel),
     draft |-> TRUE, asset |-> Absent]

CreateRelease(r) ==
    /\ At(r, "create") /\ UNCHANGED <<tag, npm, left>>
    /\ \/ OnGitHub(runs[r].version) # {} /\ Fails(r) /\ UNCHANGED github
       \/ /\ OnGitHub(runs[r].version) = {} /\ github' = github \cup {Notes(runs[r])}
          /\ Goes(r, "upload")

PublishRelease(r) ==
    /\ At(r, "upload") /\ UNCHANGED <<tag, npm, left>>
    /\ \/ OnGitHub(runs[r].version) = {} /\ Fails(r) /\ UNCHANGED github
       \/ \E g \in OnGitHub(runs[r].version) :
            /\ github' = (github \ {g}) \cup {[g EXCEPT !.draft = FALSE, !.asset = runs[r].bytes]}
            /\ Goes(r, "done")

-----------------------------------------------------------------------------
(* Any job may fail or be cancelled between two steps; a maintainer moves  *)
(* a tag, or deletes a draft that is in the way.                           *)
Cancel(r) == Running(r) /\ Spend("faults") /\ Fails(r) /\ UNCHANGED <<tag, Published>>
MoveTag(t, s) ==
    tag[t] # s /\ Spend("moves") /\ tag' = [tag EXCEPT ![t] = s] /\ UNCHANGED <<runs, Published>>
DeleteDraft(g) ==
    g.draft /\ Spend("moves") /\ github' = github \ {g} /\ UNCHANGED <<runs, tag, npm>>

Init ==
    /\ runs = [r \in Runs |-> Absent]
    /\ tag \in [Tags -> Shas]
    /\ npm = {} /\ github = {} /\ left = Limits

Job(r) ==
    \/ Prepare(r) \/ Validate(r) \/ Package(r) \/ CheckNpm(r) \/ PublishNpm(r)
    \/ CheckGitHub(r) \/ CreateRelease(r) \/ PublishRelease(r)
Next ==
    \/ \E r \in Runs : Trigger(r) \/ ReRun(r) \/ Begin(r) \/ Job(r) \/ Cancel(r)
    \/ \E t \in Tags, s \in Shas : MoveTag(t, s)
    \/ \E g \in github : DeleteDraft(g)

Spec == Init /\ [][Next]_vars

-----------------------------------------------------------------------------
(* RELEASING.md: "Existing registry or release records are accepted only   *)
(* when their version, channel, source SHA, and artifact identity match    *)
(* exactly."  Whatever is rebuilt, re-run or tagged anew, a release on     *)
(* GitHub is the very artifact npm has under its version.                  *)
OneArtifactPerVersion ==
    \A g \in github : \E p \in npm :
        /\ p.version = g.version /\ p.channel = g.channel /\ p.sha = g.sha
        /\ p.digest = g.digest /\ g.asset \in {Absent, g.digest}
=============================================================================
