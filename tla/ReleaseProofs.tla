----------------------------- MODULE ReleaseProofs -----------------------------
(***************************************************************************)
(* Proofs about Release, for every set of runs, commits, builds, tags and  *)
(* triggers and every bound.                                               *)
(***************************************************************************)
EXTENDS Release, TLAPS

-----------------------------------------------------------------------------
(* The shape of the records.                                               *)
Refs == {t.ref : t \in Triggers}
Channels == {t.channel : t \in Triggers}
Bytes == Digests \cup {Corrupt, Absent}
Jobs == {"prepare", "validate", "package", "check_npm", "check_github"}
Phases == DOMAIN JobOf \cup {"queued", "failed", "done"}

Versions == [base : {CanonicalOf[s] : s \in Shas} \cup Refs, run : Runs \cup {Absent}, attempt : Nat]
Identities == [version : Versions \cup {Absent}, channel : Channels, sha : Shas, digest : Bytes]

RunRecords ==
    [ref : Refs, channel : Channels, fork : {t.fork : t \in Triggers}, sha : Shas, attempt : Nat,
     phase : Phases, resume : Jobs, version : Versions \cup {Absent}, build : Nat,
     artifact : Identities \cup {Absent}, digest : Bytes, bytes : Bytes]

GitHubRecords ==
    [version : Versions \cup {Absent}, channel : Channels, sha : Shas, digest : Bytes,
     prerelease : BOOLEAN, draft : BOOLEAN, asset : Bytes]

TypeOK ==
    /\ runs \in [Runs -> RunRecords \cup {Absent}]
    /\ tag \in [Tags -> Shas]
    /\ npm \subseteq Identities
    /\ github \subseteq GitHubRecords

-----------------------------------------------------------------------------
(* The invariant: npm has one package of a version, and a run that goes on *)
(* to GitHub, or would when its failed job is started again, has its       *)
(* artifact there.                                                         *)
NpmUnique == \A p, q \in npm : p.version = q.version => p = q

BackedBy(run, packages) ==
    \E p \in packages :
        /\ p.version = run.version /\ p.channel = run.channel /\ p.sha = run.sha
        /\ p.digest = run.artifact.digest

ToGitHub(run) ==
    \/ run.phase \in {"check_github", "create", "upload"}
    \/ run.phase \in {"queued", "failed"} /\ run.resume = "check_github"

SoundRun(run, packages) ==
    /\ ToGitHub(run) => BackedBy(run, packages)
    /\ run.phase \in {"publish_npm", "create", "upload"} =>
         run.bytes = run.artifact.digest /\ run.artifact = Identity(run)

RunsSound == \A r \in Runs : runs[r] # Absent => SoundRun(runs[r], npm)

IInv == TypeOK /\ NpmUnique /\ RunsSound /\ OneArtifactPerVersion

-----------------------------------------------------------------------------
(* Types.                                                                  *)

(* A version is that of a stable tag or of an attempt of a development run. *)
LEMMA VersionType ==
    ASSUME NEW r \in Runs, runs[r] \in RunRecords
    PROVE  VersionOf(r) \in Versions
BY DEF VersionOf, Versions, RunRecords

LEMMA IdentityType ==
    ASSUME NEW run \in RunRecords
    PROVE  Identity(run) \in Identities
BY DEF Identity, Identities, RunRecords

LEMMA JobType == \A phase \in DOMAIN JobOf : JobOf[phase] \in Jobs /\ phase \in Phases
BY DEF JobOf, Jobs, Phases

(* A run may go to any phase, and fail in any. *)
LEMMA PhaseType ==
    ASSUME TypeOK, NEW r \in Runs, runs[r] # Absent, NEW phase \in Phases, NEW resume \in Jobs
    PROVE  [runs[r] EXCEPT !.phase = phase, !.resume = resume] \in RunRecords
BY DEF TypeOK, RunRecords

LEMMA FailsType ==
    ASSUME TypeOK, NEW r \in Runs, Running(r)
    PROVE  [runs[r] EXCEPT !.phase = "failed", !.resume = JobOf[runs[r].phase]] \in RunRecords
<1>1. JobOf[runs[r].phase] \in Jobs /\ "failed" \in Phases /\ runs[r] # Absent
  BY JobType DEF Running, Phases
<1> QED
  BY <1>1, PhaseType

LEMMA GoesType ==
    ASSUME TypeOK, NEW r \in Runs, runs[r] # Absent, NEW phase \in Phases
    PROVE  [runs[r] EXCEPT !.phase = phase] \in RunRecords
BY DEF TypeOK, RunRecords

(* A run that is written has the shape of one. *)
LEMMA Written ==
    ASSUME TypeOK, NEW r \in Runs, NEW x \in RunRecords, runs' = [runs EXCEPT ![r] = x]
    PROVE  runs' \in [Runs -> RunRecords \cup {Absent}]
BY DEF TypeOK


-----------------------------------------------------------------------------
(* The steps of a run: it becomes x, which is sound with what npm then has. *)
Moves(r, x) ==
    runs' = [runs EXCEPT ![r] = x] /\ x \in RunRecords /\ SoundRun(x, npm')

(* npm forgets nothing: what backs a run goes on backing it. *)
LEMMA StaysBacked ==
    ASSUME NEW run, NEW packages, NEW more, packages \subseteq more, BackedBy(run, packages)
    PROVE  BackedBy(run, more)
BY DEF BackedBy

(* A failed job is started again where it began: only a run that was past  *)
(* npm goes on to GitHub.                                                  *)
LEMMA FailsMoves ==
    ASSUME TypeOK, RunsSound, NEW r \in Runs, Running(r), Fails(r), npm \subseteq npm'
    PROVE  Moves(r, [runs[r] EXCEPT !.phase = "failed", !.resume = JobOf[runs[r].phase]])
<1> DEFINE x == [runs[r] EXCEPT !.phase = "failed", !.resume = JobOf[runs[r].phase]]
<1>1. x \in RunRecords /\ runs[r] \in RunRecords
  BY FailsType DEF Running, TypeOK
<1>2. runs' = [runs EXCEPT ![r] = x]
  BY <1>1 DEF Fails, TypeOK
<1>3. /\ x.phase = "failed" /\ x.resume = JobOf[runs[r].phase] /\ x.version = runs[r].version
      /\ x.channel = runs[r].channel /\ x.sha = runs[r].sha /\ x.artifact = runs[r].artifact
  BY <1>1 DEF RunRecords
<1> HIDE DEF x
<1>4. ASSUME ToGitHub(x) PROVE BackedBy(x, npm')
  <2>1. JobOf[runs[r].phase] = "check_github" /\ runs[r].phase \in DOMAIN JobOf
    BY <1>3, <1>4 DEF ToGitHub, Running
  <2>2. runs[r].phase \in {"check_github", "create", "upload"}
    BY <2>1 DEF JobOf
  <2>3. BackedBy(runs[r], npm)
    BY <2>2 DEF RunsSound, SoundRun, ToGitHub, Running
  <2> QED
    BY <1>3, <2>3 DEF BackedBy
<1>5. SoundRun(x, npm')
  BY <1>3, <1>4 DEF SoundRun
<1> QED
  BY <1>1, <1>2, <1>5 DEF Moves, x

(* Before npm is reached nothing is asked of a run.                        *)
LEMMA EarlySound ==
    ASSUME NEW x, NEW packages,
           x.phase \notin {"publish_npm", "check_github", "create", "upload", "queued", "failed"}
    PROVE  SoundRun(x, packages)
BY DEF SoundRun, ToGitHub

(* Runs start, wait, and prepare, build and pack. *)
LEMMA EarlyMoves ==
    ASSUME TypeOK, RunsSound, NEW r \in Runs, UNCHANGED npm,
           Trigger(r) \/ ReRun(r) \/ Begin(r) \/ Prepare(r) \/ Validate(r) \/ Package(r)
    PROVE  \E x : Moves(r, x)
<1> DEFINE run == runs[r]
<1>0. run # Absent => run \in RunRecords
  BY DEF TypeOK
<1>f. Running(r) /\ Fails(r) => \E x : Moves(r, x)
  BY FailsMoves
<1>1. CASE Trigger(r)
  <2>1. PICK t \in Triggers, s \in Shas :
          runs' = [runs EXCEPT ![r] =
                [ref |-> t.ref, channel |-> t.channel, fork |-> t.fork, sha |-> s, attempt |-> 1,
                 phase |-> "queued", resume |-> "prepare", version |-> Absent, build |-> 0,
                 artifact |-> Absent, digest |-> Absent, bytes |-> Absent]]
    BY <1>1 DEF Trigger
  <2> DEFINE x == [ref |-> t.ref, channel |-> t.channel, fork |-> t.fork, sha |-> s, attempt |-> 1,
                   phase |-> "queued", resume |-> "prepare", version |-> Absent, build |-> 0,
                   artifact |-> Absent, digest |-> Absent, bytes |-> Absent]
  <2>2. x \in RunRecords
    BY DEF RunRecords, Refs, Channels, Bytes, Jobs, Phases
  <2>3. SoundRun(x, npm')
    BY DEF SoundRun, ToGitHub
  <2> QED
    BY <2>1, <2>2, <2>3 DEF Moves
<1>2. CASE ReRun(r)
  <2>1. PICK resume \in {"prepare", run.resume} :
          /\ run.phase = "done" => resume = "prepare"
          /\ runs' = [runs EXCEPT ![r].phase = "queued", ![r].attempt = @ + 1, ![r].resume = resume]
    BY <1>2 DEF ReRun
  <2>2. run \in RunRecords /\ run.phase \in {"failed", "done"} /\ run # Absent
    BY <1>0, <1>2 DEF ReRun
  <2> DEFINE x == [run EXCEPT !.phase = "queued", !.attempt = @ + 1, !.resume = resume]
  <2>3. x \in RunRecords /\ runs' = [runs EXCEPT ![r] = x]
    BY <2>1, <2>2 DEF RunRecords, Jobs, Phases, TypeOK
  <2>4. /\ x.phase = "queued" /\ x.resume = resume /\ x.version = run.version
        /\ x.channel = run.channel /\ x.sha = run.sha /\ x.artifact = run.artifact
    BY <2>2 DEF RunRecords
  <2> HIDE DEF x
  <2>5. ASSUME ToGitHub(x) PROVE BackedBy(x, npm')
    <3>1. run.phase = "failed" /\ run.resume = "check_github"
      BY <2>1, <2>2, <2>4, <2>5 DEF ToGitHub
    <3>2. BackedBy(run, npm)
      BY <2>2, <3>1 DEF RunsSound, SoundRun, ToGitHub
    <3> QED
      BY <2>4, <3>2 DEF BackedBy
  <2> QED
    BY <2>3, <2>4, <2>5 DEF Moves, SoundRun
<1>3. CASE Begin(r)
  <2>1. run \in RunRecords /\ run.phase = "queued" /\ run # Absent
    BY <1>0, <1>3 DEF Begin, At
  <2> DEFINE x == [run EXCEPT !.phase = run.resume]
  <2>2. run.resume \in Jobs /\ run.resume \in Phases
    BY <2>1 DEF RunRecords, Jobs, Phases, JobOf
  <2>3. x \in RunRecords /\ runs' = [runs EXCEPT ![r] = x]
    BY <1>3, <2>1, <2>2, GoesType DEF Begin, Goes, TypeOK
  <2>4. /\ x.phase = run.resume /\ x.version = run.version
        /\ x.channel = run.channel /\ x.sha = run.sha /\ x.artifact = run.artifact
    BY <2>1 DEF RunRecords
  <2> HIDE DEF x
  <2>5. ASSUME ToGitHub(x) PROVE BackedBy(x, npm')
    <3>1. run.resume = "check_github"
      BY <2>2, <2>4, <2>5 DEF ToGitHub, Jobs
    <3>2. BackedBy(run, npm)
      BY <2>1, <3>1 DEF RunsSound, SoundRun, ToGitHub
    <3> QED
      BY <2>4, <3>2 DEF BackedBy
  <2>6. x.phase \notin {"publish_npm", "create", "upload"}
    BY <2>2, <2>4 DEF Jobs
  <2> QED
    BY <2>3, <2>5, <2>6 DEF Moves, SoundRun
<1>4. CASE Prepare(r)
  <2>1. run \in RunRecords /\ Running(r)
    BY <1>0, <1>4 DEF Prepare, At, Running, JobOf
  <2>2. CASE runs' = [runs EXCEPT ![r].phase = "validate", ![r].version = VersionOf(r)]
    <3> DEFINE x == [run EXCEPT !.phase = "validate", !.version = VersionOf(r)]
    <3>1. VersionOf(r) \in Versions /\ "validate" \in Phases
      BY <2>1, VersionType DEF Phases, JobOf
    <3>2. x \in RunRecords /\ x.phase = "validate"
      BY <2>1, <3>1 DEF RunRecords
    <3>3. runs' = [runs EXCEPT ![r] = x]
      BY <2>2 DEF TypeOK
    <3> QED
      BY <3>2, <3>3, EarlySound DEF Moves
  <2> QED
    BY <1>4, <1>f, <2>1, <2>2 DEF Prepare
<1>5. CASE Validate(r)
  <2>1. run \in RunRecords
    BY <1>0, <1>5 DEF Validate, At
  <2> DEFINE x == [run EXCEPT !.phase = "package", !.build = run.attempt]
  <2>2. x \in RunRecords /\ x.phase = "package"
    BY <2>1 DEF RunRecords, Phases, JobOf
  <2>3. runs' = [runs EXCEPT ![r] = x]
    BY <1>5 DEF Validate, TypeOK
  <2> QED
    BY <2>2, <2>3, EarlySound DEF Moves
<1>6. CASE Package(r)
  <2>1. run \in RunRecords /\ Running(r)
    BY <1>0, <1>6 DEF Package, At, Running, JobOf
  <2>2. ASSUME NEW d \in Digests,
               runs' = [runs EXCEPT ![r].digest = d,
                    ![r].artifact = Identity([run EXCEPT !.digest = d]),
                    ![r].phase = IF run.fork THEN "done" ELSE "check_npm"]
        PROVE  \E x : Moves(r, x)
    <3> DEFINE built == [run EXCEPT !.digest = d]
               phase == IF run.fork THEN "done" ELSE "check_npm"
               x == [run EXCEPT !.digest = d, !.artifact = Identity(built), !.phase = phase]
    <3>1. built \in RunRecords
      BY <2>1 DEF RunRecords, Bytes
    <3>2. Identity(built) \in Identities
      BY <3>1, IdentityType
    <3>3. phase \in Phases /\ phase \in {"done", "check_npm"} /\ d \in Bytes
      BY DEF Phases, JobOf, Bytes
    <3>4. runs' = [runs EXCEPT ![r] = x]
      BY <2>2 DEF TypeOK
    <3> HIDE DEF built, phase
    <3>5. x \in RunRecords /\ x.phase = phase
      BY <2>1, <3>2, <3>3 DEF RunRecords
    <3> QED
      BY <3>3, <3>4, <3>5, EarlySound DEF Moves
  <2> QED
    BY <1>6, <1>f, <2>1, <2>2 DEF Package, Packed
<1> QED
  BY <1>1, <1>2, <1>3, <1>4, <1>5, <1>6


(* check_npm: bytes that are not the artifact fail the job; a version that *)
(* is there passes it only when it is the artifact.                        *)
LEMMA CheckNpmMoves ==
    ASSUME TypeOK, RunsSound, NEW r \in Runs, CheckNpm(r)
    PROVE  \E x : Moves(r, x)
<1> DEFINE run == runs[r]
<1>1. run \in RunRecords /\ Running(r) /\ UNCHANGED npm
  BY DEF CheckNpm, At, Running, JobOf, TypeOK, Published
<1>2. PICK bytes \in Downloads(r) :
        LET found == OnNpm(run.version)
            good == Verified(run, run.artifact, bytes)
        IN \/ ~good /\ Fails(r)
           \/ good /\ found = {}
                 /\ runs' = [runs EXCEPT ![r].phase = "publish_npm", ![r].bytes = bytes]
           \/ \E p \in found :
                 good /\ IF MatchesNpm(p, run.artifact) THEN Goes(r, "check_github") ELSE Fails(r)
  BY DEF CheckNpm
<1>3. CASE Fails(r)
  BY <1>1, <1>3, FailsMoves
<1>4. CASE /\ Verified(run, run.artifact, bytes)
           /\ runs' = [runs EXCEPT ![r].phase = "publish_npm", ![r].bytes = bytes]
  <2> DEFINE x == [run EXCEPT !.phase = "publish_npm", !.bytes = bytes]
  <2>1. bytes \in Bytes
    BY <1>1 DEF Downloads, Bytes, RunRecords
  <2>2. x \in RunRecords /\ runs' = [runs EXCEPT ![r] = x]
    BY <1>1, <1>4, <2>1 DEF RunRecords, Phases, JobOf, TypeOK
  <2>3. /\ x.phase = "publish_npm" /\ x.bytes = bytes /\ x.artifact = run.artifact
        /\ Identity(x) = Identity(run)
    BY <1>1 DEF RunRecords, Identity
  <2> HIDE DEF x
  <2>4. x.bytes = x.artifact.digest /\ x.artifact = Identity(x) /\ ~ToGitHub(x)
    BY <1>4, <2>3 DEF Verified, ToGitHub
  <2> QED
    BY <2>2, <2>4 DEF Moves, SoundRun
<1>5. ASSUME NEW p \in OnNpm(run.version), Verified(run, run.artifact, bytes),
             MatchesNpm(p, run.artifact), Goes(r, "check_github")
      PROVE  \E x : Moves(r, x)
  <2> DEFINE x == [run EXCEPT !.phase = "check_github"]
  <2>1. x \in RunRecords /\ runs' = [runs EXCEPT ![r] = x]
    BY <1>1, <1>5, GoesType DEF Goes, TypeOK, Phases, JobOf, Running
  <2>2. /\ x.phase = "check_github" /\ x.version = run.version /\ x.channel = run.channel
        /\ x.sha = run.sha /\ x.artifact = run.artifact
    BY <1>1 DEF RunRecords
  <2> HIDE DEF x
  <2>3. p \in npm /\ p.version = run.version
    BY DEF OnNpm
  <2>4. p.channel = run.channel /\ p.sha = run.sha /\ p.digest = run.artifact.digest
    BY <1>5 DEF MatchesNpm, Verified, Identity
  <2>5. BackedBy(x, npm')
    BY <1>1, <2>2, <2>3, <2>4 DEF BackedBy
  <2> QED
    BY <2>1, <2>2, <2>5 DEF Moves, SoundRun
<1> QED
  BY <1>2, <1>3, <1>4, <1>5

(* publish_npm: the package that is published is the verified artifact. *)
LEMMA PublishNpmMoves ==
    ASSUME TypeOK, RunsSound, NpmUnique, NEW r \in Runs, PublishNpm(r)
    PROVE  /\ \E x : Moves(r, x)
           /\ npm \subseteq npm' /\ npm' \subseteq Identities /\ NpmUnique'
<1> DEFINE run == runs[r]
           package == [Identity(run) EXCEPT !.digest = run.bytes]
<1>1. run \in RunRecords /\ Running(r) /\ run # Absent /\ run.phase = "publish_npm"
  BY DEF PublishNpm, At, Running, JobOf, TypeOK
<1>2. run.bytes = run.artifact.digest /\ run.artifact = Identity(run)
  BY <1>1 DEF RunsSound, SoundRun
<1>3. /\ package \in Identities
      /\ package.version = run.version /\ package.channel = run.channel
      /\ package.sha = run.sha /\ package.digest = run.artifact.digest
  BY <1>1, <1>2 DEF Identity, Identities, RunRecords
<1>4. CASE UNCHANGED npm /\ Fails(r)
  BY <1>1, <1>4, FailsMoves DEF TypeOK, NpmUnique
<1>5. CASE OnNpm(run.version) = {} /\ npm' = npm \cup {package} /\ (Goes(r, "check_github") \/ Fails(r))
  <2> HIDE DEF package
  <2>1. npm \subseteq npm' /\ npm' \subseteq Identities
    BY <1>3, <1>5 DEF TypeOK
  <2>2. NpmUnique'
    BY <1>3, <1>5 DEF NpmUnique, OnNpm
  <2>3. CASE Fails(r)
    BY <1>1, <2>1, <2>2, <2>3, FailsMoves
  <2>4. CASE Goes(r, "check_github")
    <3> DEFINE x == [run EXCEPT !.phase = "check_github"]
    <3>1. x \in RunRecords /\ runs' = [runs EXCEPT ![r] = x]
      BY <1>1, <2>4, GoesType DEF Goes, TypeOK, Phases, JobOf
    <3>2. /\ x.phase = "check_github" /\ x.version = run.version /\ x.channel = run.channel
          /\ x.sha = run.sha /\ x.artifact = run.artifact
      BY <1>1 DEF RunRecords
    <3> HIDE DEF x
    <3>3. BackedBy(x, npm')
      BY <1>3, <1>5, <3>2 DEF BackedBy
    <3>4. Moves(r, x)
      BY <3>1, <3>2, <3>3 DEF Moves, SoundRun
    <3> QED
      BY <2>1, <2>2, <3>4
  <2> QED
    BY <1>5, <2>3, <2>4
<1> QED
  BY <1>4, <1>5 DEF PublishNpm

(* The job "check_github": the run stays backed, and what it goes on to    *)
(* upload is what was verified.                                            *)
LEMMA GitHubMoves ==
    ASSUME TypeOK, RunsSound, NEW r \in Runs, UNCHANGED npm,
           CheckGitHub(r) \/ CreateRelease(r) \/ PublishRelease(r)
    PROVE  \E x : Moves(r, x)
<1> DEFINE run == runs[r]
<1>1. /\ run \in RunRecords /\ Running(r) /\ run # Absent
      /\ run.phase \in {"check_github", "create", "upload"}
  BY DEF CheckGitHub, CreateRelease, PublishRelease, At, Running, JobOf, TypeOK
<1>2. BackedBy(run, npm) /\ SoundRun(run, npm)
  BY <1>1 DEF RunsSound, SoundRun, ToGitHub
<1>3. CASE Fails(r)
  BY <1>1, <1>3, FailsMoves
<1>4. CASE Goes(r, "done")
  <2> DEFINE x == [run EXCEPT !.phase = "done"]
  <2>1. x \in RunRecords /\ runs' = [runs EXCEPT ![r] = x] /\ x.phase = "done"
    BY <1>1, <1>4, GoesType DEF Goes, TypeOK, Phases, RunRecords
  <2> QED
    BY <2>1, EarlySound DEF Moves
<1>5. CASE Goes(r, "upload") /\ run.phase = "create"
  <2> DEFINE x == [run EXCEPT !.phase = "upload"]
  <2>1. x \in RunRecords /\ runs' = [runs EXCEPT ![r] = x]
    BY <1>1, <1>5, GoesType DEF Goes, TypeOK, Phases, JobOf
  <2>2. /\ x.phase = "upload" /\ x.version = run.version /\ x.channel = run.channel
        /\ x.sha = run.sha /\ x.artifact = run.artifact /\ x.bytes = run.bytes
        /\ Identity(x) = Identity(run)
    BY <1>1 DEF RunRecords, Identity
  <2> HIDE DEF x
  <2>3. BackedBy(x, npm') /\ x.bytes = x.artifact.digest /\ x.artifact = Identity(x)
    BY <1>2, <1>5, <2>2 DEF BackedBy, SoundRun
  <2> QED
    BY <2>1, <2>3 DEF Moves, SoundRun
<1>6. ASSUME NEW bytes \in Downloads(r), Verified(run, run.artifact, bytes),
             runs' = [runs EXCEPT ![r].phase = "create", ![r].bytes = bytes]
      PROVE  \E x : Moves(r, x)
  <2> DEFINE x == [run EXCEPT !.phase = "create", !.bytes = bytes]
  <2>1. bytes \in Bytes
    BY <1>1 DEF Downloads, Bytes, RunRecords
  <2>2. x \in RunRecords /\ runs' = [runs EXCEPT ![r] = x]
    BY <1>1, <1>6, <2>1 DEF RunRecords, Phases, JobOf, TypeOK
  <2>3. /\ x.phase = "create" /\ x.bytes = bytes /\ x.artifact = run.artifact
        /\ x.version = run.version /\ x.channel = run.channel /\ x.sha = run.sha
        /\ Identity(x) = Identity(run)
    BY <1>1 DEF RunRecords, Identity
  <2> HIDE DEF x
  <2>4. BackedBy(x, npm') /\ x.bytes = x.artifact.digest /\ x.artifact = Identity(x)
    BY <1>2, <1>6, <2>3 DEF BackedBy, Verified
  <2> QED
    BY <2>2, <2>4 DEF Moves, SoundRun
<1>7. CheckGitHub(r) => \E x : Moves(r, x)
  BY <1>3, <1>4, <1>6 DEF CheckGitHub
<1>8. CreateRelease(r) => \E x : Moves(r, x)
  BY <1>3, <1>5 DEF CreateRelease, At
<1>9. PublishRelease(r) => \E x : Moves(r, x)
  BY <1>3, <1>4 DEF PublishRelease
<1> QED
  BY <1>7, <1>8, <1>9

(* A step keeps the runs sound, and npm without a second package.          *)
LEMMA RunsStep ==
    ASSUME TypeOK, RunsSound, NpmUnique, [Next]_vars
    PROVE  /\ runs' \in [Runs -> RunRecords \cup {Absent}] /\ RunsSound'
           /\ npm \subseteq npm' /\ npm' \subseteq Identities /\ NpmUnique'
<1>1. ASSUME npm \subseteq npm', UNCHANGED runs
      PROVE  runs' \in [Runs -> RunRecords \cup {Absent}] /\ RunsSound'
  <2>1. ASSUME NEW r \in Runs, runs[r] # Absent PROVE SoundRun(runs[r], npm')
    BY <1>1, <2>1, StaysBacked DEF RunsSound, SoundRun
  <2> QED
    BY <1>1, <2>1 DEF RunsSound, TypeOK
<1>2. ASSUME NEW r \in Runs, NEW x, Moves(r, x), npm \subseteq npm'
      PROVE  runs' \in [Runs -> RunRecords \cup {Absent}] /\ RunsSound'
  <2>1. runs' = [runs EXCEPT ![r] = x] /\ x \in RunRecords /\ SoundRun(x, npm')
    BY <1>2 DEF Moves
  <2>2. ASSUME NEW o \in Runs, runs'[o] # Absent PROVE SoundRun(runs'[o], npm')
    <3>1. CASE o = r
      BY <2>1, <3>1 DEF TypeOK
    <3>2. CASE o # r
      <4>1. runs'[o] = runs[o] /\ SoundRun(runs[o], npm)
        BY <2>1, <2>2, <3>2 DEF TypeOK, RunsSound
      <4> QED
        BY <1>2, <4>1, StaysBacked DEF SoundRun
    <3> QED
      BY <3>1, <3>2
  <2> QED
    BY <2>1, <2>2, Written DEF RunsSound
<1>3. UNCHANGED npm => npm \subseteq npm' /\ npm' \subseteq Identities /\ NpmUnique'
  BY DEF TypeOK, NpmUnique
<1>4. ASSUME NEW r \in Runs,
             Trigger(r) \/ ReRun(r) \/ Begin(r) \/ Prepare(r) \/ Validate(r) \/ Package(r)
      PROVE  UNCHANGED npm /\ \E x : Moves(r, x)
  <2>1. UNCHANGED npm
    BY <1>4 DEF Trigger, ReRun, Begin, Prepare, Validate, Package, Published
  <2> QED
    BY <1>4, <2>1, EarlyMoves
<1>5. ASSUME NEW r \in Runs, CheckNpm(r) PROVE UNCHANGED npm /\ \E x : Moves(r, x)
  BY <1>5, CheckNpmMoves DEF CheckNpm, Published
<1>6. ASSUME NEW r \in Runs, CheckGitHub(r) \/ CreateRelease(r) \/ PublishRelease(r)
      PROVE  UNCHANGED npm /\ \E x : Moves(r, x)
  <2>1. UNCHANGED npm
    BY <1>6 DEF CheckGitHub, CreateRelease, PublishRelease, Published
  <2> QED
    BY <1>6, <2>1, GitHubMoves
<1>7. ASSUME NEW r \in Runs, Cancel(r) PROVE UNCHANGED npm /\ \E x : Moves(r, x)
  BY <1>7, FailsMoves DEF Cancel, Published
<1>8. ASSUME NEW r \in Runs, PublishNpm(r)
      PROVE  /\ \E x : Moves(r, x)
             /\ npm \subseteq npm' /\ npm' \subseteq Identities /\ NpmUnique'
  BY <1>8, PublishNpmMoves
<1>9. ASSUME NEW t, NEW s, NEW g, MoveTag(t, s) \/ DeleteDraft(g) \/ UNCHANGED vars
      PROVE  UNCHANGED <<runs, npm>>
  BY <1>9 DEF MoveTag, DeleteDraft, vars, Published
<1> QED
  BY <1>1, <1>2, <1>3, <1>4, <1>5, <1>6, <1>7, <1>8, <1>9 DEF Next, Job


-----------------------------------------------------------------------------
(* Releases on GitHub.                                                     *)

(* A release is what npm has under its version, with nothing else attached. *)
Covered(g, packages) ==
    \E p \in packages :
        /\ p.version = g.version /\ p.channel = g.channel /\ p.sha = g.sha
        /\ p.digest = g.digest /\ g.asset \in {Absent, g.digest}

(* The draft carries the identity of a run that npm backs. *)
LEMMA CreateCovered ==
    ASSUME TypeOK, RunsSound, NEW r \in Runs, runs[r] # Absent, runs[r].phase = "create"
    PROVE  Notes(runs[r]) \in GitHubRecords /\ Covered(Notes(runs[r]), npm)
<1> DEFINE run == runs[r]
<1>1. run \in RunRecords /\ SoundRun(run, npm)
  BY DEF TypeOK, RunsSound
<1>2. BackedBy(run, npm) /\ run.artifact = Identity(run)
  BY <1>1 DEF SoundRun, ToGitHub
<1>3. run.artifact.digest \in Bytes /\ Prerelease(run.version, run.channel) \in BOOLEAN
  BY <1>1, <1>2 DEF Identity, RunRecords, Prerelease
<1> QED
  BY <1>1, <1>2, <1>3 DEF Notes, GitHubRecords, Bytes, RunRecords, BackedBy, Covered

(* What is attached to a draft is the digest it was written for, whoever   *)
(* has written it: npm has only one package of the version.                *)
LEMMA UploadCovered ==
    ASSUME TypeOK, RunsSound, NpmUnique, NEW r \in Runs, runs[r] # Absent, runs[r].phase = "upload",
           NEW g \in github, Covered(g, npm), g.version = runs[r].version
    PROVE  LET h == [g EXCEPT !.draft = FALSE, !.asset = runs[r].bytes]
           IN  h \in GitHubRecords /\ Covered(h, npm)
<1> DEFINE run == runs[r]
           h == [g EXCEPT !.draft = FALSE, !.asset = run.bytes]
<1>1. run \in RunRecords /\ SoundRun(run, npm) /\ g \in GitHubRecords
  BY DEF TypeOK, RunsSound
<1>2. PICK p \in npm :
        /\ p.version = g.version /\ p.channel = g.channel /\ p.sha = g.sha
        /\ p.digest = g.digest /\ g.asset \in {Absent, g.digest}
  BY DEF Covered
<1>3. PICK q \in npm : q.version = run.version /\ q.digest = run.artifact.digest
  BY <1>1 DEF SoundRun, ToGitHub, BackedBy
<1>4. p = q
  BY <1>2, <1>3 DEF NpmUnique
<1>5. run.bytes = g.digest /\ run.bytes \in Bytes
  BY <1>1, <1>2, <1>3, <1>4 DEF SoundRun, RunRecords
<1>6. /\ h \in GitHubRecords /\ h.version = g.version /\ h.channel = g.channel /\ h.sha = g.sha
      /\ h.digest = g.digest /\ h.asset = run.bytes
  BY <1>1, <1>5 DEF GitHubRecords
<1> HIDE DEF h
<1>7. Covered(h, npm)
  BY <1>2, <1>5, <1>6 DEF Covered
<1> QED
  BY <1>6, <1>7 DEF h

LEMMA GitHubStep ==
    ASSUME IInv, [Next]_vars
    PROVE  github' \subseteq GitHubRecords /\ OneArtifactPerVersion'
<1>0. /\ TypeOK /\ RunsSound /\ NpmUnique /\ npm \subseteq npm'
      /\ github \subseteq GitHubRecords /\ \A g \in github : Covered(g, npm)
  BY RunsStep DEF IInv, OneArtifactPerVersion, Covered, TypeOK
<1>1. \A g : Covered(g, npm) => Covered(g, npm')
  BY <1>0 DEF Covered
<1>2. SUFFICES \A g \in github' : g \in GitHubRecords /\ Covered(g, npm)
  BY <1>0, <1>1 DEF OneArtifactPerVersion, Covered
<1>3. ASSUME NEW r \in Runs, CreateRelease(r)
      PROVE  \A g \in github' : g \in GitHubRecords /\ Covered(g, npm)
  BY <1>0, <1>3, CreateCovered DEF CreateRelease, At
<1>4. ASSUME NEW r \in Runs, PublishRelease(r)
      PROVE  \A g \in github' : g \in GitHubRecords /\ Covered(g, npm)
  <2>1. CASE UNCHANGED github
    BY <1>0, <2>1
  <2>2. CASE ~UNCHANGED github
    <3>1. PICK g \in OnGitHub(runs[r].version) :
            github' = (github \ {g}) \cup {[g EXCEPT !.draft = FALSE, !.asset = runs[r].bytes]}
      BY <1>4, <2>2 DEF PublishRelease
    <3>2. g \in github /\ g.version = runs[r].version /\ Covered(g, npm)
      BY <1>0 DEF OnGitHub
    <3>3. LET h == [g EXCEPT !.draft = FALSE, !.asset = runs[r].bytes]
          IN  h \in GitHubRecords /\ Covered(h, npm)
      BY <1>0, <1>4, <3>2, UploadCovered DEF PublishRelease, At
    <3> QED
      BY <1>0, <3>1, <3>3
  <2> QED
    BY <2>1, <2>2
<1>5. ASSUME NEW r \in Runs,
             \/ Trigger(r) \/ ReRun(r) \/ Begin(r) \/ Cancel(r) \/ Prepare(r) \/ Validate(r)
             \/ Package(r) \/ CheckNpm(r) \/ PublishNpm(r) \/ CheckGitHub(r)
      PROVE  UNCHANGED github
  BY <1>5 DEF Trigger, ReRun, Begin, Cancel, Prepare, Validate, Package, CheckNpm, PublishNpm,
              CheckGitHub, Published
<1>6. ASSUME NEW t, NEW s, MoveTag(t, s) \/ UNCHANGED vars PROVE UNCHANGED github
  BY <1>6 DEF MoveTag, Published, vars
<1>7. ASSUME NEW g, DeleteDraft(g) PROVE github' \subseteq github
  BY <1>7 DEF DeleteDraft
<1> QED
  BY <1>0, <1>3, <1>4, <1>5, <1>6, <1>7 DEF Next, Job

(* Tags are moved from one commit to another. *)
LEMMA TagStep ==
    ASSUME tag \in [Tags -> Shas], [Next]_vars
    PROVE  tag' \in [Tags -> Shas]
<1>1. ASSUME NEW t \in Tags, NEW s \in Shas, MoveTag(t, s) PROVE tag' \in [Tags -> Shas]
  BY <1>1 DEF MoveTag
<1>2. ASSUME NEW r \in Runs,
             \/ Trigger(r) \/ ReRun(r) \/ Begin(r) \/ Cancel(r) \/ Prepare(r) \/ Validate(r)
             \/ Package(r) \/ CheckNpm(r) \/ PublishNpm(r) \/ CheckGitHub(r) \/ CreateRelease(r)
             \/ PublishRelease(r)
      PROVE  UNCHANGED tag
  BY <1>2 DEF Trigger, ReRun, Begin, Cancel, Prepare, Validate, Package, CheckNpm, PublishNpm,
              CheckGitHub, CreateRelease, PublishRelease
<1>3. ASSUME NEW g, DeleteDraft(g) \/ UNCHANGED vars PROVE UNCHANGED tag
  BY <1>3 DEF DeleteDraft, vars
<1> QED
  BY <1>1, <1>2, <1>3 DEF Next, Job

LEMMA Invariant == Spec => []IInv
<1>1. Init => IInv
  BY DEF Init, IInv, TypeOK, NpmUnique, RunsSound, OneArtifactPerVersion
<1>2. IInv /\ [Next]_vars => IInv'
  BY RunsStep, GitHubStep, TagStep DEF IInv, TypeOK
<1> QED
  BY <1>1, <1>2, PTL DEF Spec

(* However builds differ, jobs are re-run, tags moved and drafts deleted, a *)
(* release on GitHub is the artifact that npm has under its version.  The  *)
(* argument does not use that runs of one ref wait for each other: npm      *)
(* takes a version once, and every check of a re-run goes back to it.      *)
THEOREM ReleaseIsPackage == Spec => []OneArtifactPerVersion
<1>1. IInv => OneArtifactPerVersion
  BY DEF IInv
<1> QED
  BY <1>1, Invariant, PTL

===============================================================================
