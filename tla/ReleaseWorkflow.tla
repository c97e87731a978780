---------------------------- MODULE ReleaseWorkflow ----------------------------
(***************************************************************************)
(* The release of one version (fingerprint-release.yml, docs/release.md): a *)
(* tag whose Package.swift names the checksum of a binary, and a GitHub     *)
(* Release that carries the binary.  The workflow makes them one after the  *)
(* other and any of its steps may fail; an operator may withdraw what a     *)
(* failed run left, or release by hand, while consumers resolve the tag.    *)
(*                                                                          *)
(* A run makes one zip and no two have the same checksum, so runs are       *)
(* numbered and the tag and the asset are each the number of one.           *)
(***************************************************************************)
EXTENDS Integers

CONSTANTS
    Consumers,      \* packages that may depend on the version
    POLLS,          \* attempts the workflow waits for the asset
    MAX_BUILDS      \* bound: runs for the version

ASSUME ReleaseAssumption == POLLS \in Nat \ {0} /\ MAX_BUILDS \in Nat

NONE == 0

\* The concurrency group admits one run of the workflow at a time; nothing keeps
\* an operator from the manual sequence meanwhile.
Releasers == {"workflow", "operator"}

VARIABLES
    tag,            \* the build whose checksum the pushed tag names
    released,       \* is there a GitHub Release of the version?
    asset,          \* the build it carries
    available,      \* can the asset be downloaded already?
    step,           \* of each releaser: the step it is about to take, or "idle"
    build,          \* of each releaser: the zip its last run makes
    attempt,        \* of the workflow's wait
    builds,         \* how many runs there were
    withdrawal,     \* what the operator is about to delete, or "idle"
    published,      \* the build a run ended with, successfully
    pinned          \* of each consumer: the build its tag named when it resolved it

remote == <<tag, released, asset, available>>
runs == <<step, build, attempt, builds>>
seen == <<published, pinned>>
vars == <<remote, runs, withdrawal, seen>>

Init ==
    /\ tag = NONE /\ released = FALSE /\ asset = NONE /\ available = FALSE
    /\ step = [r \in Releasers |-> "idle"]
    /\ build = [r \in Releasers |-> NONE]
    /\ attempt = 0
    /\ builds = 0
    /\ withdrawal = "idle"
    /\ published = NONE
    /\ pinned = [c \in Consumers |-> NONE]

Goto(r, next) == step' = [step EXCEPT ![r] = next]

-----------------------------------------------------------------------------

\* workflow_dispatch, and the beginning of the manual sequence, which looks for no
\* tag.  What is built, tested and zipped from here on is pushed later.
Start(r) ==
    /\ step[r] = "idle"
    /\ builds < MAX_BUILDS
    /\ builds' = builds + 1
    /\ build' = [build EXCEPT ![r] = builds + 1]
    /\ Goto(r, IF r = "workflow" THEN "validate" ELSE "tag")
    /\ UNCHANGED <<remote, attempt, withdrawal, seen>>

\* Validate release input: the run ends if the tag exists.
Validate ==
    /\ step["workflow"] = "validate"
    /\ Goto("workflow", IF tag = NONE THEN "tag" ELSE "idle")
    /\ UNCHANGED <<remote, build, attempt, builds, withdrawal, seen>>

\* Fault: git push --force
PushTag_Force(r) ==
    /\ step[r] = "tag"
    /\ tag' = build[r]
    /\ Goto(r, "release")
    /\ UNCHANGED <<released, asset, available, build, attempt, builds, withdrawal, seen>>

\* Create release tag commit: the push is refused if the tag has come to exist.
PushTag(r) ==
    /\ step[r] = "tag"
    /\ IF tag = NONE THEN tag' = build[r] /\ Goto(r, "release")
       ELSE UNCHANGED tag /\ Goto(r, "idle")
    /\ UNCHANGED <<released, asset, available, build, attempt, builds, withdrawal, seen>>

\* Create GitHub Release, refused if the version has one
CreateRelease(r) ==
    /\ step[r] = "release"
    /\ released' = TRUE
    /\ Goto(r, IF released THEN "idle" ELSE "upload")
    /\ UNCHANGED <<tag, asset, available, build, attempt, builds, withdrawal, seen>>

\* and upload asset: "the GitHub Release or asset upload" may fail.
UploadAsset(r) ==
    /\ step[r] = "upload"
    /\ asset' = build[r]
    /\ attempt' = IF r = "workflow" THEN 1 ELSE attempt
    /\ Goto(r, IF r = "workflow" THEN "wait" ELSE "consume")
    /\ UNCHANGED <<tag, released, available, build, builds, withdrawal, seen>>

\* GitHub serves the asset from here on.
AssetAppears ==
    /\ asset # NONE /\ ~available
    /\ available' = TRUE
    /\ UNCHANGED <<tag, released, asset, runs, withdrawal, seen>>

\* Fault: the attempts are not counted.
Poll_Forever ==
    /\ step["workflow"] = "wait"
    /\ Goto("workflow", IF available THEN "consume" ELSE "wait")
    /\ UNCHANGED <<remote, build, attempt, builds, withdrawal, seen>>

\* Fault: one attempt too many.
Poll_OnceMore ==
    /\ step["workflow"] = "wait"
    /\ attempt' = IF available THEN attempt ELSE attempt + 1
    /\ Goto("workflow", IF available THEN "consume"
                        ELSE IF attempt <= POLLS THEN "wait" ELSE "idle")
    /\ UNCHANGED <<remote, build, builds, withdrawal, seen>>

\* Wait for release asset, an iteration of the loop
Poll ==
    /\ step["workflow"] = "wait"
    /\ attempt' = IF ~available /\ attempt < POLLS THEN attempt + 1 ELSE attempt
    /\ Goto("workflow", IF available THEN "consume"
                        ELSE IF attempt < POLLS THEN "wait" ELSE "idle")
    /\ UNCHANGED <<remote, build, builds, withdrawal, seen>>

\* Validate release tag consumes uploaded binary: SwiftPM compares the checksum of
\* the binary with the tagged one.
Consume(r) ==
    /\ step[r] = "consume"
    /\ published' = IF available /\ tag = asset THEN tag ELSE published
    /\ Goto(r, "idle")
    /\ UNCHANGED <<remote, build, attempt, builds, withdrawal, pinned>>

\* Any step of a run may fail, or the run be cancelled.
Fail(r) ==
    /\ step[r] # "idle"
    /\ Goto(r, "idle")
    /\ UNCHANGED <<remote, build, attempt, builds, withdrawal, seen>>

-----------------------------------------------------------------------------

\* A consumer resolves the version.
Resolve(c) ==
    /\ pinned[c] = NONE /\ tag # NONE
    /\ pinned' = [pinned EXCEPT ![c] = tag]
    /\ UNCHANGED <<remote, runs, withdrawal, published>>

\* Fault: the run is given up for failed while it waits.
RunFailed_NotYet == published = NONE

\* No run succeeded, and the one that made the tag is over.
RunFailed ==
    /\ published = NONE
    /\ \A r \in Releasers : build[r] = tag => step[r] = "idle"

\* Failure handling, its decision.  A tag whose release or upload failed goes alone,
\* "only after confirming no consumer can depend on it yet"; a release whose
\* validation failed goes with its tag "if it has not been announced", and nobody
\* announces what failed.  Each deletion is an act of its own and others may come
\* in between.
Confirm ==
    /\ withdrawal = "idle" /\ tag # NONE /\ RunFailed
    /\ \/ /\ asset = NONE
          /\ \A c \in Consumers : pinned[c] # tag
          /\ withdrawal' = "tag"
       \/ released /\ withdrawal' = "release"
    /\ UNCHANGED <<remote, runs, seen>>

\* The release goes, and its asset with it.
DeleteRelease ==
    /\ withdrawal = "release"
    /\ released' = FALSE /\ asset' = NONE /\ available' = FALSE
    /\ withdrawal' = "tag"
    /\ UNCHANGED <<tag, runs, seen>>

\* git push origin :refs/tags/...
DeleteTag ==
    /\ withdrawal = "tag"
    /\ tag' = NONE
    /\ withdrawal' = "idle"
    /\ UNCHANGED <<released, asset, available, runs, seen>>

\* A deletion fails, and the operator looks again.
GiveUp ==
    /\ withdrawal # "idle"
    /\ withdrawal' = "idle"
    /\ UNCHANGED <<remote, runs, seen>>

Withdraw == Confirm \/ DeleteRelease \/ DeleteTag \/ GiveUp

-----------------------------------------------------------------------------

Run(r) == PushTag(r) \/ CreateRelease(r) \/ UploadAsset(r) \/ Consume(r)

Next ==
    \/ \E r \in Releasers : Start(r) \/ Run(r) \/ Fail(r)
    \/ Validate \/ Poll \/ AssetAppears \/ Withdraw
    \/ \E c \in Consumers : Resolve(c)

\* A run goes on; nothing makes GitHub serve the asset, or a person do anything.
Spec == Init /\ [][Next]_vars /\ WF_vars(Run("workflow") \/ Validate \/ Poll)

-----------------------------------------------------------------------------

\* The type invariant.
TypeOK ==
    /\ tag \in 0 .. builds /\ asset \in 0 .. builds /\ published \in 0 .. builds
    /\ released \in BOOLEAN /\ available \in BOOLEAN
    /\ step \in [Releasers -> {"idle", "validate", "tag", "release", "upload", "wait", "consume"}]
    /\ build \in [Releasers -> 0 .. builds]
    /\ attempt \in 0 .. POLLS
    /\ builds \in 0 .. MAX_BUILDS
    /\ withdrawal \in {"idle", "release", "tag"}
    /\ pinned \in [Consumers -> 0 .. builds]

\* Whoever releases, however often it failed before and whatever was withdrawn in
\* part, the binary of a release is the one whose checksum its tag names: no consumer
\* downloads another.
AssetMatchesTag == asset # NONE => asset = tag

\* "Each successful release publishes" a tag, a release and the binary: what a run
\* validated stays, downloadable, whoever releases or withdraws meanwhile.
SuccessStays ==
    published # NONE =>
        /\ released /\ available
        /\ tag = published /\ asset = published

\* A run ends, also if the asset never becomes available, and so the next one of the
\* concurrency group can begin.
RunEnds == (step["workflow"] # "idle") ~> (step["workflow"] = "idle")
=============================================================================
