------------------------- MODULE ReleaseWorkflowProofs -------------------------
(***************************************************************************)
(* The release of a version, for any consumers and any number of runs and   *)
(* polls: its binary is the one its tag names, and what a run validated     *)
(* stays.                                                                   *)
(***************************************************************************)
EXTENDS ReleaseWorkflow, TLAPS

\* No two runs make the same zip.
BuildsDiffer ==
    /\ \A r \in Releasers : step[r] # "idle" => build[r] # NONE
    /\ \A r, s \in Releasers : build[r] = build[s] => r = s \/ build[r] = NONE

\* Who is past the tag pushed it, and who is past the upload made the asset.
RunOwns(r) ==
    /\ step[r] \in {"release", "upload", "wait", "consume"} => tag = build[r]
    /\ step[r] \in {"release", "upload"} => asset = NONE
    /\ step[r] \in {"upload", "wait", "consume"} => released
    /\ step[r] \in {"wait", "consume"} => asset = build[r]

\* What is about to be deleted is of a run that is over.
WithdrawsFailed ==
    /\ withdrawal # "idle" => tag # NONE /\ RunFailed
    /\ withdrawal = "release" => released
    /\ withdrawal = "tag" => asset = NONE

IInv ==
    /\ TypeOK
    /\ BuildsDiffer
    /\ \A r \in Releasers : RunOwns(r)
    /\ WithdrawsFailed
    /\ asset # NONE => released
    /\ available => asset # NONE
    /\ AssetMatchesTag
    /\ SuccessStays

USE DEF Releasers, NONE

LEMMA InitInv == Init => IInv
<1> SUFFICES ASSUME Init PROVE IInv
  OBVIOUS
<1> USE ReleaseAssumption DEF Init
<1>1. TypeOK
  <2>1. step \in [Releasers -> {"idle", "validate", "tag", "release", "upload", "wait", "consume"}]
    OBVIOUS
  <2>2. build \in [Releasers -> 0 .. builds] /\ pinned \in [Consumers -> 0 .. builds]
    OBVIOUS
  <2>3. attempt \in 0 .. POLLS /\ builds \in 0 .. MAX_BUILDS
    OBVIOUS
  <2> QED
    BY <2>1, <2>2, <2>3 DEF TypeOK
<1>2. BuildsDiffer /\ (\A r \in Releasers : RunOwns(r))
  BY DEF BuildsDiffer, RunOwns
<1> QED
  BY <1>1, <1>2 DEF IInv, WithdrawsFailed, AssetMatchesTag, SuccessStays

\* The steps of a run, of the workflow's or of one by hand
LEMMA RunInv ==
  ASSUME IInv, NEW r \in Releasers, Start(r) \/ Run(r) \/ Fail(r)
  PROVE  IInv'
<1> USE ReleaseAssumption DEF IInv, TypeOK, BuildsDiffer, RunOwns, WithdrawsFailed, RunFailed,
        AssetMatchesTag, SuccessStays, Goto, remote, seen
<1>1. CASE Start(r)
  BY <1>1 DEF Start
<1>2. CASE PushTag(r)
  BY <1>2 DEF PushTag
<1>3. CASE CreateRelease(r)
  BY <1>3 DEF CreateRelease
<1>4. CASE UploadAsset(r)
  BY <1>4 DEF UploadAsset
<1>5. CASE Consume(r)
  BY <1>5 DEF Consume
<1>6. CASE Fail(r)
  BY <1>6 DEF Fail
<1> QED
  BY <1>1, <1>2, <1>3, <1>4, <1>5, <1>6 DEF Run

\* The steps of the workflow alone, of GitHub, of an operator and of a consumer
LEMMA OtherInv ==
  ASSUME IInv, \/ Validate \/ Poll \/ AssetAppears \/ Withdraw
               \/ \E c \in Consumers : Resolve(c)
  PROVE  IInv'
<1> USE ReleaseAssumption DEF IInv, TypeOK, BuildsDiffer, RunOwns, WithdrawsFailed, RunFailed,
        AssetMatchesTag, SuccessStays, Goto, remote, runs, seen
<1>1. CASE Validate
  BY <1>1 DEF Validate
<1>2. CASE Poll
  BY <1>2 DEF Poll
<1>3. CASE AssetAppears
  BY <1>3 DEF AssetAppears
<1>4. CASE Confirm
  BY <1>4 DEF Confirm
<1>5. CASE DeleteRelease
  BY <1>5 DEF DeleteRelease
<1>6. CASE DeleteTag
  BY <1>6 DEF DeleteTag
<1>7. CASE GiveUp
  BY <1>7 DEF GiveUp
<1>8. ASSUME NEW c \in Consumers, Resolve(c) PROVE IInv'
  BY <1>8 DEF Resolve
<1> QED
  BY <1>1, <1>2, <1>3, <1>4, <1>5, <1>6, <1>7, <1>8 DEF Withdraw

\* The strengthening holds in every reachable state.
THEOREM Invariance == Spec => []IInv
<1>1. Init => IInv
  BY InitInv
<1>2. IInv /\ [Next]_vars => IInv'
  <2>1. CASE UNCHANGED vars
    BY <2>1 DEF IInv, TypeOK, BuildsDiffer, RunOwns, WithdrawsFailed, RunFailed,
                AssetMatchesTag, SuccessStays, vars, remote, runs, seen
  <2> QED
    BY <2>1, RunInv, OtherInv DEF Next
<1> QED
  BY <1>1, <1>2, PTL DEF Spec

\* What a tag or a release names is a run that there was, and the wait is bounded.
THEOREM TypeCorrect == Spec => []TypeOK
<1>1. IInv => TypeOK
  BY DEF IInv
<1> QED
  BY <1>1, Invariance, PTL

\* The binary of a release is the one whose checksum its tag names.
THEOREM BinaryMatchesTag == Spec => []AssetMatchesTag
<1>1. IInv => AssetMatchesTag
  BY DEF IInv
<1> QED
  BY <1>1, Invariance, PTL

\* What a run validated is never withdrawn, nor replaced by another run.
THEOREM ReleaseStays == Spec => []SuccessStays
<1>1. IInv => SuccessStays
  BY DEF IInv
<1> QED
  BY <1>1, Invariance, PTL
=============================================================================
