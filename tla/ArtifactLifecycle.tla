-------------------------- MODULE ArtifactLifecycle --------------------------
(***************************************************************************)
(* Learned artifacts of the overlay: proposal, owner-approved activation,  *)
(* owner reconfirmation, and the startup pass that rebuilds the registry   *)
(* from the database and the overlay files.                                *)
(*                                                                         *)
(* Durable: the proposals, the learned rows, the reconfirmation requests   *)
(* and the overlay files.  In memory: the registry of what is in effect    *)
(* and the handler of the owner's tap.  Taps are handled one at a time,    *)
(* every handler stops anywhere in a crash or in an error of the store or  *)
(* of the file system, and a restart may come with another base.           *)
(***************************************************************************)
EXTENDS Naturals, FiniteSets, FiniteSetsExt

CONSTANTS
    Learned,    \* the artifact versions <<id, version>> the owner is asked about
    Placed,     \* the ones that arrive as a file put in the overlay by hand
    Touched,    \* the ones whose file the owner may delete or change by hand
    Refs,       \* [Learned -> identities a version refers to]
    Bases,      \* the sets of identities that a base package may provide
    BaseVersion,\* the version of every base artifact
    MaxReconfirmations \* bound: reconfirmation requests ever minted for one version

(* Versions are counted from 1, so that 0 can stand for "no version". *)
ASSUME ArtifactAssumption ==
    /\ IsFiniteSet(Learned)
    /\ \A a \in Learned : a = <<a[1], a[2]>> /\ a[2] \in Nat \ {0}
    /\ BaseVersion \in Nat \ {0} /\ MaxReconfirmations \in Nat

VARIABLES
    alProp,   \* proposed_artifacts.state; "stalled" is a proposal nobody can tap
    alTapped, \* versions whose artifact.activate request was consumed
    alRow,    \* learned_artifacts
    alReq,    \* artifact.reconfirm action requests of a version
    alFile,   \* the version's file in artifacts.d
    alReg,    \* in memory: the overlay entry of an identity in the registry
    alBase,   \* in memory: base_artifact_ids
    alTask    \* the tap being handled, or NoTap, or Halted

alVars == <<alProp, alTapped, alRow, alReq, alFile, alReg, alBase, alTask>>

Identities == {a[1] : a \in Learned} \cup (UNION Bases) \cup (UNION {Refs[a] : a \in Learned})
Versions(id) == {a \in Learned : a[1] = id}
NoEntry == [ver |-> 0, content |-> "good"]
NoRow == [status |-> "none", req |-> 0, legacy |-> FALSE, ok |-> {}]
NoTap == [at |-> "idle"]
Halted == [at |-> "down"]
Trusted == {"compatible", "accepted"}

(* artifact_version: what the live registry holds for an identity. *)
ArtifactVersion(reg, base, id) ==
    IF reg[id].ver # 0 THEN reg[id].ver ELSE IF id \in base THEN BaseVersion ELSE 0

InEffect == {a \in Learned : alReg[a[1]].ver = a[2]}

(* Mutant: the references are named together with the missing version. *)
DanglingPairs(reg, base, a) ==
    {<<id, 0>> : id \in {r \in Refs[a] : ArtifactVersion(reg, base, r) = 0}}

(* dangling_for_parsed: the references of a version that nothing provides. *)
Dangling(reg, base, a) == {id \in Refs[a] : ArtifactVersion(reg, base, id) = 0}

HighestActive(id) == Max({0} \cup {a[2] : a \in {b \in Versions(id) : alProp[b] = "active"}})

(* A request id never minted before. *)
FreshRequest(a) ==
    {n \in 1..MaxReconfirmations : /\ alReq[a][n] = "unissued"
                            /\ n # alRow[a].req
                            /\ \A m \in 1..(n - 1) : alReq[a][m] # "unissued" \/ m = alRow[a].req}

AlInit ==
    /\ alProp = [a \in Learned |-> "none"]
    /\ alTapped = {}
    /\ alRow = [a \in Learned |-> NoRow]
    /\ alReq = [a \in Learned |-> [n \in 1..MaxReconfirmations |-> "unissued"]]
    /\ alFile = [a \in Learned |-> "absent"]
    /\ alReg = [id \in Identities |-> NoEntry]
    /\ alBase \in Bases
    /\ alTask = NoTap

-----------------------------------------------------------------------------
(* The proposal: a row that walks proposed, validated, review_required, and *)
(* then the artifact.activate request the owner can tap.  Each is a commit  *)
(* of its own: a proposal cut short holds its version and cannot be tapped. *)

MayPropose(a) ==
    /\ a[1] \notin alBase
    /\ alProp[a] = "none"
    /\ ArtifactVersion(alReg, alBase, a[1]) < a[2]
    /\ \A b \in Versions(a[1]) : alProp[b] # "none" => b[2] <= a[2]

Propose(a) ==
    /\ alTask # Halted /\ a \notin Placed /\ MayPropose(a)
    /\ \E reached \in {"stalled", "review_required"} : alProp' = [alProp EXCEPT ![a] = reached]
    /\ UNCHANGED <<alTapped, alRow, alReq, alFile, alReg, alBase, alTask>>

-----------------------------------------------------------------------------
(* The tap on "Approve": the request is consumed first, then the file is    *)
(* staged, the activation committed, the file renamed into place and, if no *)
(* reference dangles, the version published; otherwise it waits for a       *)
(* reconfirmation that is recorded before its request is inserted.          *)

StageActivation(a) ==
    /\ alTask = NoTap /\ alProp[a] = "review_required" /\ a \notin alTapped
    /\ alTapped' = alTapped \cup {a}
    /\ alTask' = IF ArtifactVersion(alReg, alBase, a[1]) >= a[2] THEN NoTap
                 ELSE [at |-> "staged", art |-> a, dangling |-> Dangling(alReg, alBase, a)]
    /\ UNCHANGED <<alProp, alRow, alReq, alFile, alReg, alBase>>

(* Mutant: the proposal is left Approved by a clean activation. *)
CommitUnadvanced ==
    /\ alTask.at = "staged"
    /\ alProp' = [alProp EXCEPT ![alTask.art] = "approved"]
    /\ alRow' = [alRow EXCEPT ![alTask.art] = [NoRow EXCEPT !.status = "compatible"]]
    /\ alTask' = [alTask EXCEPT !.at = "committed"]
    /\ UNCHANGED <<alTapped, alReq, alFile, alReg, alBase>>

CommitArtifactActivation ==
    /\ alTask.at = "staged"
    /\ LET a == alTask.art IN
         /\ alProp' = [alProp EXCEPT ![a] = IF alTask.dangling = {} THEN "active" ELSE "approved"]
         /\ alRow' = [alRow EXCEPT ![a] = [NoRow EXCEPT !.status = "compatible"]]
         /\ alTask' = [alTask EXCEPT !.at = "committed"]
    /\ UNCHANGED <<alTapped, alReq, alFile, alReg, alBase>>

PublishActivation ==
    /\ alTask.at = "committed"
    /\ LET a == alTask.art IN
         /\ alFile' = [alFile EXCEPT ![a] = "good"]
         /\ IF alTask.dangling = {}
            THEN /\ alReg' = [alReg EXCEPT ![a[1]] = [ver |-> a[2], content |-> "good"]]
                 /\ alTask' = NoTap
            ELSE alTask' = [alTask EXCEPT !.at = "published"] /\ UNCHANGED alReg
    /\ UNCHANGED <<alProp, alTapped, alRow, alReq, alBase>>

MarkReconfirmationRequired ==
    /\ alTask.at = "published"
    /\ \E n \in FreshRequest(alTask.art) :
         /\ alRow' = [alRow EXCEPT ![alTask.art].status = "required", ![alTask.art].req = n]
         /\ alTask' = [at |-> "marked", art |-> alTask.art, req |-> n]
    /\ UNCHANGED <<alProp, alTapped, alReq, alFile, alReg, alBase>>

AskReconfirmation ==
    /\ alTask.at = "marked"
    /\ alReq' = [alReq EXCEPT ![alTask.art][alTask.req] = "open"]
    /\ alTask' = NoTap
    /\ UNCHANGED <<alProp, alTapped, alRow, alFile, alReg, alBase>>

-----------------------------------------------------------------------------
(* The tap on "Re-confirm": reinstate_artifact.  Buttons stay in the chat,  *)
(* so any request ever inserted can be tapped, any number of times.         *)

MayReinstate(a, n) ==
    /\ alRow[a].req = n
    /\ alFile[a] = "good"
    /\ a[1] \notin alBase
    /\ ArtifactVersion(alReg, alBase, a[1]) < a[2]
    /\ alRow[a].legacy \/ alProp[a] # "none"

(* An Active proposal is first reopened, in a transaction of its own. *)
TapReconfirm(a, n) ==
    /\ alTask = NoTap /\ alReq[a][n] # "unissued"
    /\ MayReinstate(a, n)
    /\ alProp' = [alProp EXCEPT ![a] = IF @ = "active" /\ ~alRow[a].legacy THEN "approved" ELSE @]
    /\ alTask' = [at |-> "confirm", art |-> a, req |-> n]
    /\ UNCHANGED <<alTapped, alRow, alReq, alFile, alReg, alBase>>

(* commit_owner_reconfirmation, then the candidate registry is published;   *)
(* a request already used commits and publishes nothing.                    *)
CommitOwnerReconfirmation ==
    /\ alTask.at = "confirm"
    /\ alTask' = NoTap
    /\ LET a == alTask.art
           won == alReq[a][alTask.req] = "open"
       IN  IF won
           THEN /\ alReq' = [alReq EXCEPT ![a][alTask.req] = "used"]
                /\ alRow' = [alRow EXCEPT ![a] = [NoRow EXCEPT !.status = "accepted",
                                                  !.ok = Dangling(alReg, alBase, a)]]
                /\ alProp' = [alProp EXCEPT ![a] =
                                IF @ = "approved" \/ alRow[a].legacy THEN "active" ELSE @]
                /\ alReg' = [alReg EXCEPT ![a[1]] = [ver |-> a[2], content |-> "good"]]
           ELSE UNCHANGED <<alReq, alRow, alProp, alReg>>
    /\ UNCHANGED <<alTapped, alFile, alBase>>

-----------------------------------------------------------------------------
(* Errors, crashes, and the owner's hand in the overlay directory.          *)

HandlerFails ==
    /\ alTask.at \in {"staged", "committed", "published", "marked", "confirm"}
    /\ alTask' = NoTap
    /\ UNCHANGED <<alProp, alTapped, alRow, alReq, alFile, alReg, alBase>>

AlCrash ==
    /\ alTask # Halted
    /\ alTask' = Halted
    /\ alReg' = [id \in Identities |-> NoEntry]
    /\ UNCHANGED <<alProp, alTapped, alRow, alReq, alFile, alBase>>

PlaceFile(a) ==
    /\ a \in Placed /\ alRow[a] = NoRow /\ alFile[a] = "absent"
    /\ alFile' = [alFile EXCEPT ![a] = "good"]
    /\ UNCHANGED <<alProp, alTapped, alRow, alReq, alReg, alBase, alTask>>

RemoveFile(a) ==
    /\ a \in Touched /\ alFile[a] # "absent"
    /\ alFile' = [alFile EXCEPT ![a] = "absent"]
    /\ UNCHANGED <<alProp, alTapped, alRow, alReq, alReg, alBase, alTask>>

(* The file no longer has the bytes the row's digest names. *)
EditFile(a) ==
    /\ a \in Touched /\ alFile[a] = "good" /\ alRow[a] # NoRow
    /\ alFile' = [alFile EXCEPT ![a] = "edited"]
    /\ UNCHANGED <<alProp, alTapped, alRow, alReq, alReg, alBase, alTask>>

-----------------------------------------------------------------------------
(* overlay_startup::load under base b.  The files give the candidates: the  *)
(* highest file of an identity is the one startup inspects.                 *)

Present == {a \in Learned : alFile[a] # "absent"}
Tops == {a \in Present : \A c \in Present : c[1] = a[1] => c[2] <= a[2]}

(* overlay_admission::evaluate *)
Collisions(b) == {id \in b : Versions(id) \cap Present # {}}
CollisionOrphans(b) == {a \in Tops : a[1] \in b /\ alRow[a] # NoRow}
DigestInvalid == {a \in Tops : alRow[a].status \in Trusted /\ alFile[a] = "edited"}
Missing == {a \in Tops : alRow[a] = NoRow}
StatusAt(a) == IF a \in Missing THEN "required" ELSE alRow[a].status

(* prune_non_highest_active keeps, of the files read, the highest Active    *)
(* version, and puts it back into the registry from its source if the       *)
(* digest check had just taken it out.                                      *)
Admitted == {a \in Present : a[2] = HighestActive(a[1])}

(* Mutant: only what the owner accepted is recovered. *)
RecoveredAccepted ==
    {a \in Learned \ Present : /\ alRow[a].status = "accepted"
                               /\ alProp[a] = "active" /\ a[2] = HighestActive(a[1])}

(* republish_missing_committed: files a crash left unpublished.  A version  *)
(* left Approved waits for a reconfirmation and is published to be reviewed. *)
Recovered ==
    {a \in Learned : /\ alFile[a] = "absent" /\ alRow[a].status \in Trusted
                     /\ alProp[a] = "active" /\ a[2] = HighestActive(a[1])}
ApprovedDangling ==
    {a \in Learned : /\ alRow[a].status \in Trusted
                     /\ alProp[a] = "approved" /\ a[2] > HighestActive(a[1])}
Sources == Admitted \cup Recovered
ContentAt(a) == IF a \in Recovered THEN "good" ELSE alFile[a]

Loaded(b) == {a \in Sources \ Missing : a[1] \notin Collisions(b)}

(* Mutant: one pass over the entries as they were loaded. *)
UnprovidedAtFirst(b, kept, a) == {id \in Refs[a] : id \notin b /\ \A c \in Loaded(b) : c[1] # id}

(* The convergence loop drops entries until none is left to drop: what      *)
(* stays is the largest set of entries that agrees with itself.             *)
Unprovided(b, kept, a) == {id \in Refs[a] : id \notin b /\ \A c \in kept : c[1] # id}
Captured(a) == a \in Sources \/ (a \in Placed /\ a \in Present)
Tampered(a) == ~Captured(a) \/ ContentAt(a) = "edited"
AcceptedStands(b, kept, a) == ~Tampered(a) /\ Unprovided(b, kept, a) \subseteq alRow[a].ok
Stands(b, kept, a) ==
    \/ a[1] \in b
    \/ alRow[a].status = "accepted" /\ AcceptedStands(b, kept, a)
    \/ alRow[a].status = "compatible" /\ Unprovided(b, kept, a) = {}
Kept(b) == LET loaded == Loaded(b) IN UNION {K \in SUBSET loaded : \A a \in K : Stands(b, K, a)}

OwnerAcceptedInvalid(b) ==
    LET kept == Kept(b)
    IN  {a \in Learned : alRow[a].status = "accepted" /\ ~AcceptedStands(b, kept, a)}
OrdinaryOrphans(b) == {a \in Loaded(b) \ Kept(b) : alRow[a].status # "accepted"}
OrphanedArtifacts(b) == OrdinaryOrphans(b) \cup Missing \cup OwnerAcceptedInvalid(b)
                \cup CollisionOrphans(b) \cup DigestInvalid

(* Every orphan is read again to be reviewed: one whose source was pruned   *)
(* makes the whole startup fail.                                            *)
Reviewable(a) == IF a \in Placed THEN a \in Present \cup Recovered ELSE a \in Sources
StartupSucceeds(b) == \A a \in OrphanedArtifacts(b) : Reviewable(a)

(* ensure_reconfirm_request, before mark_reconfirmation_required *)
Reviewed(b) ==
    {a \in OrphanedArtifacts(b) : Reviewable(a) /\ ContentAt(a) = "good"} \cup ApprovedDangling
RequestFor(a) ==
    IF alRow[a].req # 0 /\ alReq[a][alRow[a].req] # "used" THEN {alRow[a].req} ELSE FreshRequest(a)

StartupRows(marked, chosen) ==
    LET missing == Missing
    IN  [a \in Learned |->
            IF a \in marked
            THEN [alRow[a] EXCEPT !.status = "required", !.req = chosen[a], !.legacy = @ \/ a \in missing]
            ELSE IF a \in missing THEN [NoRow EXCEPT !.status = "required", !.legacy = TRUE]
            ELSE alRow[a]]

StartupWrites(asked, marked, chosen) ==
    /\ alRow' = StartupRows(marked, chosen)
    /\ alReq' = [a \in Learned |-> [n \in 1..MaxReconfirmations |->
                    IF a \in asked /\ n = chosen[a] THEN "open" ELSE alReq[a][n]]]
    /\ LET published == Recovered \cup ApprovedDangling
       IN  alFile' = [a \in Learned |-> IF a \in published THEN "good" ELSE alFile[a]]
    /\ UNCHANGED <<alProp, alTapped>>

RequestChoices(reviewed) ==
    {c \in [reviewed -> 1..MaxReconfirmations] : \A a \in reviewed : c[a] \in RequestFor(a)}

RegistryOf(kept) ==
    [id \in Identities |->
        IF \E a \in kept : a[1] = id
        THEN LET a == CHOOSE c \in kept : c[1] = id IN [ver |-> a[2], content |-> ContentAt(a)]
        ELSE NoEntry]

(* Mutant: an orphan is restored once the base offers its references again. *)
LoadForgiving(b) ==
    LET resolved == {a \in Loaded(b) : Refs[a] \subseteq b /\ alProp[a] = "active"}
        asked == Reviewed(b) \ resolved
    IN  /\ alTask = Halted /\ StartupSucceeds(b)
        /\ \E chosen \in RequestChoices(Reviewed(b)) :
             /\ alRow' = [a \in Learned |->
                            IF a \in resolved /\ alRow[a].status = "required"
                            THEN [NoRow EXCEPT !.status = "compatible"]
                            ELSE StartupRows(asked, chosen)[a]]
             /\ alReq' = [a \in Learned |-> [n \in 1..MaxReconfirmations |->
                             IF a \in asked /\ n = chosen[a] THEN "open" ELSE alReq[a][n]]]
        /\ alReg' = RegistryOf(Kept(b) \cup resolved)
        /\ alBase' = b
        /\ alTask' = NoTap
        /\ UNCHANGED <<alProp, alTapped, alFile>>

LoadOverlay(b) ==
    /\ alTask = Halted /\ StartupSucceeds(b)
    /\ LET reviewed == Reviewed(b)
       IN  \E chosen \in RequestChoices(reviewed) : StartupWrites(reviewed, reviewed, chosen)
    /\ alReg' = RegistryOf(Kept(b))
    /\ alBase' = b
    /\ alTask' = NoTap

(* A startup that stops after the files, between two writes of a review or  *)
(* between two reviews: what it wrote stays.                                *)
LoadOverlayStops(b) ==
    /\ alTask = Halted
    /\ LET reviewed == Reviewed(b)
       IN  \E chosen \in RequestChoices(reviewed), asked \in SUBSET reviewed :
             \E marked \in SUBSET asked :
                /\ Cardinality(asked \ marked) <= 1
                /\ StartupWrites(asked, marked, chosen)
    /\ UNCHANGED <<alReg, alBase, alTask>>

AlNext ==
    \/ \E a \in Learned :
         \/ Propose(a) \/ StageActivation(a)
         \/ PlaceFile(a) \/ RemoveFile(a) \/ EditFile(a)
         \/ \E n \in 1..MaxReconfirmations : TapReconfirm(a, n)
    \/ CommitArtifactActivation \/ PublishActivation
    \/ MarkReconfirmationRequired \/ AskReconfirmation
    \/ CommitOwnerReconfirmation
    \/ HandlerFails \/ AlCrash
    \/ \E b \in Bases : LoadOverlay(b) \/ LoadOverlayStops(b)

AlSpec == AlInit /\ [][AlNext]_alVars

-----------------------------------------------------------------------------
(* The domains of the tables, the files and the registry. *)
AlTypeOK ==
    /\ alProp \in [Learned -> {"none", "stalled", "review_required", "approved", "active"}]
    /\ alTapped \subseteq Learned
    /\ alRow \in [Learned -> [status : {"none", "compatible", "required", "accepted"},
                              req : 0..MaxReconfirmations, legacy : BOOLEAN, ok : SUBSET Identities]]
    /\ alReq \in [Learned -> [1..MaxReconfirmations -> {"unissued", "open", "used"}]]
    /\ alFile \in [Learned -> {"absent", "good", "edited"}]
    /\ alBase \in Bases
    /\ \A id \in Identities : alReg[id] = NoEntry \/ <<id, alReg[id].ver>> \in Learned

(* Whatever the owner deletes, edits or taps and wherever a handler or a
   startup stops, a version in effect has an Active proposal and a learned row
   that needs no confirmation: the registry never runs ahead of the database.
   An identity the base provides is left out: evaluate compares only the loaded
   files with the base, so a committed version whose file is missing is recovered
   and takes the base artifact's place for that boot, its row reopened or not. *)
InEffectIsBacked ==
    \A a \in InEffect : a[1] \notin alBase => alRow[a].status \in Trusted /\ alProp[a] = "active"

(* Every reference of a version in effect is provided by the base or by another
   version in effect, or is one the owner accepted as dangling: the startup loop
   drops a dependent with its dependency, under any base.  It passes over the
   identities the base provides, and so does this. *)
ReferencesResolve ==
    \A a \in InEffect : a[1] \notin alBase => Dangling(alReg, alBase, a) \subseteq alRow[a].ok

Restarted == alTask = Halted /\ alTask' # Halted

(* A version taken out of effect to be reconfirmed comes back only by the
   transaction of the owner's tap, never by a restart, however often startup
   stops half-way and whatever the base offers again. *)
RequiredWaitsForOwner ==
    [][\A a \in Learned : alRow[a].status = "required" /\ a \notin InEffect /\ a \in InEffect'
         => CommitOwnerReconfirmation]_alVars

(* A committed activation is in effect after a restart even if the crash came
   before its file was renamed into place or the file was deleted: the highest
   Active version is recovered whenever its references are provided. *)
CommittedSurvivesRestart ==
    [][Restarted =>
         \A a \in Learned :
            /\ alProp[a] = "active" /\ a[2] = HighestActive(a[1]) /\ a[1] \notin alBase'
            /\ alRow[a].status \in Trusted /\ alFile[a] # "edited"
            /\ Refs[a] \subseteq alBase' \cup {c[1] : c \in InEffect'}
            => a \in InEffect']_alVars

(* What is in effect is backed by a trusted row, and complete. *)
OverlayIsBacked == AlTypeOK /\ InEffectIsBacked /\ ReferencesResolve

(* A restart neither decides for the owner nor forgets what the owner decided. *)
OwnerDecides == RequiredWaitsForOwner /\ CommittedSurvivesRestart

(* "Activating a higher version MUST atomically replace the prior live version
   [...] and expose the same highest-only registry after restart": the kernel
   restarts on the base it ran on. *)
RestartsOnSameBase == alTask = Halted => StartupSucceeds(alBase)
=============================================================================
