---------------------------- MODULE OverlayRestore ----------------------------
(* Export and restore of the data root across restarts (overlay_export_restore/):
   an owner stages one operation while the kernel serves; the next boots carry
   it out before any store is opened, reconcile the opened generation with the
   terminal-erasure ledger, audit the outcome and only then tidy up and serve
   (operation/, install.rs, bundle.rs, main.rs). A boot may be asked to roll a
   pending restore back, and may die between any two steps.

   A generation is a data root: the counterparties it holds keys of, the ones its key
   ring and its database know as erased, the owner's work in it, its audited
   operations, and whether all of its files are there. A rename and the fsync
   after it are one step. One host keeps the ledger and the bundles; the owner
   removes no bundle; signatures hold. *)
EXTENDS Naturals, FiniteSets

CONSTANTS
    Parties,        \* counterparties
    Names,          \* bundle names
    MaxRequests,    \* bound on the operations staged
    MaxWork         \* bound on the owner's work in a generation
ASSUME RestoreAssumption == MaxRequests \in Nat /\ MaxWork \in Nat

VARIABLES
    orLive, orStaged, orPrevious, orCleanup,    \* the generation at each path
    orBundles,      \* name -> the published bundle
    orLedger,       \* the ids of the signed terminal-erasure ledger
    orContinuity,   \* the ids of portable-continuity.json
    orOp,           \* the pending operation
    orAt,           \* where the process stands
    orClosed,       \* scopes closed in memory
    orRequests,     \* operations staged so far
    orBefore        \* the generation the pending restore replaces
orPaths == <<orLive, orStaged, orPrevious, orCleanup>>
orControl == <<orBundles, orLedger, orContinuity>>
orVars == <<orPaths, orControl, orOp, orAt, orClosed, orRequests, orBefore>>

None == [whole |-> FALSE, at |-> "nowhere"]
Fresh == [whole |-> TRUE, keys |-> {}, tombs |-> {}, erased |-> {}, work |-> 0, audits |-> {}]
NoOp == [stage |-> "none"]
Purge(gen, ids) == [gen EXCEPT !.keys = @ \ ids, !.tombs = @ \cup ids]
BootSteps == {"published", "staging", "copying", "copied", "swept", "install", "rollback",
              "opened", "reconciled", "finalizing", "audited"}

OrInit ==
    /\ orLive = Fresh /\ orStaged = None /\ orPrevious = None /\ orCleanup = None
    /\ orBundles = [n \in Names |-> None] /\ orLedger = {} /\ orContinuity = {}
    /\ orOp = NoOp /\ orAt = "up" /\ orClosed = {} /\ orRequests = 0 /\ orBefore = None

(* inspect_install: what the siblings that exist say of the installation. *)
InstallState ==
    LET staged == orStaged # None
        previous == orPrevious # None
        cleanup == orCleanup # None
        live == orLive # None
    IN  CASE ~staged /\ ~previous /\ ~cleanup -> "clean"
          [] staged /\ ~previous /\ ~cleanup /\ live -> "staged_only"
          [] ~staged /\ previous /\ ~cleanup /\ live -> "swapped"
          [] staged /\ previous /\ ~cleanup /\ ~live -> "previous_only"
          [] ~staged /\ ~previous /\ cleanup /\ live -> "cleanup_committed"
          [] OTHER -> "ambiguous"
(* valid_transition, for the steps this module takes. *)
ToStage(s) == orOp' = [orOp EXCEPT !.stage = s]
Pending(kind, stages) == orOp # NoOp /\ orOp.kind = kind /\ orOp.stage \in stages
Goes(from, to) == orAt = from /\ orAt' = to /\ UNCHANGED <<orClosed, orRequests>>

-------------------------------------------------------------------------------
(* What the serving kernel does to its generation. *)
Serve == orAt = "up" /\ UNCHANGED <<orStaged, orPrevious, orCleanup, orBundles, orContinuity, orAt, orBefore>>
Work ==
    /\ Serve /\ orLive.work < MaxWork
    /\ orLive' = [orLive EXCEPT !.work = @ + 1]
    /\ UNCHANGED <<orLedger, orOp, orClosed, orRequests>>
(* The first payload of a counterparty mints its key, unless its scope is closed. *)
Contact(p) ==
    /\ Serve /\ p \notin orClosed \cup orLive.tombs \cup orLive.erased \cup orLive.keys
    /\ orLive' = [orLive EXCEPT !.keys = @ \cup {p}]
    /\ UNCHANGED <<orLedger, orOp, orClosed, orRequests>>
(* erase_counterparty: the ledger and the memory, then the generation. *)
RecordErasure(p) ==
    /\ Serve /\ orLedger' = orLedger \cup {p} /\ orClosed' = orClosed \cup {p}
    /\ UNCHANGED <<orLive, orOp, orRequests>>
EraseLocally(p) ==
    /\ Serve /\ p \in orClosed
    /\ orLive' = [Purge(orLive, {p}) EXCEPT !.erased = @ \cup {p}]
    /\ UNCHANGED <<orLedger, orOp, orClosed, orRequests>>
(* stage_operation: one at a time, a new name to export, a bundle to restore. *)
StageOperation(kind, n) ==
    /\ Serve /\ orOp = NoOp /\ orRequests < MaxRequests
    /\ (kind = "export") = (orBundles[n] = None)
    /\ orRequests' = orRequests + 1
    /\ orOp' = [kind |-> kind, name |-> n, id |-> orRequests + 1, stage |-> "requested"]
    /\ UNCHANGED <<orLive, orLedger, orClosed>>

-------------------------------------------------------------------------------
(* Mutant: a staged restore is left for later. *)
OpenAtOnceStaged ==
    /\ Goes("down", "opened")
    /\ orOp = NoOp \/ orOp.stage \in {"staged", "installed", "finalizing", "rolled_back"}
    /\ UNCHANGED <<orPaths, orControl, orOp, orBefore>>
(* process_pre_open without an operation, or with one that only waits to be
   finalized. *)
OpenAtOnce ==
    /\ Goes("down", "opened")
    /\ orOp = NoOp \/ Pending("export", {"finalizing"})
       \/ Pending("restore", {"installed", "finalizing", "rolled_back"})
    /\ UNCHANGED <<orPaths, orControl, orOp, orBefore>>

(* process_export: the bundle is published once, with the ledger of that moment. *)
Publish ==
    /\ Goes("down", "published") /\ Pending("export", {"requested", "staged"})
    /\ orBundles' = (IF orBundles[orOp.name] # None THEN orBundles
                     ELSE [orBundles EXCEPT ![orOp.name] = [data |-> orLive, baseline |-> orLedger]])
    /\ UNCHANGED <<orPaths, orLedger, orContinuity, orOp, orBefore>>
MarkExported ==
    /\ Goes("published", "opened") /\ ToStage("staged")
    /\ UNCHANGED <<orPaths, orControl, orBefore>>

(* process_restore: the bundle's ledger and the host's are merged, whatever an
   earlier boot staged is removed. *)
BeginStaging ==
    /\ Goes("down", "staging") /\ Pending("restore", {"requested"})
    /\ orLedger' = orLedger \cup orBundles[orOp.name].baseline
    /\ orStaged' = None
    /\ UNCHANGED <<orLive, orPrevious, orCleanup, orBundles, orContinuity, orOp, orBefore>>
(* stage_bundle, whose copy may be interrupted. *)
CopySome ==
    /\ Goes("staging", "copying") /\ orStaged = None
    /\ orStaged' = [orBundles[orOp.name].data EXCEPT !.whole = FALSE]
    /\ UNCHANGED <<orLive, orPrevious, orCleanup, orControl, orOp, orBefore>>
CopyRest ==
    /\ Goes("copying", "copied")
    /\ orStaged' = [orStaged EXCEPT !.whole = TRUE]
    /\ UNCHANGED <<orLive, orPrevious, orCleanup, orControl, orOp, orBefore>>
(* Mutant: the bundle's own ledger is enough. *)
DeltaOfBundle == orBundles[orOp.name].baseline
(* apply_terminal_erasure_delta, with every id of the merged ledger. *)
Delta == orLedger
ApplyErasures ==
    /\ Goes("copied", "swept")
    /\ orStaged' = Purge(orStaged, Delta)
    /\ UNCHANGED <<orLive, orPrevious, orCleanup, orControl, orOp, orBefore>>
MarkStaged ==
    /\ Goes("swept", "install") /\ orContinuity' = orLedger /\ ToStage("staged")
    /\ UNCHANGED <<orPaths, orBundles, orLedger, orBefore>>

(* install_or_recover goes by the siblings it finds. *)
ResumeInstall ==
    /\ Goes("down", "install") /\ Pending("restore", {"staged"})
    /\ UNCHANGED <<orPaths, orControl, orOp, orBefore>>
MoveLiveAside ==
    /\ Goes("install", "install") /\ InstallState = "staged_only"
    /\ orPrevious' = orLive /\ orLive' = None /\ orBefore' = orLive
    /\ UNCHANGED <<orStaged, orCleanup, orControl, orOp>>
MoveStagedIn ==
    /\ Goes("install", "install") /\ InstallState = "previous_only"
    /\ orLive' = orStaged /\ orStaged' = None
    /\ UNCHANGED <<orPrevious, orCleanup, orControl, orOp, orBefore>>
(* Mutant: the stage is moved before the trees are. *)
MarkInstalledFirst ==
    /\ Goes("install", "opened") /\ InstallState \in {"staged_only", "swapped"} /\ ToStage("installed")
    /\ UNCHANGED <<orPaths, orControl, orBefore>>
MarkInstalled ==
    /\ Goes("install", "opened") /\ InstallState = "swapped" /\ ToStage("installed")
    /\ UNCHANGED <<orPaths, orControl, orBefore>>

(* --rollback-pending-restore, while the replaced generation is still there. *)
RequestRollback ==
    /\ Goes("down", "rollback") /\ Pending("restore", {"installed", "finalizing"})
    /\ InstallState \in {"swapped", "previous_only"} /\ ToStage("rollback_requested")
    /\ UNCHANGED <<orPaths, orControl, orBefore>>
ResumeRollback ==
    /\ Goes("down", "rollback") /\ Pending("restore", {"rollback_requested"})
    /\ UNCHANGED <<orPaths, orControl, orOp, orBefore>>
(* rollback_or_recover, and the continuity imported again when it is done. *)
MoveRestoredOut ==
    /\ Goes("rollback", "rollback") /\ InstallState = "swapped"
    /\ orStaged' = orLive /\ orLive' = None
    /\ UNCHANGED <<orPrevious, orCleanup, orControl, orOp, orBefore>>
MovePreviousBack ==
    /\ Goes("rollback", "rollback") /\ InstallState = "previous_only"
    /\ orLive' = orPrevious /\ orPrevious' = None
    /\ UNCHANGED <<orStaged, orCleanup, orControl, orOp, orBefore>>
(* Mutant: the restored generation may still be in place. *)
MarkRolledBackAtOnce ==
    /\ Goes("rollback", "opened") /\ InstallState \in {"swapped", "staged_only"}
    /\ ToStage("rolled_back") /\ orLedger' = orLedger \cup orContinuity
    /\ UNCHANGED <<orPaths, orBundles, orContinuity, orBefore>>
MarkRolledBack ==
    /\ Goes("rollback", "opened") /\ InstallState = "staged_only" /\ ToStage("rolled_back")
    /\ orLedger' = orLedger \cup orContinuity
    /\ UNCHANGED <<orPaths, orBundles, orContinuity, orBefore>>

-------------------------------------------------------------------------------
(* Mutant: the database is taken to know every erasure. *)
TerminalOfDatabase == orLive.erased
(* authenticated_terminal_erasures *)
Terminal == orLedger
(* The stores open; the markers of the database and the ids of the ledger are
   erased again in what was opened. *)
Reconcile ==
    /\ orAt = "opened" /\ orAt' = "reconciled" /\ orClosed' = Terminal
    /\ orLive' = [Purge(orLive, orLive.erased \cup Terminal) EXCEPT !.erased = @ \cup Terminal]
    /\ UNCHANGED <<orStaged, orPrevious, orCleanup, orControl, orOp, orRequests, orBefore>>
(* Mutant: a finalization that was cut short is taken to be audited. *)
BeginFinalizationResumed ==
    /\ Goes("reconciled", IF orOp = NoOp THEN "up"
                          ELSE IF orOp.stage = "finalizing" THEN "audited" ELSE "finalizing")
    /\ IF orOp = NoOp \/ orOp.stage = "rolled_back" THEN UNCHANGED orOp ELSE ToStage("finalizing")
    /\ UNCHANGED <<orPaths, orControl, orBefore>>
(* After the listener is bound: finalize_overlay_after_bind. *)
BeginFinalization ==
    /\ Goes("reconciled", IF orOp = NoOp THEN "up" ELSE "finalizing")
    /\ IF orOp = NoOp \/ orOp.stage = "rolled_back" THEN UNCHANGED orOp ELSE ToStage("finalizing")
    /\ UNCHANGED <<orPaths, orControl, orBefore>>
(* Mutant: the outcome is read off the siblings that are left. *)
OutcomeOfSiblings == IF InstallState = "staged_only" THEN "rolled_back" ELSE "completed"
Outcome == IF orOp.stage = "rolled_back" THEN "rolled_back" ELSE "completed"
AuditOutcome ==
    /\ Goes("finalizing", "audited")
    /\ orLive' = [orLive EXCEPT !.audits = @ \cup {<<orOp.id, "requested">>, <<orOp.id, Outcome>>}]
    /\ UNCHANGED <<orStaged, orPrevious, orCleanup, orControl, orOp, orBefore>>
(* cleanup_install: the replaced generation is renamed before its files go, so half
   a tree is never taken for a generation to go back to. *)
(* Mutant: the replaced generation goes first. *)
CommitCleanupFirst ==
    /\ Goes("finalizing", "finalizing") /\ InstallState = "swapped"
    /\ orCleanup' = orPrevious /\ orPrevious' = None
    /\ UNCHANGED <<orLive, orStaged, orControl, orOp, orBefore>>
CommitCleanup ==
    /\ Goes("audited", "audited") /\ InstallState = "swapped"
    /\ orCleanup' = orPrevious /\ orPrevious' = None
    /\ UNCHANGED <<orLive, orStaged, orControl, orOp, orBefore>>
Shrink(gen) == {None, [gen EXCEPT !.whole = FALSE]}
RemoveTree ==
    /\ Goes("audited", "audited") /\ UNCHANGED <<orLive, orPrevious, orControl, orOp, orBefore>>
    /\ \/ InstallState = "cleanup_committed" /\ orCleanup' \in Shrink(orCleanup) /\ UNCHANGED orStaged
       \/ InstallState = "staged_only" /\ orStaged' \in Shrink(orStaged) /\ UNCHANGED orCleanup
(* Mutant: the portable continuity outlives its operation. *)
ClearOperationAlone ==
    /\ Goes("audited", "up") /\ InstallState = "clean"
    /\ orOp' = NoOp /\ orBefore' = None
    /\ UNCHANGED <<orPaths, orControl>>
ClearOperation ==
    /\ Goes("audited", "up") /\ InstallState = "clean"
    /\ orContinuity' = {} /\ orOp' = NoOp /\ orBefore' = None
    /\ UNCHANGED <<orPaths, orBundles, orLedger>>

(* The process dies, or a step of the boot fails. *)
OrKill ==
    /\ orAt # "down" /\ orAt' = "down" /\ orClosed' = {}
    /\ UNCHANGED <<orPaths, orControl, orOp, orRequests, orBefore>>

OrNext ==
    \/ Work \/ \E p \in Parties : Contact(p) \/ RecordErasure(p) \/ EraseLocally(p)
    \/ \E n \in Names, kind \in {"export", "restore"} : StageOperation(kind, n)
    \/ OpenAtOnce \/ Publish \/ MarkExported \/ BeginStaging \/ CopySome \/ CopyRest
    \/ ApplyErasures \/ MarkStaged \/ ResumeInstall \/ MoveLiveAside \/ MoveStagedIn
    \/ MarkInstalled \/ RequestRollback \/ ResumeRollback \/ MoveRestoredOut
    \/ MovePreviousBack \/ MarkRolledBack \/ Reconcile \/ BeginFinalization \/ AuditOutcome
    \/ CommitCleanup \/ RemoveTree \/ ClearOperation \/ OrKill
OrSpec == OrInit /\ [][OrNext]_orVars

-------------------------------------------------------------------------------
(* Every variable has its type, and the portable continuity belongs to an operation. *)
OrTypeOK ==
    /\ \A gen \in {orLive, orStaged, orPrevious, orCleanup, orBefore} \ {None} :
         /\ gen.whole \in BOOLEAN /\ gen.work \in 0..MaxWork
         /\ gen.keys \cup gen.tombs \cup gen.erased \subseteq Parties
         /\ gen.audits \subseteq (1..MaxRequests) \X {"requested", "completed", "rolled_back"}
    /\ orLedger \cup orContinuity \cup orClosed \subseteq Parties
    /\ orOp # NoOp => orOp.name \in Names /\ orOp.id \in 1..MaxRequests
    /\ orAt \in BootSteps \cup {"down", "up"} /\ orRequests \in 0..MaxRequests
    /\ orContinuity \subseteq orLedger /\ (orOp = NoOp => orContinuity = {})

Opened == orAt \in {"opened", "reconciled", "finalizing", "audited", "up"}

(* What the ledger says is erased cannot be read by a serving kernel: not after a crash
   between the ledger and the local erasure, and not after a bundle that is older
   than the erasure, or newer than the ledger entry but exported before the local
   erasure was done, has been restored or rolled back. *)
ErasedNeverServed ==
    orAt = "up" => orLedger \cap orLive.keys \subseteq orClosed \cup orLive.erased

(* A restored generation holds no key of an erased counterparty by the time it is
   installed, whether or not a store ever gets to reconcile it. *)
NoErasedKeyInstalled ==
    Pending("restore", {"staged", "installed", "finalizing"}) =>
        LET new == IF orStaged # None THEN orStaged ELSE orLive
        IN  new.keys \cap orLedger = {}

(* No restore brings an erased counterparty back. *)
ErasureOutlivesRestore == ErasedNeverServed /\ NoErasedKeyInstalled

(* The generation a restore replaces is kept whole, in place or aside, until the
   outcome is in the audit chain that survives. *)
OldGenerationKept ==
    orBefore # None /\ orOp # NoOp /\ orOp.stage # "rolled_back" =>
        \/ orBefore \in {orLive, orPrevious}
        \/ orLive # None /\ <<orOp.id, "completed">> \in orLive.audits

(* A restore that was rolled back leaves the owner with the work, and with every key
   that is not erased, of the generation it had replaced. *)
RollbackGivesBack ==
    Pending("restore", {"rolled_back"}) =>
        orLive # None /\ orLive.whole /\ orLive.work = orBefore.work
            /\ (orBefore.keys \ orLedger) \subseteq orLive.keys

(* No store is ever opened on a missing or half copied data root. *)
OpenedIsWhole == Opened => orLive # None /\ orLive.whole

(* Whatever step the last process died at, a plain boot has a way to go on. *)
NeverStuck ==
    orAt = "down" /\ orOp # NoOp =>
        LET legal == [requested |-> {"clean", "staged_only"},
                      staged |-> IF orOp.kind = "export" THEN {"clean"}
                                 ELSE {"staged_only", "previous_only", "swapped"},
                      installed |-> {"swapped"},
                      finalizing |-> {"swapped", "cleanup_committed", "clean"},
                      rollback_requested |-> {"swapped", "previous_only", "staged_only"},
                      rolled_back |-> {"staged_only", "clean"}]
        IN  InstallState \in legal[orOp.stage]

(* An operation is over only when its request and its outcome are in the chain of
   the generation that goes on, and nothing of the other generation is left. *)
FinishedIsAudited ==
    [][orOp # NoOp /\ orOp' = NoOp =>
          /\ <<orOp.id, "requested">> \in orLive'.audits
          /\ <<orOp.id, IF orOp.stage = "rolled_back" THEN "rolled_back" ELSE "completed">> \in orLive'.audits
          /\ orStaged' = None /\ orPrevious' = None /\ orCleanup' = None]_orVars

(* No audit chain says of one operation both that it completed and that it was
   rolled back, though a restore may be rolled back after it was audited. *)
OneOutcomePerChain ==
    \A gen \in {orLive, orPrevious} \ {None}, id \in 1..MaxRequests :
        ~ {<<id, "completed">>, <<id, "rolled_back">>} \subseteq gen.audits

(* A restore or its rollback ends with a whole root, the owner's work and one audited
   outcome, wherever it was cut short. *)
RestoreLosesNothing ==
    /\ [](/\ OrTypeOK /\ OldGenerationKept /\ RollbackGivesBack
          /\ OpenedIsWhole /\ NeverStuck /\ OneOutcomePerChain)
    /\ FinishedIsAudited
================================================================================
