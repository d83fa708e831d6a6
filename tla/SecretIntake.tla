----------------------------- MODULE SecretIntake -----------------------------
(* The owner hands the kernel a credential: `/secret intake|rotate <slot>` arms a slot,
   and the next message of the same conversation is its value. secret_intake.rs,
   secret_intake/capture.rs, secret_store.rs.

   The two slots of a Gmail credential belong together: a value that has no live
   counterpart to be validated against waits in a staging slot for it. The vault is a
   directory of files and the staging records are rows: nothing joins their writes, so
   each is a step, any of them may fail, and the kernel may die between two. Values are
   the accounts they authorize; two of them are a pair when the accounts agree. *)
EXTENDS Naturals, FiniteSets

CONSTANTS
    Accounts,    \* what a candidate value belongs to
    Talks,       \* owner surfaces
    MaxArmings,  \* bound: commands that arm a slot
    SiMaxFaults, \* bound: failed writes
    SiMaxCrashes \* bound: restarts

Gmail == {"client", "refresh"} \* gmail.client_secret and gmail.refresh_token
Slots == Gmail \cup {"bot", "other"}
Modes == {"intake", "rotate"}
Armings == 1..MaxArmings
ASSUME SecretAssumption ==
    /\ "none" \notin Accounts /\ Accounts # {}
    /\ {MaxArmings, SiMaxFaults, SiMaxCrashes} \subseteq Nat

VARIABLES
    siPending, \* the row secret.intake.pending
    siVault,   \* the live and the staged value of each slot
    siMeta,    \* the rows secret.stage.<slot>
    siBot,     \* the row telegram.bot_id: the account of the token it was read from
    siRun,     \* the capture under way
    siLog,     \* the audit rows <kind>.stored: what each slot was last said to hold
    siArmed,   \* how many commands armed a slot
    siTaken,   \* history: how many messages each arming took
    siSpent,   \* the faults and the crashes so far
    siTorn     \* history: what a crash or a failed rollback may have left apart
siStore == <<siPending, siVault, siMeta, siBot, siLog>>
siVars == <<siStore, siRun, siArmed, siTaken, siSpent, siTorn>>

NoPending == [slot |-> "none"]
NoMeta == [mode |-> "none"]
Ready == [pc |-> "idle"]
Held == Accounts \cup {"none"}
Counterpart(s) == IF s = "client" THEN "refresh" ELSE "client"
(* validate_credential_pair: the connector exchanges the two. *)
ValidPair(v, w) == v = w
Clean(m) == [m EXCEPT !.fresh = FALSE]

SiTypeOK ==
    /\ siPending # NoPending => siPending.arming \in 1..siArmed
    /\ siVault.live \in [Slots -> Held] /\ siVault.staged \in [Gmail -> Held]
    /\ \A s \in Gmail : siMeta[s] # NoMeta => siMeta[s].corr \in 1..siArmed
    /\ siBot \in Held

(* What the environment seeded: a slot may be empty, a full pair is one. *)
SiInit ==
    /\ \E live \in [Slots -> Held] :
        /\ live["other"] = "none" /\ live["bot"] # "none"
        /\ "none" \in {live["client"], live["refresh"]} \/ ValidPair(live["client"], live["refresh"])
        /\ siVault = [live |-> live, staged |-> [s \in Gmail |-> "none"]]
        /\ siLog = live /\ siBot = live["bot"]
    /\ siPending = NoPending /\ siMeta = [s \in Gmail |-> NoMeta] /\ siRun = Ready
    /\ siArmed = 0 /\ siTaken = [a \in Armings |-> 0]
    /\ siSpent = [faults |-> 0, crashes |-> 0] /\ siTorn = {}

Broken == siSpent.faults < SiMaxFaults /\ siSpent' = [siSpent EXCEPT !.faults = @ + 1]

(* arm: the pending row remembers which staging record its counterpart has now. The row
   stands before its audit; when that fails it goes, unless the deletion fails too. *)
Arm(mode, s, talk, audited, undone) ==
    /\ siRun = Ready /\ siArmed < MaxArmings /\ siArmed' = siArmed + 1
    /\ LET other == IF s \in Gmail THEN siMeta[Counterpart(s)] ELSE NoMeta
           row == [slot |-> s, mode |-> mode, talk |-> talk, fresh |-> TRUE, arming |-> siArmed',
                   corr |-> IF other = NoMeta THEN 0 ELSE other.corr]
       IN  siPending' = IF audited \/ ~undone THEN row ELSE NoPending
    /\ IF audited THEN undone /\ UNCHANGED siSpent
       ELSE Broken /\ (undone \/ siSpent.faults + 2 <= SiMaxFaults)
    /\ UNCHANGED <<siVault, siMeta, siBot, siLog, siRun, siTaken, siTorn>>

(* expires_at of the pending row, and of a staging record. *)
PendingExpires ==
    /\ siRun = Ready /\ siPending # NoPending /\ siPending.fresh /\ siPending' = Clean(siPending)
    /\ UNCHANGED <<siVault, siMeta, siBot, siRun, siLog, siArmed, siTaken, siSpent, siTorn>>
StageExpires(s) ==
    /\ siRun = Ready /\ siMeta[s] # NoMeta /\ siMeta[s].fresh
    /\ siMeta' = [siMeta EXCEPT ![s] = Clean(@)]
    /\ UNCHANGED <<siPending, siVault, siBot, siRun, siLog, siArmed, siTaken, siSpent, siTorn>>

-----------------------------------------------------------------------------
(* capture: one message, which is the value v or is refused. *)

(* An expired row, or one armed on another surface, goes with the message. *)
RefuseMessage(talk) ==
    /\ siRun = Ready /\ siPending # NoPending /\ ~(siPending.fresh /\ siPending.talk = talk)
    /\ siPending' = NoPending
    /\ UNCHANGED <<siVault, siMeta, siBot, siRun, siLog, siArmed, siTaken, siSpent, siTorn>>

(* A slip: the row waits for the value to be stored. *)
TakeMessageArmed(talk, v) ==
    /\ siRun = Ready /\ siPending # NoPending /\ siPending.fresh /\ siPending.talk = talk
    /\ siTaken' = [siTaken EXCEPT ![siPending.arming] = @ + 1]
    /\ siRun' = [pc |-> "route", slot |-> siPending.slot, mode |-> siPending.mode, value |-> v,
                 corr |-> siPending.corr, arming |-> siPending.arming,
                 was |-> [vault |-> siVault, meta |-> siMeta, bot |-> siBot]]
    /\ UNCHANGED <<siPending, siVault, siMeta, siBot, siLog, siArmed, siSpent, siTorn>>
(* The row is consumed before anything else happens to the value. *)
TakeMessage(talk, v) ==
    /\ siRun = Ready /\ siPending # NoPending /\ siPending.fresh /\ siPending.talk = talk
    /\ siPending' = NoPending
    /\ siTaken' = [siTaken EXCEPT ![siPending.arming] = @ + 1]
    /\ siRun' = [pc |-> "route", slot |-> siPending.slot, mode |-> siPending.mode, value |-> v,
                 corr |-> siPending.corr, arming |-> siPending.arming,
                 was |-> [vault |-> siVault, meta |-> siMeta, bot |-> siBot]]
    /\ UNCHANGED <<siVault, siMeta, siBot, siLog, siArmed, siSpent, siTorn>>

Own == siRun.slot
Other == Counterpart(Own)
At(pc) == siRun.pc = pc
Proceed(pc) == siRun' = [siRun EXCEPT !.pc = pc]
(* stage_meta_fresh: unexpired, of this mode, and the one the arming saw. *)
StageIsFresh ==
    /\ siMeta[Other] # NoMeta /\ siMeta[Other].fresh
    /\ siMeta[Other].mode = siRun.mode /\ siMeta[Other].corr = siRun.corr

(* A bot token is validated with the provider, which may refuse it or not answer. *)
RouteBotToken(valid) ==
    /\ At("route") /\ Own = "bot"
    /\ IF valid THEN Proceed("put") ELSE siRun' = Ready
    /\ UNCHANGED <<siStore, siArmed, siTaken, siSpent, siTorn>>
RoutePlain ==
    /\ At("route") /\ Own = "other" /\ Proceed("put")
    /\ UNCHANGED <<siStore, siArmed, siTaken, siSpent, siTorn>>

(* A fresh staged counterpart: both become live if they are a pair; otherwise, and when
   the connector is missing or fails, the capture ends and the staging stays. *)
RoutePair(answers) ==
    /\ At("route") /\ Own \in Gmail /\ siVault.staged[Other] # "none" /\ StageIsFresh
    /\ IF answers /\ ValidPair(siRun.value, siVault.staged[Other])
       THEN Proceed("promote_own") ELSE siRun' = Ready
    /\ UNCHANGED <<siStore, siArmed, siTaken, siSpent, siTorn>>

(* A stale staging is dropped: its file and its record, each as far as that works. *)
Sweeps == SUBSET {"file", "record"}
DropStage(swept) ==
    LET failed == (IF "file" \in swept THEN 0 ELSE 1) + (IF "record" \in swept THEN 0 ELSE 1)
    IN  /\ siSpent.faults + failed <= SiMaxFaults
        /\ siSpent' = [siSpent EXCEPT !.faults = @ + failed]
        /\ siVault' = IF "file" \in swept THEN [siVault EXCEPT !.staged[Other] = "none"] ELSE siVault
        /\ siMeta' = IF "record" \in swept THEN [siMeta EXCEPT ![Other] = NoMeta] ELSE siMeta
(* Then a live counterpart decides. *)
RouteAlone(answers, swept) ==
    /\ At("route") /\ Own \in Gmail /\ ~(siVault.staged[Other] # "none" /\ StageIsFresh)
    /\ IF siVault.staged[Other] = "none" THEN swept = {} /\ UNCHANGED <<siVault, siMeta, siSpent>>
       ELSE DropStage(swept)
    /\ LET live == siVault.live[Other]
           pc == IF live = "none" THEN "stage"
                 ELSE IF answers /\ ValidPair(siRun.value, live) THEN "put" ELSE "idle"
       IN  siRun' = IF pc = "idle" THEN Ready
                    ELSE [siRun EXCEPT !.pc = pc, !.was.vault = siVault', !.was.meta = siMeta']
    /\ UNCHANGED <<siPending, siBot, siLog, siArmed, siTaken, siTorn>>

(* SecretStore::put and append_audit, and the end of every branch that stores. *)
Put(next) ==
    /\ siVault' = [siVault EXCEPT !.live[Own] = siRun.value] /\ Proceed(next)
    /\ UNCHANGED <<siPending, siMeta, siBot, siLog, siArmed, siTaken, siSpent, siTorn>>
PutValue == At("put") /\ Put(IF Own = "bot" THEN "bot_id" ELSE "audit")
SetBotId ==
    /\ At("bot_id") /\ siBot' = siRun.value /\ Proceed("audit")
    /\ UNCHANGED <<siPending, siVault, siMeta, siLog, siArmed, siTaken, siSpent, siTorn>>
AuditStored ==
    /\ At("audit")
    /\ siLog' = [s \in Slots |-> IF s = Own \/ siVault.live[s] # siRun.was.vault.live[s]
                                 THEN siVault.live[s] ELSE siLog[s]]
    /\ siRun' = Ready
    /\ UNCHANGED <<siPending, siVault, siMeta, siBot, siArmed, siTaken, siSpent, siTorn>>

(* The promotion of a pair, in the order of its writes. *)
PromoteOwn == At("promote_own") /\ Put("promote_other")
PromoteOther ==
    /\ At("promote_other") /\ Proceed("unstage")
    /\ siVault' = [siVault EXCEPT !.live[Other] = siVault.staged[Other]]
    /\ UNCHANGED <<siPending, siMeta, siBot, siLog, siArmed, siTaken, siSpent, siTorn>>
Unstage ==
    /\ At("unstage") /\ Proceed("forget") /\ siVault' = [siVault EXCEPT !.staged[Other] = "none"]
    /\ UNCHANGED <<siPending, siMeta, siBot, siLog, siArmed, siTaken, siSpent, siTorn>>
ForgetStage ==
    /\ At("forget") /\ Proceed("audit") /\ siMeta' = [siMeta EXCEPT ![Other] = NoMeta]
    /\ UNCHANGED <<siPending, siVault, siBot, siLog, siArmed, siTaken, siSpent, siTorn>>

(* The value waits: its file, its record, its audit row. *)
Stage ==
    /\ At("stage") /\ Proceed("stage_meta") /\ siVault' = [siVault EXCEPT !.staged[Own] = siRun.value]
    /\ UNCHANGED <<siPending, siMeta, siBot, siLog, siArmed, siTaken, siSpent, siTorn>>
StageRecord ==
    /\ At("stage_meta") /\ Proceed("staged")
    /\ siMeta' = [siMeta EXCEPT ![Own] = [mode |-> siRun.mode, corr |-> siRun.arming, fresh |-> TRUE]]
    /\ UNCHANGED <<siPending, siVault, siBot, siLog, siArmed, siTaken, siSpent, siTorn>>
AuditStaged ==
    /\ At("staged") /\ siRun' = Ready
    /\ UNCHANGED <<siStore, siArmed, siTaken, siSpent, siTorn>>

-----------------------------------------------------------------------------
(* A write that fails. *)

(* The first write of a branch, and the staging record: the error leaves what stands. *)
FailsPlainly ==
    /\ siRun.pc \in {"put", "stage", "stage_meta"} /\ Broken /\ siRun' = Ready
    /\ UNCHANGED <<siStore, siArmed, siTaken, siTorn>>

(* rollback_secret, restore_bot_id, and the restore of a promotion: each component of the
   branch goes back on its own; those of lost do not, for a second fault or a crash. *)
Written ==
    IF siRun = Ready THEN {}
    ELSE IF Own = "bot" THEN {<<"live", Own>>, <<"bot", "id">>}
    ELSE IF Own = "other" THEN {<<"live", Own>>}
    ELSE ({"live"} \X Gmail) \cup {<<"staged", Other>>, <<"meta", Other>>}
Restored(lost, part, now, was) == [s \in DOMAIN now |-> IF <<part, s>> \in lost THEN now[s] ELSE was[s]]
RollsBack(lost) ==
    /\ siRun.pc \in {"bot_id", "promote_own", "promote_other", "unstage", "forget", "audit"}
    /\ lost = {} \/ siSpent.faults + 2 <= SiMaxFaults
    /\ Broken /\ siRun' = Ready
    /\ LET was == siRun.was
       IN  /\ siVault' = [live |-> Restored(lost, "live", siVault.live, was.vault.live),
                          staged |-> Restored(lost, "staged", siVault.staged, was.vault.staged)]
           /\ siMeta' = Restored(lost, "meta", siMeta, was.meta)
           /\ siBot' = IF <<"bot", "id">> \in lost THEN siBot ELSE was.bot
    /\ siTorn' = IF lost = {} THEN siTorn ELSE siTorn \cup {"pair", "log"}
    /\ UNCHANGED <<siPending, siLog, siArmed, siTaken>>

(* The staged value goes back, its record goes: what the record said before is gone. *)
UnstagesUnaudited(undone) ==
    /\ At("staged")
    /\ undone \/ siSpent.faults + 2 <= SiMaxFaults
    /\ Broken /\ siRun' = Ready
    /\ IF undone THEN /\ siVault' = [siVault EXCEPT !.staged[Own] = siRun.was.vault.staged[Own]]
                      /\ siMeta' = [siMeta EXCEPT ![Own] = NoMeta]
                 ELSE UNCHANGED <<siVault, siMeta>>
    /\ UNCHANGED <<siPending, siBot, siLog, siArmed, siTaken, siTorn>>

(* The kernel dies and comes back: nothing looks at what the capture left behind. *)
SiCrash ==
    /\ siSpent.crashes < SiMaxCrashes /\ siSpent' = [siSpent EXCEPT !.crashes = @ + 1]
    /\ siRun # Ready /\ siRun' = Ready
    /\ siTorn' = siTorn \cup (IF At("promote_other") THEN {"pair", "log"}
                             ELSE IF siRun.pc \in {"unstage", "forget", "bot_id", "audit"} THEN {"log"} ELSE {})
    /\ UNCHANGED <<siStore, siArmed, siTaken>>

SiNext ==
    \/ \E m \in Modes, s \in Slots, t \in Talks, audited, undone \in BOOLEAN : Arm(m, s, t, audited, undone)
    \/ PendingExpires \/ \E s \in Gmail : StageExpires(s)
    \/ \E t \in Talks : RefuseMessage(t) \/ \E v \in Accounts : TakeMessage(t, v)
    \/ \E yes \in BOOLEAN, swept \in Sweeps : RouteBotToken(yes) \/ RoutePair(yes) \/ RouteAlone(yes, swept)
    \/ RoutePlain \/ PutValue \/ SetBotId \/ AuditStored
    \/ PromoteOwn \/ PromoteOther \/ Unstage \/ ForgetStage
    \/ Stage \/ StageRecord \/ AuditStaged
    \/ FailsPlainly \/ \E lost \in SUBSET Written : RollsBack(lost)
    \/ \E undone \in BOOLEAN : UnstagesUnaudited(undone)
    \/ SiCrash
SiSpec == SiInit /\ [][SiNext]_siVars

-----------------------------------------------------------------------------
(* A connector that reads the two live slots between two captures reads a pair that was
   validated, unless a crash or a failed rollback cut a promotion in two. *)
PairIsWhole ==
    siRun = Ready /\ "pair" \notin siTorn /\ "none" \notin {siVault.live["client"], siVault.live["refresh"]}
        => ValidPair(siVault.live["client"], siVault.live["refresh"])
(* Whatever came before, what a capture is about to record as stored is a pair. *)
StoredIsAPair ==
    At("audit") /\ Own \in Gmail /\ siVault.live[Other] # "none"
        => ValidPair(siVault.live[Own], siVault.live[Other])
(* An arming takes one message, also when the kernel dies with its value in hand: the next
   message is never taken for the credential. *)
OneMessagePerArming == \A a \in Armings : siTaken[a] <= 1
(* What the vault holds is what the ledger last said was stored, and the bot id is that of
   the token: a capture that failed left no trace of its value. *)
LogIsLive ==
    siRun = Ready /\ "log" \notin siTorn => siLog = siVault.live /\ siBot = siVault.live["bot"]
(* The owner's secrets: a live pair is one that was validated, a message is taken for a
   secret once per arming, and a capture that failed left no trace. *)
SecretsAreSound == SiTypeOK /\ PairIsWhole /\ StoredIsAPair /\ OneMessagePerArming /\ LogIsLive
===============================================================================
