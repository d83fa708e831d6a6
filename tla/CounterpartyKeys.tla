--------------------------- MODULE CounterpartyKeys ---------------------------
(* The payload key of one counterparty, and its erasure: the key ring
   (counterparty_keys.rs, counterparty_keys/recovery.rs), the scoped blob store
   (artifact_store.rs, artifact_store_io.rs) and the erasure that runs through
   the signed ledger, the database and the key ring (counterparty_erasure.rs,
   store/learned_artifacts.rs), with the boot order of main.rs.

   A file system entry has a value the process sees and a value the disk is sure
   to hold; an fsync makes them equal or fails. A killed process loses its memory;
   a power loss also leaves of each entry either value. A key is the number of its
   minting and 0 an absent file; what a blob holds is the key that sealed it.
   The scope lock lets one call run at a time: ckOp is that call and where it
   stands. Legacy key and blob formats, and entries that are not regular files,
   are left out. *)
EXTENDS Naturals

CONSTANT MaxKeys            \* bound on the keys minted
ASSUME MaxKeysAssumption == MaxKeys \in Nat

VARIABLES
    ckSeen,     \* entry -> its value to the process
    ckDisk,     \* entry -> its value after a power loss, at worst
    ckClosed,   \* closed_scopes: this process refuses the scope
    ckMarker,   \* the row of erased_counterparties
    ckRow,      \* the learned artifact derived from the counterparty
    ckAudits,   \* counterparty.erased audit rows
    ckErasing,  \* an erasure is between its two holds of the lock
    ckOp,       \* the call that holds the lock
    ckKeys,     \* keys minted
    ckAcked,    \* a put of the payload returned Ok
    ckErased    \* an erasure returned Ok
ckVars == <<ckSeen, ckDisk, ckClosed, ckMarker, ckRow, ckAudits, ckErasing, ckOp,
            ckKeys, ckAcked, ckErased>>
ckDb == <<ckMarker, ckRow, ckAudits>>
ckTold == <<ckAcked, ckErased>>

KeyDir == {"key", "mark", "tomb", "tmp"}
Entries == KeyDir \cup {"blob", "ledger"}
(* Erasure steps run for an owner's call, or at boot for the database's marker and
   then for the ledger's entry. *)
Erasers == {"call", "marker", "ledger"}
PutSteps == {"resync", "mark", "temp", "link", "unalias", "sync", "clear", "blob"}
EraseSteps == {"tx", "tomb", "unlink", "sweep", "flush"}
Ops == {<<"idle">>, <<"down">>, <<"open">>} \cup ({"put"} \X PutSteps) \cup (Erasers \X EraseSteps)
Serving == ckOp[1] \in {"idle", "put", "call"}

CkInit ==
    /\ ckSeen = [e \in Entries |-> 0] /\ ckDisk = ckSeen
    /\ ckClosed = FALSE /\ ckMarker = FALSE /\ ckRow = "none" /\ ckAudits = 0
    /\ ckErasing = FALSE /\ ckOp = <<"idle">> /\ ckKeys = 0
    /\ ckAcked = FALSE /\ ckErased = FALSE

(* The entries become "seen", and those of "synced" reach the disk. *)
Leave(seen, synced) ==
    /\ ckSeen' = seen
    /\ ckDisk' = [e \in Entries |-> IF e \in synced THEN seen[e] ELSE ckDisk[e]]
(* A change of the directory whose fsync succeeds, and the call goes on at "next";
   or fails, and the call returns the error. *)
SyncedThen(seen, dir, next) ==
    \/ Leave(seen, dir) /\ ckOp' = next
    \/ Leave(seen, {}) /\ ckOp' = <<"idle">>
Failed == UNCHANGED <<ckSeen, ckDisk>> /\ ckOp' = <<"idle">>
With(e, v) == [ckSeen EXCEPT ![e] = v]
(* Mutant: the process goes on as if nothing had happened. *)
CloseNothing == UNCHANGED ckClosed
CloseScope == ckClosed' = TRUE
PutAt(step) == ckOp = <<"put", step>> /\ UNCHANGED <<ckClosed, ckDb, ckErasing>>

-------------------------------------------------------------------------------
(* Mutant: only the disk is asked. *)
ScopeOpenOnDisk == ckSeen["tomb"] = 0
(* A scope closed in memory or on the disk refuses. *)
ScopeOpen == ~ckClosed /\ ckSeen["tomb"] = 0
(* Mutant: a visible key is taken to be on the disk. *)
BeginPutTrusting ==
    /\ ckOp = <<"idle">> /\ ScopeOpen
    /\ ckOp' = <<"put", IF ckSeen["key"] = 0 THEN "mark" ELSE "blob">>
    /\ UNCHANGED <<ckSeen, ckDisk, ckClosed, ckDb, ckErasing, ckKeys, ckTold>>
(* put_scoped: a key that is there has its pending publication finished first;
   otherwise one is minted. *)
BeginPut ==
    /\ ckOp = <<"idle">> /\ ScopeOpen
    /\ ckOp' = <<"put", IF ckSeen["key"] = 0 THEN "mark"
                        ELSE IF ckSeen["mark"] = 1 THEN "resync" ELSE "blob">>
    /\ UNCHANGED <<ckSeen, ckDisk, ckClosed, ckDb, ckErasing, ckKeys, ckTold>>

(* recover_pending_key_locked: the visible key is synced before its marker goes. *)
Resync == PutAt("resync") /\ SyncedThen(ckSeen, KeyDir, <<"put", "clear">>) /\ UNCHANGED <<ckKeys, ckTold>>

(* mark_key_pending_locked *)
Mark == PutAt("mark") /\ SyncedThen(With("mark", 1), KeyDir, <<"put", "temp">>) /\ UNCHANGED <<ckKeys, ckTold>>

(* A key that was never linked: its temporary name is taken away and then its marker, if
   that works; a directory that will not sync may get the marker back. *)
Abandon ==
    /\ ckOp' = <<"idle">>
    /\ \E mark \in {0, 1}, synced \in {{}, KeyDir} :
           Leave([ckSeen EXCEPT !["mark"] = mark, !["tmp"] = 0], synced)
(* A temporary name that will not go stays, with what was written under it. A later put
   makes another; "tmp" stands for the last, as an earlier one's key was never linked. *)
Temp ==
    /\ PutAt("temp") /\ ckKeys < MaxKeys /\ UNCHANGED ckTold
    /\ \/ /\ ckKeys' = ckKeys + 1 /\ Leave(With("tmp", ckKeys + 1), {})
          /\ ckOp' \in {<<"put", "link">>, <<"idle">>}
       \/ Abandon /\ UNCHANGED ckKeys
Link ==
    /\ PutAt("link") /\ UNCHANGED <<ckKeys, ckTold>>
    /\ \/ Leave(With("key", ckSeen["tmp"]), {}) /\ ckOp' = <<"put", "unalias">>
       \/ Abandon \/ Failed
(* The temporary name goes; if it will not, the call fails and the alias stays. *)
Unalias ==
    /\ PutAt("unalias") /\ UNCHANGED <<ckKeys, ckTold>>
    /\ \/ Leave(With("tmp", 0), {}) /\ ckOp' = <<"put", "sync">>
       \/ Failed
SyncKey == PutAt("sync") /\ SyncedThen(ckSeen, KeyDir, <<"put", "clear">>) /\ UNCHANGED <<ckKeys, ckTold>>

(* clear_key_pending_locked: when the directory will not sync, the marker is planted
   again, and that may fail too. *)
Clear ==
    /\ PutAt("clear") /\ UNCHANGED <<ckKeys, ckTold>>
    /\ \/ Leave(With("mark", 0), KeyDir) /\ ckOp' = <<"put", "blob">>
       \/ Leave(With("mark", 1), KeyDir) /\ ckOp' = <<"idle">>
       \/ \E m \in {0, 1} : Leave(With("mark", m), {}) /\ ckOp' = <<"idle">>

(* A blob that is there is synced again, else it is sealed under the key. *)
Blob ==
    /\ PutAt("blob") /\ UNCHANGED <<ckKeys, ckErased>>
    /\ LET seen == IF ckSeen["blob"] = 0 THEN With("blob", ckSeen["key"]) ELSE ckSeen
       IN  SyncedThen(seen, {"blob"}, <<"idle">>)
    /\ ckAcked' = (ckAcked \/ ckDisk'["blob"] = ckSeen'["blob"])

-------------------------------------------------------------------------------
(* Mutant: a scope this process has closed is read for as long as it has a key. *)
ReadableUntilUnlinked ==
    Serving /\ ckSeen["tomb"] = 0 /\ ckSeen["key"] # 0 /\ ckSeen["blob"] = ckSeen["key"]
(* get_scoped would return the payload. *)
Readable == Serving /\ ScopeOpen /\ ckSeen["key"] # 0 /\ ckSeen["blob"] = ckSeen["key"]

(* A learned artifact derived from the counterparty is inserted: the trigger
   refuses a closed scope. *)
Learn ==
    /\ Serving /\ ckRow = "none" /\ ~ckMarker
    /\ ckRow' = "live"
    /\ UNCHANGED <<ckSeen, ckDisk, ckClosed, ckMarker, ckAudits, ckErasing, ckOp, ckKeys, ckTold>>

(* record_terminal_erasure under the lock, and the scope closed in memory once it
   returns: an id the ledger already shows is not written again. *)
Record ==
    /\ ckOp = <<"idle">>
    /\ \/ ckSeen["ledger"] = 1 /\ UNCHANGED <<ckSeen, ckDisk>> /\ CloseScope /\ ckErasing' = TRUE
       \/ ckSeen["ledger"] = 0 /\ Leave(With("ledger", 1), {"ledger"}) /\ CloseScope /\ ckErasing' = TRUE
       \/ ckSeen["ledger"] = 0 /\ Leave(With("ledger", 1), {}) /\ UNCHANGED <<ckClosed, ckErasing>>
    /\ UNCHANGED <<ckDb, ckOp, ckKeys, ckTold>>

(* The second hold of the lock. *)
BeginErase ==
    /\ ckOp = <<"idle">> /\ ckErasing
    /\ ckOp' = <<"call", "tx">> /\ ckErasing' = FALSE
    /\ UNCHANGED <<ckSeen, ckDisk, ckClosed, ckDb, ckKeys, ckTold>>

EraseAt(step) ==
    /\ ckOp[1] \in Erasers /\ ckOp[2] = step
    /\ UNCHANGED <<ckErasing, ckKeys, ckAcked>>
(* An error ends the owner's call; at boot it ends the process. *)
EraseFails == ckOp' = IF ckOp[1] = "call" THEN <<"idle">> ELSE <<"down">>
Onward(step) == ckOp' = <<ckOp[1], step>>

(* Mutant: every replay is audited. *)
AuditDueAlways == TRUE
(* Rows that became erased or a marker that is new are a fact to audit. *)
AuditDue == ckRow = "live" \/ ~ckMarker
(* mark_learned_artifacts_erased: the rows, the marker and one audit row commit
   together, and the scope is closed in memory. *)
EraseTx ==
    /\ EraseAt("tx") /\ UNCHANGED <<ckSeen, ckDisk, ckErased>>
    /\ \/ /\ ckMarker' = TRUE /\ ckRow' = (IF ckRow = "live" THEN "erased" ELSE ckRow)
          /\ ckAudits' = (IF AuditDue THEN ckAudits + 1 ELSE ckAudits)
          /\ CloseScope /\ Onward("tomb")
       \/ UNCHANGED <<ckDb, ckClosed>> /\ EraseFails
(* erase_locked: the tombstone, the key, the aliases, and the directory's fsync. *)
Remove(step, seen, next) ==
    /\ EraseAt(step) /\ UNCHANGED <<ckDb, ckClosed, ckErased>>
    /\ \/ Leave(seen, {}) /\ Onward(next)
       \/ ckSeen' \in {ckSeen, seen} /\ UNCHANGED ckDisk /\ EraseFails
Tombstone == Remove("tomb", With("tomb", 1), "unlink")
UnlinkKey == Remove("unlink", With("key", 0), "sweep")
(* Mutant: the names the key was minted under are left. *)
SweepNothing == Remove("sweep", ckSeen, "flush")
SweepAliases == Remove("sweep", With("tmp", 0), "flush")
(* Where the erasure goes when its directory is synced: back to the owner, to the
   ledger's reconciliation, or to serving. *)
AfterErase(caller) ==
    IF caller = "marker" /\ ckSeen["ledger"] = 1 THEN <<"ledger", "tx">> ELSE <<"idle">>
FlushErase ==
    /\ EraseAt("flush") /\ UNCHANGED <<ckDb>>
    /\ \/ /\ Leave(ckSeen, KeyDir) /\ ckOp' = AfterErase(ckOp[1])
          /\ ckErased' = (ckErased \/ ckOp[1] = "call")
          /\ UNCHANGED ckClosed
       \/ UNCHANGED <<ckSeen, ckDisk, ckErased, ckClosed>> /\ EraseFails

-------------------------------------------------------------------------------
LoseMemory == ckClosed' = FALSE /\ ckErasing' = FALSE /\ ckOp' = <<"down">>
(* The process dies: every entry stays as it was seen. *)
CkKill ==
    /\ ckOp # <<"down">> /\ LoseMemory
    /\ UNCHANGED <<ckSeen, ckDisk, ckDb, ckKeys, ckTold>>
(* The machine loses power: each entry is as seen or as last synced. *)
PowerLoss ==
    /\ LoseMemory
    /\ \E kept \in SUBSET {e \in Entries : ckSeen[e] # ckDisk[e]} :
         LET left == [e \in Entries |-> IF e \in kept THEN ckSeen[e] ELSE ckDisk[e]]
         IN  ckSeen' = left /\ ckDisk' = left
    /\ UNCHANGED <<ckDb, ckKeys, ckTold>>

(* CounterpartyKeyRing::open: the directory is synced. *)
OpenRing ==
    /\ ckOp = <<"down">> /\ Leave(ckSeen, KeyDir) /\ ckOp' = <<"open">>
    /\ UNCHANGED <<ckClosed, ckDb, ckErasing, ckKeys, ckTold>>
(* recover_pending_erasures, then main's replay of the marker and of the ledger. *)
Recover ==
    /\ ckOp = <<"open">>
    /\ LET gone == [ckSeen EXCEPT !["tmp"] = 0, !["key"] = IF ckSeen["tomb"] = 1 THEN 0 ELSE @]
       IN  Leave(gone, IF gone = ckSeen THEN {} ELSE KeyDir)
    /\ ckOp' = (IF ckMarker THEN <<"marker", "tomb">> ELSE AfterErase("marker"))
    /\ UNCHANGED <<ckClosed, ckDb, ckErasing, ckKeys, ckTold>>

CkNext ==
    \/ BeginPut \/ Resync \/ Mark \/ Temp \/ Link \/ Unalias \/ SyncKey \/ Clear \/ Blob
    \/ Learn \/ Record \/ BeginErase \/ EraseTx \/ Tombstone \/ UnlinkKey \/ SweepAliases
    \/ FlushErase \/ CkKill \/ PowerLoss \/ OpenRing \/ Recover
CkSpec == CkInit /\ [][CkNext]_ckVars

-------------------------------------------------------------------------------
(* Every variable has its type; an erasure is under way only in a closed scope. *)
CkTypeOK ==
    /\ \A fs \in {ckSeen, ckDisk} :
         /\ DOMAIN fs = Entries
         /\ \A e \in {"key", "tmp", "blob"} : fs[e] \in 0..MaxKeys
         /\ \A e \in {"mark", "tomb", "ledger"} : fs[e] \in {0, 1}
    /\ {ckClosed, ckMarker, ckErasing, ckAcked, ckErased} \subseteq BOOLEAN
    /\ ckRow \in {"none", "live", "erased"} /\ ckAudits \in Nat
    /\ ckOp \in Ops /\ ckKeys \in 0..MaxKeys
    /\ ckErasing => ckClosed

Recorded == ckDisk["ledger"] = 1 \/ ckMarker

(* A payload whose put returned Ok can be decrypted whatever is lost next: the blob
   and the very key that sealed it are both on the disk, until an erasure has
   been started. put_scoped syncs a visible key again before it trusts it. *)
AckedIsReadable ==
    ckAcked /\ ckSeen["ledger"] = 0 /\ ~ckMarker =>
        /\ ckDisk["key"] # 0 /\ ckDisk["blob"] = ckDisk["key"]
        /\ ckSeen["key"] = ckDisk["key"] /\ ckSeen["blob"] = ckDisk["blob"]

(* Once an erasure is in the ledger or in the database, no process that serves
   can read the payload: not the one that failed half way through the erasure,
   nor the next one, whatever a crash left of the key. *)
ErasedIsUnreadable == Recorded => ~Readable

(* When the owner has been told that a counterparty is erased, neither the key nor
   an alias of it is left, and no power loss brings one back. *)
KeyIsGone == ckErased => \A fs \in {ckSeen, ckDisk} : fs["key"] = 0 /\ fs["tmp"] = 0

(* An erasure is audited once, however often it is retried or replayed, and it
   leaves no live artifact derived from the counterparty. *)
ErasureAuditedOnce ==
    /\ ckAudits <= 1 /\ (ckErased => ckAudits = 1)
    /\ ckMarker => ckAudits = 1 /\ ckRow # "live"

(* No key is minted for a counterparty whose erasure is recorded. *)
NoKeyOnceRecorded == [][Recorded => ckKeys' = ckKeys]_ckVars

(* An erasure that was recorded is never undone and, once told, complete. *)
ErasureIsFinal ==
    [](CkTypeOK /\ ErasedIsUnreadable /\ KeyIsGone /\ ErasureAuditedOnce) /\ NoKeyOnceRecorded

(* "records the counterparty id in the authenticated terminal ledger" durably,
   before anything is erased: what the owner was told is erased is in the ledger that
   a restore of an older generation will be purged by. *)
LedgerIsDurable == ckErased => ckDisk["ledger"] = 1
================================================================================
