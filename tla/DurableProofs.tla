----------------------------- MODULE DurableProofs -----------------------------
(***************************************************************************)
(* Four protocols that go on from what a dead process, or another          *)
(* transaction, left in the rows and on the disk, for any number of keys,  *)
(* bundles, operations and reviews, wherever a kill or a lost write falls. *)
(*                                                                         *)
(* Keys: until the database has the erasure marker, the key that sealed a  *)
(* payload is on the disk or marked as pending; from then on the tombstone *)
(* keeps a new key from being made.                                        *)
(*                                                                         *)
(* Restore: the stage of the pending operation says where the generations  *)
(* of the data root may be, so a boot finds its way from the siblings; and *)
(* what an audit chain says of an operation is bounded by its stage.       *)
(*                                                                         *)
(* Review: of a review and all that was narrowed out of it, one at most    *)
(* has left the drafts without being narrowed further, and a revocation    *)
(* has ended the rule before its review is written.                        *)
(*                                                                         *)
(* Overlay: the version a handler works on is not in effect, what its      *)
(* handler read still holds, and what a startup leaves in effect agrees    *)
(* with the rows, the files and the base it was started on.                *)
(***************************************************************************)
EXTENDS CounterpartyKeys, OverlayRestore, OwnerReview, ArtifactLifecycle, Integers, FiniteSetTheorems, TLAPS

(* Counterparty keys and their erasure *)

Flags == {"mark", "tomb", "ledger"}
Dir == [Entries -> Nat]
CkTyped ==
    /\ ckSeen \in Dir /\ ckDisk \in Dir
    /\ \A e \in {"key", "tmp", "blob"} : ckSeen[e] <= MaxKeys /\ ckDisk[e] <= MaxKeys
    /\ \A e \in Flags : ckSeen[e] \in {0, 1} /\ ckDisk[e] \in {0, 1}
    /\ ckClosed \in BOOLEAN /\ ckMarker \in BOOLEAN /\ ckErasing \in BOOLEAN
    /\ ckAcked \in BOOLEAN /\ ckErased \in BOOLEAN
    /\ ckRow \in {"none", "live", "erased"} /\ ckAudits \in {0, 1}
    /\ ckOp \in Ops /\ ckKeys \in 0..MaxKeys

(* Until the database has the marker, the key that sealed the payload is on the disk or
   is marked as pending, and a blob is sealed with the key that is there. *)
KeyStands ==
    ~ckMarker =>
        /\ ckSeen["tomb"] = 0 /\ ckDisk["tomb"] = 0
        /\ ckDisk["key"] \in {0, ckSeen["key"]}
        /\ ckSeen["mark"] = 0 => ckDisk["key"] = ckSeen["key"]
        /\ ckSeen["blob"] # 0 => ckSeen["blob"] = ckSeen["key"] /\ ckDisk["key"] = ckSeen["key"]
        /\ ckDisk["blob"] \in {0, ckSeen["blob"]}
        /\ ckAcked => ckSeen["blob"] # 0 /\ ckDisk["blob"] = ckSeen["blob"]

(* A put runs in an open scope that nobody has recorded as erased. *)
PutStands ==
    \A step \in PutSteps : ckOp = <<"put", step>> =>
        /\ ScopeOpen /\ ~Recorded
        /\ step \in {"mark", "temp", "link"} => ckSeen["key"] = 0
        /\ step = "link" => ckSeen["tmp"] # 0
        /\ step \notin {"mark", "temp", "link"} => ckSeen["key"] # 0
        /\ step \in {"clear", "blob"} => ckDisk["key"] = ckSeen["key"]
        /\ step \notin {"mark", "clear", "blob"} => ckSeen["mark"] = 1

(* A serving process refuses a scope that is recorded as erased. *)
ClosedOnceRecorded == Serving /\ Recorded => ckClosed \/ ckSeen["tomb"] = 1

(* What an erasure has already done. *)
EraseStands ==
    \A c \in Erasers, step \in EraseSteps : ckOp = <<c, step>> =>
        /\ c = "call" => ckClosed
        /\ step # "tx" => ckMarker
        /\ step \in {"unlink", "sweep", "flush"} => ckSeen["tomb"] = 1
        /\ step \in {"sweep", "flush"} => ckSeen["key"] = 0
        /\ step = "flush" => ckSeen["tmp"] = 0

ToldStands ==
    ckErased => /\ ckMarker /\ ckSeen["tomb"] = 1 /\ ckDisk["tomb"] = 1
                /\ KeyIsGone
AuditsStand == ckAudits = (IF ckMarker THEN 1 ELSE 0) /\ (ckMarker => ckRow # "live")

CkInv ==
    /\ CkTyped /\ KeyStands /\ PutStands /\ ClosedOnceRecorded /\ EraseStands
    /\ ToldStands /\ AuditsStand
    /\ ckDisk["ledger"] <= ckSeen["ledger"] /\ (ckErasing => ckClosed)

------------------------------------------------------------------------------
(* The file system *)

LEMMA EntryNames ==
    /\ Entries = {"key", "mark", "tomb", "tmp", "blob", "ledger"}
    /\ KeyDir = {"key", "mark", "tomb", "tmp"} /\ KeyDir \subseteq Entries
BY DEF Entries, KeyDir

(* What a step leaves is what the process sees, and of the disk what it synced. *)
LEMMA LeaveIs ==
    ASSUME CkTyped, NEW seen \in Dir, NEW synced \in SUBSET Entries, Leave(seen, synced)
    PROVE  /\ ckSeen' = seen /\ ckDisk' \in Dir
           /\ \A e \in Entries : ckDisk'[e] = IF e \in synced THEN seen[e] ELSE ckDisk[e]
BY DEF Leave, CkTyped, Dir

(* One entry changes. *)
LEMMA WithIs ==
    ASSUME CkTyped, NEW e \in Entries, NEW v \in Nat
    PROVE  /\ With(e, v) \in Dir
           /\ \A f \in Entries : With(e, v)[f] = IF f = e THEN v ELSE ckSeen[f]
BY DEF With, CkTyped, Dir

(* A step of a put leaves the tombstone, the ledger and the database alone. *)
PutFrame ==
    /\ ckSeen' \in Dir /\ ckDisk' \in Dir
    /\ ckSeen'["tomb"] = ckSeen["tomb"] /\ ckSeen'["ledger"] = ckSeen["ledger"]
    /\ ckDisk'["tomb"] \in {ckSeen["tomb"], ckDisk["tomb"]} /\ ckDisk'["ledger"] = ckDisk["ledger"]
    /\ UNCHANGED <<ckClosed, ckDb, ckErasing, ckErased>>
    /\ ckKeys' \in 0..MaxKeys /\ ckAcked' \in BOOLEAN
    /\ ckOp' = <<"idle">> \/ \E step \in PutSteps : ckOp' = <<"put", step>>

LEMMA PutStep ==
    ASSUME CkInv, PutFrame, KeyStands',
           NEW step \in PutSteps, ckOp = <<"put", step>>,
           \A e \in {"key", "tmp", "blob"} : ckSeen'[e] <= MaxKeys /\ ckDisk'[e] <= MaxKeys,
           ckSeen'["mark"] \in {0, 1}, ckDisk'["mark"] \in {0, 1},
           ckOp' = <<"idle">> \/ PutStands'
    PROVE  CkInv'
<1>1. ScopeOpen /\ ~Recorded /\ ~ckMarker /\ ~ckErased
  BY DEF CkInv, PutStands, ToldStands, Recorded
<1>2. ckMarker' = ckMarker /\ ckRow' = ckRow /\ ckAudits' = ckAudits /\ ckClosed' = ckClosed
      /\ ckErasing' = ckErasing /\ ckErased' = ckErased /\ ~Recorded'
  BY <1>1 DEF PutFrame, ckDb, Recorded
<1>3. ckOp' \in Ops /\ (ckOp' = <<"idle">> \/ \E next \in PutSteps : ckOp' = <<"put", next>>)
  BY DEF PutFrame, Ops
<1>4. CkTyped'
  BY <1>2, <1>3 DEF CkInv, CkTyped, PutFrame, Flags
<1>5. PutStands'
  BY DEF PutStands
<1>6. EraseStands'
  BY <1>3 DEF EraseStands, Erasers
<1>. QED BY <1>1, <1>2, <1>4, <1>5, <1>6 DEF CkInv, PutFrame, ClosedOnceRecorded, ToldStands, AuditsStand

(* What is known of a put before its step. *)
LEMMA PutBefore ==
    ASSUME CkInv, NEW step \in PutSteps, PutAt(step)
    PROVE  /\ CkTyped /\ ~ckMarker /\ ckSeen["tomb"] = 0 /\ ckDisk["tomb"] = 0
           /\ UNCHANGED <<ckClosed, ckDb, ckErasing>> /\ ckMarker' = ckMarker /\ ckOp = <<"put", step>>
BY DEF CkInv, PutStands, PutAt, Recorded, KeyStands, ckDb

(* A put whose directory is synced, or not: nothing but the names of the key changed. *)
LEMMA SyncKeeps ==
    ASSUME CkInv, NEW step \in PutSteps, PutAt(step), NEW seen \in Dir, NEW next \in PutSteps,
           SyncedThen(seen, KeyDir, <<"put", next>>), UNCHANGED <<ckKeys, ckTold>>,
           \A e \in {"tomb", "ledger", "blob", "tmp", "key"} : seen[e] = ckSeen[e], seen["mark"] = 1
    PROVE  /\ PutFrame /\ KeyStands' /\ ckSeen' = seen
           /\ \A e \in {"key", "tmp", "blob"} : ckSeen'[e] <= MaxKeys /\ ckDisk'[e] <= MaxKeys
           /\ ckSeen'["mark"] \in {0, 1} /\ ckDisk'["mark"] \in {0, 1}
           /\ \/ ckOp' = <<"idle">>
              \/ ckOp' = <<"put", next>> /\ ckDisk'["key"] = ckSeen["key"]
<1>1. /\ CkTyped /\ ~ckMarker /\ ckSeen["tomb"] = 0 /\ ckDisk["tomb"] = 0 /\ ckMarker' = ckMarker
      /\ UNCHANGED <<ckClosed, ckDb, ckErasing>>
  BY PutBefore
<1>2. PICK synced \in {{}, KeyDir} : /\ Leave(seen, synced)
                                    /\ \/ ckOp' = <<"idle">>
                                       \/ ckOp' = <<"put", next>> /\ synced = KeyDir
  BY DEF SyncedThen
<1>3. /\ ckSeen' = seen /\ ckDisk' \in Dir
      /\ \A e \in Entries : ckDisk'[e] = IF e \in synced THEN seen[e] ELSE ckDisk[e]
  BY <1>1, <1>2, LeaveIs, EntryNames
<1>4. /\ ckDisk'["blob"] = ckDisk["blob"] /\ ckDisk'["ledger"] = ckDisk["ledger"]
      /\ \A e \in {"key", "tmp", "tomb", "mark"} : ckDisk'[e] = ckDisk[e] \/ ckDisk'[e] = seen[e]
      /\ synced = KeyDir => ckDisk'["key"] = seen["key"]
  BY <1>2, <1>3, EntryNames
<1>5. KeyStands'
  BY <1>1, <1>3, <1>4 DEF CkInv, KeyStands, ckTold
<1>6. PutFrame
  BY <1>1, <1>2, <1>3, <1>4 DEF PutFrame, CkTyped, ckTold
<1>. QED BY <1>1, <1>2, <1>3, <1>4, <1>5, <1>6 DEF CkTyped, Flags

LEMMA BeginPutStep == ASSUME CkInv, BeginPut PROVE CkInv'
<1>1. PICK step \in {"mark", "resync", "blob"} :
          /\ ckOp' = <<"put", step>>
          /\ step = "mark" <=> ckSeen["key"] = 0
          /\ step = "resync" => ckSeen["mark"] = 1 /\ ckSeen["key"] # 0
          /\ step = "blob" => ckSeen["mark"] # 1 /\ ckSeen["key"] # 0
  BY DEF BeginPut
<1>2. /\ UNCHANGED <<ckSeen, ckDisk, ckClosed, ckMarker, ckRow, ckAudits, ckErasing, ckKeys, ckAcked, ckErased>>
      /\ ScopeOpen /\ ckOp = <<"idle">>
  BY DEF BeginPut, ckDb, ckTold
<1>3. ~Recorded
  BY <1>2 DEF CkInv, ClosedOnceRecorded, Serving, ScopeOpen
<1>4. ckSeen["mark"] \in {0, 1}
  BY DEF CkInv, CkTyped, Flags
<1>5. step = "blob" => ckDisk["key"] = ckSeen["key"]
  BY <1>1, <1>3, <1>4 DEF CkInv, KeyStands, Recorded
<1>6. PutStands'
  <2>1. ScopeOpen' /\ ~Recorded'
    BY <1>2, <1>3 DEF ScopeOpen, Recorded
  <2>. QED BY <1>1, <1>2, <1>4, <1>5, <2>1 DEF PutStands
<1>7. CkTyped'
  BY <1>1, <1>2 DEF CkInv, CkTyped, Ops, PutSteps
<1>8. EraseStands'
  BY <1>1 DEF EraseStands, Erasers
<1>9. ClosedOnceRecorded' /\ KeyStands' /\ ToldStands' /\ AuditsStand'
  BY <1>2, <1>3 DEF CkInv, ClosedOnceRecorded, Recorded, KeyStands, ToldStands, KeyIsGone, AuditsStand
<1>. QED BY <1>2, <1>6, <1>7, <1>8, <1>9 DEF CkInv

LEMMA ResyncStep == ASSUME CkInv, Resync \/ SyncKey PROVE CkInv'
<1>1. PICK step \in {"resync", "sync"} : PutAt(step)
  BY DEF Resync, SyncKey
<1>2. SyncedThen(ckSeen, KeyDir, <<"put", "clear">>) /\ UNCHANGED <<ckKeys, ckTold>>
  BY DEF Resync, SyncKey
<1>3. step \in PutSteps /\ "clear" \in PutSteps /\ ckSeen \in Dir
  BY DEF PutSteps, CkInv, CkTyped
<1>4. ckSeen["mark"] = 1 /\ ckSeen["key"] # 0 /\ ScopeOpen /\ ~Recorded /\ ckOp = <<"put", step>>
  BY <1>1, <1>3 DEF CkInv, PutStands, PutAt
<1>5. /\ PutFrame /\ KeyStands' /\ ckSeen' = ckSeen
      /\ \A e \in {"key", "tmp", "blob"} : ckSeen'[e] <= MaxKeys /\ ckDisk'[e] <= MaxKeys
      /\ ckSeen'["mark"] \in {0, 1} /\ ckDisk'["mark"] \in {0, 1}
      /\ \/ ckOp' = <<"idle">>
         \/ ckOp' = <<"put", "clear">> /\ ckDisk'["key"] = ckSeen["key"]
  BY <1>1, <1>2, <1>3, <1>4, SyncKeeps
<1>6. ScopeOpen' /\ ~Recorded'
  BY <1>4, <1>5 DEF PutFrame, ScopeOpen, Recorded, ckDb
<1>7. ckOp' = <<"idle">> \/ PutStands'
  BY <1>4, <1>5, <1>6 DEF PutStands
<1>. QED BY <1>3, <1>4, <1>5, <1>7, PutStep

LEMMA MarkStep == ASSUME CkInv, Mark PROVE CkInv'
<1>1. PutAt("mark") /\ SyncedThen(With("mark", 1), KeyDir, <<"put", "temp">>) /\ UNCHANGED <<ckKeys, ckTold>>
  BY DEF Mark
<1>2. /\ With("mark", 1) \in Dir /\ "mark" \in PutSteps /\ "temp" \in PutSteps
      /\ \A f \in Entries : With("mark", 1)[f] = IF f = "mark" THEN 1 ELSE ckSeen[f]
  BY WithIs, EntryNames DEF CkInv, PutSteps
<1>3. ckSeen["key"] = 0 /\ ScopeOpen /\ ~Recorded /\ ckOp = <<"put", "mark">>
  BY <1>1, <1>2 DEF CkInv, PutStands, PutAt
<1> DEFINE seen == With("mark", 1)
<1>a. /\ \A e \in {"tomb", "ledger", "blob", "tmp", "key"} : seen[e] = ckSeen[e]
      /\ seen["mark"] = 1
  BY <1>2, EntryNames
<1> HIDE DEF seen
<1>5. /\ PutFrame /\ KeyStands' /\ ckSeen' = seen
      /\ \A e \in {"key", "tmp", "blob"} : ckSeen'[e] <= MaxKeys /\ ckDisk'[e] <= MaxKeys
      /\ ckSeen'["mark"] \in {0, 1} /\ ckDisk'["mark"] \in {0, 1}
      /\ \/ ckOp' = <<"idle">>
         \/ ckOp' = <<"put", "temp">> /\ ckDisk'["key"] = ckSeen["key"]
  BY <1>1, <1>2, <1>3, <1>a, SyncKeeps DEF seen
<1>6. ScopeOpen' /\ ~Recorded'
  BY <1>3, <1>5 DEF PutFrame, ScopeOpen, Recorded, ckDb
<1>7. ckOp' = <<"idle">> \/ PutStands'
  BY <1>3, <1>5, <1>a, <1>6 DEF PutStands
<1>. QED BY <1>2, <1>3, <1>5, <1>7, PutStep

(* A step of a put that changes the names of the key. *)
PutBounds ==
    /\ \A e \in {"key", "tmp", "blob"} : ckSeen'[e] <= MaxKeys /\ ckDisk'[e] <= MaxKeys
    /\ ckSeen'["mark"] \in {0, 1} /\ ckDisk'["mark"] \in {0, 1}

LEMMA PutLeaves ==
    ASSUME CkInv, NEW step \in PutSteps, PutAt(step),
           NEW seen \in Dir, NEW synced \in {{}, KeyDir}, Leave(seen, synced),
           \A e \in {"tomb", "ledger", "blob"} : seen[e] = ckSeen[e],
           seen["key"] <= MaxKeys, seen["tmp"] <= MaxKeys, seen["mark"] \in {0, 1},
           seen["key"] = ckSeen["key"] \/ ckSeen["key"] = 0,
           seen["mark"] = 0 => synced = KeyDir \/ ckDisk["key"] = seen["key"],
           ckKeys' \in 0..MaxKeys, UNCHANGED ckTold,
           ckOp' = <<"idle">> \/ \E next \in PutSteps : ckOp' = <<"put", next>>
    PROVE  /\ PutFrame /\ KeyStands' /\ PutBounds /\ ckSeen' = seen
           /\ ckDisk'["key"] = IF synced = {} THEN ckDisk["key"] ELSE seen["key"]
<1>1. /\ CkTyped /\ ~ckMarker /\ ckSeen["tomb"] = 0 /\ ckDisk["tomb"] = 0 /\ ckMarker' = ckMarker
      /\ UNCHANGED <<ckClosed, ckDb, ckErasing>>
  BY PutBefore
<1>2. /\ ckSeen' = seen /\ ckDisk' \in Dir
      /\ \A e \in Entries : ckDisk'[e] = IF e \in synced THEN seen[e] ELSE ckDisk[e]
  BY <1>1, LeaveIs, EntryNames
<1>3. /\ ckDisk'["blob"] = ckDisk["blob"] /\ ckDisk'["ledger"] = ckDisk["ledger"]
      /\ \A e \in {"key", "tmp", "tomb", "mark"} : ckDisk'[e] = IF synced = {} THEN ckDisk[e] ELSE seen[e]
  BY <1>2, EntryNames
<1>4. ckAcked' = ckAcked /\ ckErased' = ckErased
  BY DEF ckTold
<1>5. /\ ckDisk["key"] \in {0, ckSeen["key"]} /\ (ckSeen["key"] = 0 => ckSeen["blob"] = 0)
      /\ ckSeen["blob"] # 0 => ckSeen["blob"] = ckSeen["key"] /\ ckDisk["key"] = ckSeen["key"]
      /\ ckDisk["blob"] \in {0, ckSeen["blob"]}
      /\ ckAcked => ckSeen["blob"] # 0 /\ ckDisk["blob"] = ckSeen["blob"]
  BY <1>1 DEF CkInv, KeyStands
<1>6. KeyStands'
  <2>1. ckDisk'["key"] \in {0, seen["key"]} /\ (seen["mark"] = 0 => ckDisk'["key"] = seen["key"])
    <3>1. ckDisk'["key"] = (IF synced = {} THEN ckDisk["key"] ELSE seen["key"]) /\ KeyDir # {}
      BY <1>3, EntryNames
    <3>. QED BY <1>5, <3>1
  <2>2. ckSeen["blob"] # 0 => ckSeen["key"] # 0 /\ seen["key"] = ckSeen["key"] /\ ckDisk'["key"] = seen["key"]
    BY <1>3, <1>5
  <2>3. ckSeen'["tomb"] = 0 /\ ckDisk'["tomb"] = 0 /\ seen["blob"] = ckSeen["blob"]
    BY <1>1, <1>2, <1>3
  <2>. QED BY ONLY <1>2, <1>3, <1>4, <1>5, <2>1, <2>2, <2>3 DEF KeyStands
<1>7. PutFrame
  BY <1>1, <1>2, <1>3, <1>4 DEF PutFrame, CkTyped
<1>8. PutBounds
  <2>1. /\ \A e \in {"key", "tmp", "blob"} : ckSeen[e] <= MaxKeys /\ ckDisk[e] <= MaxKeys
        /\ ckSeen["mark"] \in {0, 1} /\ ckDisk["mark"] \in {0, 1}
    BY <1>1 DEF CkTyped, Flags
  <2>2. ckSeen'["mark"] \in {0, 1} /\ ckDisk'["mark"] \in {0, 1}
    BY <1>2, <1>3, <2>1
  <2>3. ASSUME NEW e \in {"key", "tmp", "blob"} PROVE ckSeen'[e] <= MaxKeys /\ ckDisk'[e] <= MaxKeys
    <3>1. seen[e] <= MaxKeys
      BY <2>1
    <3>2. ckDisk'[e] = ckDisk[e] \/ ckDisk'[e] = seen[e]
      BY <1>3
    <3>. QED BY <1>2, <2>1, <3>1, <3>2
  <2>. QED BY <2>2, <2>3 DEF PutBounds
<1>. QED BY <1>2, <1>3, <1>6, <1>7, <1>8

LEMMA AbandonStep ==
    ASSUME CkInv, NEW step \in {"temp", "link"}, PutAt(step), Abandon, UNCHANGED <<ckKeys, ckTold>>
    PROVE  CkInv'
<1>1. PICK mark \in {0, 1}, synced \in {{}, KeyDir} :
          Leave([ckSeen EXCEPT !["mark"] = mark, !["tmp"] = 0], synced) /\ ckOp' = <<"idle">>
  BY DEF Abandon
<1> DEFINE seen == [ckSeen EXCEPT !["mark"] = mark, !["tmp"] = 0]
<1>2. /\ CkTyped /\ step \in PutSteps /\ ckSeen["key"] = 0 /\ ckDisk["key"] = 0 /\ ckOp = <<"put", step>>
  BY PutBefore DEF CkInv, PutStands, PutAt, PutSteps, KeyStands
<1>3. /\ seen \in Dir /\ \A e \in {"tomb", "ledger", "blob", "key"} : seen[e] = ckSeen[e]
      /\ seen["tmp"] = 0 /\ seen["mark"] = mark
  BY <1>2, EntryNames DEF CkTyped, Dir
<1>4. seen["key"] <= MaxKeys /\ seen["tmp"] <= MaxKeys /\ ckKeys' \in 0..MaxKeys /\ Leave(seen, synced)
  BY <1>1, <1>2, <1>3 DEF CkTyped
<1> HIDE DEF seen
<1>5. seen["mark"] \in {0, 1} /\ ckDisk["key"] = seen["key"] /\ UNCHANGED ckTold
  BY <1>2, <1>3
<1>6. PutFrame /\ KeyStands' /\ PutBounds
  BY <1>1, <1>2, <1>3, <1>4, <1>5, PutLeaves
<1>. QED BY <1>1, <1>2, <1>6, PutStep DEF PutBounds

LEMMA PutGoesOn ==
    ASSUME CkInv, NEW step \in PutSteps, PutAt(step), PutFrame
    PROVE  ScopeOpen' /\ ~Recorded'
<1>1. ScopeOpen /\ ~Recorded
  BY DEF CkInv, PutStands, PutAt
<1>. QED BY <1>1 DEF PutFrame, ScopeOpen, Recorded, ckDb

LEMMA TempStep == ASSUME CkInv, Temp PROVE CkInv'
<1>1. PutAt("temp") /\ ckKeys < MaxKeys /\ UNCHANGED ckTold /\ "temp" \in PutSteps /\ "link" \in PutSteps
  BY DEF Temp, PutSteps
<1>2. CASE Abandon /\ UNCHANGED ckKeys
  BY <1>1, <1>2, AbandonStep
<1>3. CASE ckKeys' = ckKeys + 1 /\ Leave(With("tmp", ckKeys + 1), {}) /\ ckOp' \in {<<"put", "link">>, <<"idle">>}
  <2>1. CkTyped /\ ckKeys \in 0..MaxKeys /\ ckSeen["key"] = 0 /\ ckSeen["mark"] = 1 /\ ckOp = <<"put", "temp">>
    BY <1>1 DEF CkInv, CkTyped, PutStands, PutAt
  <2>2. ckKeys + 1 \in Nat /\ ckKeys' \in 0..MaxKeys /\ ckKeys + 1 <= MaxKeys /\ ckKeys + 1 # 0
    BY <1>1, <1>3, <2>1, MaxKeysAssumption
  <2>. PICK key : key = ckKeys + 1
    OBVIOUS
  <2> DEFINE seen == With("tmp", key)
  <2>3. /\ seen \in Dir /\ \A e \in {"tomb", "ledger", "blob", "key", "mark"} : seen[e] = ckSeen[e]
        /\ seen["tmp"] = key
    BY <2>1, <2>2, WithIs, EntryNames
  <2> HIDE DEF seen
  <2>4. Leave(seen, {})
    BY <1>3 DEF seen
  <2>5. seen["key"] <= MaxKeys /\ seen["tmp"] <= MaxKeys /\ seen["mark"] = 1
    BY <2>1, <2>2, <2>3, MaxKeysAssumption
  <2>6. PutFrame /\ KeyStands' /\ PutBounds /\ ckSeen' = seen
    BY <1>1, <1>3, <2>1, <2>2, <2>3, <2>4, <2>5, PutLeaves
  <2>7. ckOp' = <<"idle">> \/ PutStands'
    <3>1. ScopeOpen' /\ ~Recorded'
      BY <1>1, <2>6, PutGoesOn
    <3>. QED BY <1>3, <2>1, <2>2, <2>3, <2>6, <3>1 DEF PutStands
  <2>. QED BY <1>1, <2>1, <2>6, <2>7, PutStep DEF PutBounds
<1>. QED BY <1>2, <1>3 DEF Temp

LEMMA LinkStep == ASSUME CkInv, Link PROVE CkInv'
<1>1. PutAt("link") /\ UNCHANGED <<ckKeys, ckTold>> /\ "link" \in PutSteps /\ "unalias" \in PutSteps
  BY DEF Link, PutSteps
<1>2. CASE Abandon
  BY <1>1, <1>2, AbandonStep
<1>3. CASE Leave(With("key", ckSeen["tmp"]), {}) /\ ckOp' = <<"put", "unalias">>
  <2>1. /\ CkTyped /\ ckKeys \in 0..MaxKeys /\ ckSeen["key"] = 0 /\ ckSeen["mark"] = 1 /\ ckSeen["tmp"] # 0
        /\ ckOp = <<"put", "link">> /\ ckSeen["tmp"] \in Nat /\ ckSeen["tmp"] <= MaxKeys
    BY <1>1, EntryNames DEF CkInv, CkTyped, PutStands, PutAt, Dir
  <2>. PICK key : key = ckSeen["tmp"]
    OBVIOUS
  <2> DEFINE seen == With("key", key)
  <2>3. /\ seen \in Dir /\ \A e \in {"tomb", "ledger", "blob", "tmp", "mark"} : seen[e] = ckSeen[e]
        /\ seen["key"] = key
    BY <2>1, WithIs, EntryNames
  <2> HIDE DEF seen
  <2>4. Leave(seen, {})
    BY <1>3 DEF seen
  <2>6. PutFrame /\ KeyStands' /\ PutBounds /\ ckSeen' = seen
    BY <1>1, <1>3, <2>1, <2>3, <2>4, PutLeaves
  <2>7. PutStands'
    <3>1. ScopeOpen' /\ ~Recorded'
      BY <1>1, <2>6, PutGoesOn
    <3>. QED BY <1>3, <2>1, <2>3, <2>6, <3>1 DEF PutStands
  <2>. QED BY <1>1, <2>1, <2>6, <2>7, PutStep DEF PutBounds
<1>4. CASE Failed
  <2>1. /\ CkTyped /\ ckKeys \in 0..MaxKeys /\ ckSeen \in Dir /\ ckSeen["mark"] = 1 /\ ckOp = <<"put", "link">>
        /\ ckSeen["key"] <= MaxKeys /\ ckSeen["tmp"] <= MaxKeys
    BY <1>1 DEF CkInv, CkTyped, PutStands, PutAt
  <2>2. Leave(ckSeen, {}) /\ ckOp' = <<"idle">>
    BY <1>4, <2>1 DEF Failed, Leave, CkTyped, Dir
  <2>3. PutFrame /\ KeyStands' /\ PutBounds
    BY <1>1, <2>1, <2>2, PutLeaves
  <2>. QED BY <1>1, <2>1, <2>2, <2>3, PutStep DEF PutBounds
<1>. QED BY <1>2, <1>3, <1>4 DEF Link

LEMMA UnaliasStep == ASSUME CkInv, Unalias PROVE CkInv'
<1>1. PutAt("unalias") /\ UNCHANGED <<ckKeys, ckTold>> /\ "unalias" \in PutSteps /\ "sync" \in PutSteps
  BY DEF Unalias, PutSteps
<1>2. /\ CkTyped /\ ckKeys \in 0..MaxKeys /\ ckSeen["key"] # 0 /\ ckSeen["mark"] = 1
      /\ ckOp = <<"put", "unalias">> /\ ckSeen \in Dir /\ ckSeen["key"] <= MaxKeys /\ ckSeen["tmp"] <= MaxKeys
  BY <1>1 DEF CkInv, CkTyped, PutStands, PutAt
<1>3. With("tmp", 0) \in Dir /\ \A e \in Entries : With("tmp", 0)[e] = IF e = "tmp" THEN 0 ELSE ckSeen[e]
  BY <1>2, WithIs, EntryNames
<1>4. PICK seen \in {With("tmp", 0), ckSeen} :
         /\ Leave(seen, {}) /\ (ckOp' = <<"put", "sync">> \/ ckOp' = <<"idle">>)
  <2>1. CASE Failed
    <3>1. Leave(ckSeen, {})
      BY <1>2, <2>1 DEF Failed, Leave, CkTyped, Dir
    <3>. QED BY <2>1, <3>1 DEF Failed
  <2>. QED BY <2>1 DEF Unalias
<1>5. /\ seen \in Dir /\ \A e \in {"tomb", "ledger", "blob", "key", "mark"} : seen[e] = ckSeen[e]
      /\ seen["tmp"] <= MaxKeys
  BY <1>2, <1>3, <1>4, EntryNames, MaxKeysAssumption
<1>6. PutFrame /\ KeyStands' /\ PutBounds /\ ckSeen' = seen
  BY <1>1, <1>2, <1>4, <1>5, PutLeaves
<1>7. ckOp' = <<"idle">> \/ PutStands'
  <2>1. ScopeOpen' /\ ~Recorded'
    BY <1>1, <1>6, PutGoesOn
  <2>. QED BY <1>2, <1>4, <1>5, <1>6, <2>1 DEF PutStands
<1>. QED BY <1>1, <1>2, <1>6, <1>7, PutStep DEF PutBounds

LEMMA ClearStep == ASSUME CkInv, Clear PROVE CkInv'
<1>1. PutAt("clear") /\ UNCHANGED <<ckKeys, ckTold>> /\ "clear" \in PutSteps /\ "blob" \in PutSteps
  BY DEF Clear, PutSteps
<1>2. /\ CkTyped /\ ckKeys \in 0..MaxKeys /\ ckSeen["key"] # 0 /\ ckDisk["key"] = ckSeen["key"]
      /\ ckOp = <<"put", "clear">> /\ ckSeen \in Dir /\ ckSeen["key"] <= MaxKeys /\ ckSeen["tmp"] <= MaxKeys
  BY <1>1 DEF CkInv, CkTyped, PutStands, PutAt
<1>3. PICK m \in {0, 1}, synced \in {{}, KeyDir} :
         /\ Leave(With("mark", m), synced)
         /\ ckOp' = <<"idle">> \/ ckOp' = <<"put", "blob">>
  BY DEF Clear
<1> DEFINE seen == With("mark", m)
<1>4. /\ seen \in Dir /\ \A e \in {"tomb", "ledger", "blob", "key", "tmp"} : seen[e] = ckSeen[e]
      /\ seen["mark"] = m
  BY <1>2, <1>3, WithIs, EntryNames
<1> HIDE DEF seen
<1>5. Leave(seen, synced)
  BY <1>3 DEF seen
<1>6. /\ PutFrame /\ KeyStands' /\ PutBounds /\ ckSeen' = seen
      /\ ckDisk'["key"] = IF synced = {} THEN ckDisk["key"] ELSE seen["key"]
  <2>1. seen["key"] <= MaxKeys /\ seen["tmp"] <= MaxKeys /\ seen["mark"] \in {0, 1} /\ UNCHANGED ckTold
        /\ ckKeys' \in 0..MaxKeys /\ ckDisk["key"] = seen["key"] /\ seen["key"] = ckSeen["key"]
    BY <1>1, <1>2, <1>3, <1>4
  <2>. QED BY <1>1, <1>3, <1>4, <1>5, <2>1, PutLeaves
<1>7. ckOp' = <<"idle">> \/ PutStands'
  <2>1. ScopeOpen' /\ ~Recorded'
    BY <1>1, <1>6, PutGoesOn
  <2>2. ckSeen'["key"] # 0 /\ ckDisk'["key"] = ckSeen'["key"]
    BY <1>2, <1>4, <1>6
  <2>. QED BY <1>3, <2>1, <2>2 DEF PutStands
<1>. QED BY <1>1, <1>2, <1>6, <1>7, PutStep DEF PutBounds

LEMMA BlobStep == ASSUME CkInv, Blob PROVE CkInv'
<1>1. PutAt("blob") /\ "blob" \in PutSteps
  BY DEF Blob, PutSteps
<1>2. /\ CkTyped /\ ckSeen["key"] # 0 /\ ckDisk["key"] = ckSeen["key"]
      /\ ckOp = <<"put", "blob">> /\ ckSeen \in Dir /\ ckSeen["key"] <= MaxKeys /\ ckSeen["key"] \in Nat
  BY <1>1, EntryNames DEF CkInv, CkTyped, PutStands, PutAt, Dir
<1>a. /\ ~ckMarker /\ ckSeen["tomb"] = 0 /\ ckDisk["tomb"] = 0 /\ ckMarker' = ckMarker
      /\ UNCHANGED <<ckClosed, ckDb, ckErasing>>
  BY <1>1, PutBefore
<1>b. /\ ckSeen["blob"] # 0 => ckSeen["blob"] = ckSeen["key"]
      /\ ckDisk["blob"] \in {0, ckSeen["blob"]}
      /\ ckAcked => ckSeen["blob"] # 0 /\ ckDisk["blob"] = ckSeen["blob"]
  BY <1>a DEF CkInv, KeyStands
<1>3. PICK seen \in {With("blob", ckSeen["key"]), ckSeen}, synced \in {{}, {"blob"}} :
         /\ seen = IF ckSeen["blob"] = 0 THEN With("blob", ckSeen["key"]) ELSE ckSeen
         /\ Leave(seen, synced) /\ ckOp' = <<"idle">>
  BY DEF Blob, SyncedThen
<1>4. With("blob", ckSeen["key"]) \in Dir
      /\ \A e \in Entries : With("blob", ckSeen["key"])[e] = IF e = "blob" THEN ckSeen["key"] ELSE ckSeen[e]
  BY <1>2, WithIs, EntryNames
<1>5. /\ seen \in Dir /\ seen["blob"] = ckSeen["key"]
      /\ \A e \in {"tomb", "ledger", "mark", "key", "tmp"} : seen[e] = ckSeen[e]
  BY <1>2, <1>b, <1>3, <1>4, EntryNames
<1>6. /\ ckSeen' = seen /\ ckDisk' \in Dir
      /\ \A e \in Entries : ckDisk'[e] = IF e \in synced THEN seen[e] ELSE ckDisk[e]
  BY <1>2, <1>3, <1>5, LeaveIs, EntryNames
<1>7. /\ \A e \in {"tomb", "ledger", "mark", "key", "tmp"} : ckDisk'[e] = ckDisk[e]
      /\ ckDisk'["blob"] = ckDisk["blob"] \/ ckDisk'["blob"] = ckSeen["key"]
  BY <1>3, <1>5, <1>6, EntryNames
<1>8. /\ ckAcked' = (ckAcked \/ ckDisk'["blob"] = ckSeen'["blob"]) /\ ckAcked' \in BOOLEAN
      /\ ckKeys' = ckKeys /\ ckErased' = ckErased
  BY <1>2 DEF Blob, CkTyped
<1>9. KeyStands'
  <2>1. ckDisk'["blob"] \in {0, ckSeen["key"]} /\ (ckAcked' => ckDisk'["blob"] = ckSeen["key"])
    BY <1>2, <1>b, <1>5, <1>6, <1>7, <1>8
  <2>2. /\ ckSeen'["tomb"] = 0 /\ ckDisk'["tomb"] = 0 /\ ckDisk'["key"] = ckSeen'["key"]
        /\ ckSeen'["key"] = ckSeen["key"] /\ ckSeen'["blob"] = ckSeen["key"]
    BY <1>2, <1>a, <1>5, <1>6, <1>7
  <2>. QED BY ONLY <1>2, <2>1, <2>2 DEF KeyStands
<1>10. PutFrame
  BY <1>2, <1>a, <1>3, <1>5, <1>6, <1>7, <1>8 DEF PutFrame, CkTyped
<1>11. PutBounds
  <2>1. /\ \A e \in {"key", "tmp", "blob"} : ckSeen[e] <= MaxKeys /\ ckDisk[e] <= MaxKeys
        /\ ckSeen["mark"] \in {0, 1} /\ ckDisk["mark"] \in {0, 1}
    BY <1>2 DEF CkTyped, Flags
  <2>2. /\ ckSeen'["key"] <= MaxKeys /\ ckSeen'["tmp"] <= MaxKeys /\ ckSeen'["blob"] <= MaxKeys
        /\ ckDisk'["key"] <= MaxKeys /\ ckDisk'["tmp"] <= MaxKeys /\ ckDisk'["blob"] <= MaxKeys
    BY <1>5, <1>6, <1>7, <2>1
  <2>. QED BY <1>5, <1>6, <1>7, <2>1, <2>2 DEF PutBounds
<1>. QED BY <1>1, <1>2, <1>3, <1>9, <1>10, <1>11, PutStep DEF PutBounds

------------------------------------------------------------------------------
(* The steps of an erasure *)

LEMMA LearnStep == ASSUME CkInv, Learn PROVE CkInv'
<1>1. /\ UNCHANGED <<ckSeen, ckDisk, ckClosed, ckMarker, ckAudits, ckErasing, ckOp, ckKeys, ckAcked, ckErased>>
      /\ ~ckMarker /\ ckRow' = "live"
  BY DEF Learn, ckTold
<1>2. CkTyped'
  BY <1>1 DEF CkInv, CkTyped
<1>3. KeyStands' /\ PutStands' /\ ClosedOnceRecorded' /\ EraseStands' /\ ToldStands' /\ AuditsStand'
  BY <1>1 DEF CkInv, KeyStands, PutStands, ScopeOpen, Recorded, ClosedOnceRecorded, Serving, EraseStands,
              ToldStands, KeyIsGone, AuditsStand
<1>. QED BY <1>1, <1>2, <1>3 DEF CkInv

(* Nothing but the ledger entry changes in the file system. *)
LEMMA RecordStep == ASSUME CkInv, Record PROVE CkInv'
<1>1. /\ ckOp = <<"idle">> /\ CkTyped
      /\ UNCHANGED <<ckMarker, ckRow, ckAudits, ckOp, ckKeys, ckAcked, ckErased>>
  BY DEF Record, ckDb, ckTold, CkInv
<1>2. /\ With("ledger", 1) \in Dir /\ ckSeen \in Dir
      /\ \A e \in Entries : With("ledger", 1)[e] = IF e = "ledger" THEN 1 ELSE ckSeen[e]
  BY <1>1, WithIs, EntryNames DEF CkTyped
<1>3. /\ ckSeen' \in Dir /\ ckDisk' \in Dir
      /\ \A e \in {"key", "mark", "tomb", "tmp", "blob"} : ckSeen'[e] = ckSeen[e] /\ ckDisk'[e] = ckDisk[e]
      /\ ckSeen'["ledger"] = 1 /\ (ckDisk'["ledger"] = ckDisk["ledger"] \/ ckDisk'["ledger"] = 1)
      /\ \/ ckClosed' = TRUE /\ ckErasing' = TRUE
         \/ ckDisk'["ledger"] = ckDisk["ledger"] /\ UNCHANGED <<ckClosed, ckErasing>>
  <2>1. CASE ckSeen["ledger"] = 1 /\ UNCHANGED <<ckSeen, ckDisk>> /\ CloseScope /\ ckErasing' = TRUE
    BY <1>1, <2>1 DEF CloseScope, CkTyped
  <2>2. CASE Leave(With("ledger", 1), {"ledger"}) /\ CloseScope /\ ckErasing' = TRUE
    <3>1. /\ ckSeen' = With("ledger", 1) /\ ckDisk' \in Dir
          /\ \A e \in Entries : ckDisk'[e] = IF e \in {"ledger"} THEN With("ledger", 1)[e] ELSE ckDisk[e]
      BY <1>1, <1>2, <2>2, LeaveIs, EntryNames
    <3>. QED BY <1>2, <2>2, <3>1, EntryNames DEF CloseScope
  <2>3. CASE Leave(With("ledger", 1), {}) /\ UNCHANGED <<ckClosed, ckErasing>>
    <3>1. /\ ckSeen' = With("ledger", 1) /\ ckDisk' \in Dir
          /\ \A e \in Entries : ckDisk'[e] = ckDisk[e]
      BY <1>1, <1>2, <2>3, LeaveIs, EntryNames
    <3>. QED BY <1>2, <2>3, <3>1, EntryNames
  <2>. QED BY <2>1, <2>2, <2>3 DEF Record
<1>4. CkTyped'
  <2>1. \A e \in {"key", "tmp", "blob"} : ckSeen'[e] <= MaxKeys /\ ckDisk'[e] <= MaxKeys
    BY <1>1, <1>3 DEF CkTyped
  <2>2. \A e \in Flags : ckSeen'[e] \in {0, 1} /\ ckDisk'[e] \in {0, 1}
    BY <1>1, <1>3 DEF CkTyped, Flags
  <2>. QED BY <1>1, <1>3, <2>1, <2>2 DEF CkTyped
<1>5. KeyStands' /\ ToldStands' /\ AuditsStand'
  BY <1>1, <1>3 DEF CkInv, KeyStands, ToldStands, KeyIsGone, AuditsStand
<1>6. PutStands' /\ EraseStands'
  BY <1>1 DEF PutStands, EraseStands, Erasers
<1>7. ClosedOnceRecorded'
  BY <1>1, <1>3 DEF CkInv, ClosedOnceRecorded, Serving, Recorded
<1>8. ckDisk'["ledger"] <= ckSeen'["ledger"] /\ (ckErasing' => ckClosed')
  BY <1>1, <1>3 DEF CkInv, CkTyped, Flags
<1>. QED BY <1>4, <1>5, <1>6, <1>7, <1>8 DEF CkInv

LEMMA BeginEraseStep == ASSUME CkInv, BeginErase PROVE CkInv'
<1>1. /\ UNCHANGED <<ckSeen, ckDisk, ckClosed, ckMarker, ckRow, ckAudits, ckKeys, ckAcked, ckErased>>
      /\ ckClosed /\ ckOp' = <<"call", "tx">> /\ ckErasing' = FALSE
  BY DEF BeginErase, ckDb, ckTold, CkInv
<1>2. CkTyped'
  BY <1>1 DEF CkInv, CkTyped, Ops, Erasers, EraseSteps
<1>3. PutStands' /\ EraseStands'
  BY <1>1 DEF PutStands, EraseStands
<1>4. KeyStands' /\ ClosedOnceRecorded' /\ ToldStands' /\ AuditsStand'
  BY <1>1 DEF CkInv, KeyStands, ClosedOnceRecorded, ToldStands, KeyIsGone, AuditsStand
<1>. QED BY <1>1, <1>2, <1>3, <1>4 DEF CkInv

(* A call that erases, and where it goes. *)
LEMMA EraseBefore ==
    ASSUME CkInv, NEW step \in EraseSteps, EraseAt(step)
    PROVE  \E c \in Erasers :
              /\ ckOp = <<c, step>> /\ ckOp[1] = c /\ UNCHANGED <<ckErasing, ckKeys, ckAcked>>
              /\ c = "call" => ckClosed
              /\ step # "tx" => ckMarker
              /\ step \in {"unlink", "sweep", "flush"} => ckSeen["tomb"] = 1
              /\ step \in {"sweep", "flush"} => ckSeen["key"] = 0
              /\ step = "flush" => ckSeen["tmp"] = 0
<1>1. ckOp \in Ops /\ ckOp[1] \in Erasers /\ ckOp[2] = step /\ UNCHANGED <<ckErasing, ckKeys, ckAcked>>
  BY DEF EraseAt, CkInv, CkTyped
<1>2. PICK c \in Erasers : ckOp = <<c, step>>
  BY <1>1 DEF Ops, Erasers
<1>. QED BY <1>1, <1>2 DEF CkInv, EraseStands

LEMMA EraseTxStep == ASSUME CkInv, EraseTx PROVE CkInv'
<1>1. EraseAt("tx") /\ "tx" \in EraseSteps /\ "tomb" \in EraseSteps /\ UNCHANGED <<ckSeen, ckDisk, ckErased>>
  BY DEF EraseTx, EraseSteps
<1>2. PICK c \in Erasers : /\ ckOp[1] = c /\ UNCHANGED <<ckErasing, ckKeys, ckAcked>>
                           /\ c = "call" => ckClosed
  BY <1>1, EraseBefore
<1>3. CASE /\ ckMarker' = TRUE /\ ckRow' = (IF ckRow = "live" THEN "erased" ELSE ckRow)
           /\ ckAudits' = (IF AuditDue THEN ckAudits + 1 ELSE ckAudits)
           /\ CloseScope /\ Onward("tomb")
  <2>1. ckClosed' = TRUE /\ ckOp' = <<c, "tomb">> /\ ckOp' \in Ops
    BY <1>1, <1>2, <1>3 DEF CloseScope, Onward, Ops
  <2>2. ckAudits' = 1 /\ ckRow' \in {"none", "erased"}
    BY <1>3 DEF CkInv, CkTyped, AuditsStand, AuditDue
  <2>3. CkTyped'
    BY <1>1, <1>2, <1>3, <2>1, <2>2 DEF CkInv, CkTyped
  <2>4. KeyStands' /\ ClosedOnceRecorded' /\ AuditsStand' /\ ToldStands'
    BY <1>1, <1>3, <2>1, <2>2 DEF CkInv, KeyStands, ClosedOnceRecorded, AuditsStand, ToldStands, KeyIsGone
  <2>5. PutStands' /\ EraseStands'
    BY <1>3, <2>1 DEF PutStands, EraseStands, Erasers
  <2>. QED BY <1>1, <1>2, <2>1, <2>3, <2>4, <2>5 DEF CkInv
<1>4. CASE UNCHANGED <<ckDb, ckClosed>> /\ EraseFails
  <2>1. /\ UNCHANGED <<ckMarker, ckRow, ckAudits, ckClosed>>
        /\ (ckOp' = <<"idle">> /\ ckClosed) \/ ckOp' = <<"down">>
    BY <1>2, <1>4 DEF EraseFails, ckDb
  <2>2. CkTyped'
    BY <1>1, <1>2, <2>1 DEF CkInv, CkTyped, Ops
  <2>3. KeyStands' /\ AuditsStand' /\ ToldStands'
    BY <1>1, <1>2, <2>1 DEF CkInv, KeyStands, AuditsStand, ToldStands, KeyIsGone
  <2>4. PutStands' /\ EraseStands' /\ ClosedOnceRecorded'
    BY <2>1 DEF PutStands, EraseStands, Erasers, ClosedOnceRecorded, Serving
  <2>. QED BY <1>1, <1>2, <2>1, <2>2, <2>3, <2>4 DEF CkInv
<1>. QED BY <1>3, <1>4 DEF EraseTx

(* The tombstone, the key and the aliases: seen at once, on the disk later or never. *)
LEMMA RemoveStep ==
    ASSUME CkInv, NEW step \in {"tomb", "unlink", "sweep"}, NEW e \in {"tomb", "key", "tmp"},
           NEW v \in {0, 1}, NEW next \in EraseSteps, Remove(step, With(e, v), next),
           e = "tomb" <=> v = 1,
           \/ step = "tomb" /\ e = "tomb" /\ next = "unlink"
           \/ step = "unlink" /\ e = "key" /\ next = "sweep"
           \/ step = "sweep" /\ e = "tmp" /\ next = "flush"
    PROVE  CkInv'
<1>1. /\ EraseAt(step) /\ step \in EraseSteps /\ CkTyped
      /\ UNCHANGED <<ckMarker, ckRow, ckAudits, ckClosed, ckErased>>
  BY DEF Remove, EraseSteps, ckDb, CkInv
<1>2. PICK c \in Erasers :
        /\ ckOp = <<c, step>> /\ ckOp[1] = c /\ UNCHANGED <<ckErasing, ckKeys, ckAcked>>
        /\ c = "call" => ckClosed
        /\ ckMarker
        /\ step \in {"unlink", "sweep"} => ckSeen["tomb"] = 1
        /\ step = "sweep" => ckSeen["key"] = 0
  BY <1>1, EraseBefore
<1>. PICK seen : seen = With(e, v)
  OBVIOUS
<1>3. seen \in Dir /\ \A f \in Entries : seen[f] = IF f = e THEN v ELSE ckSeen[f]
  BY <1>1, WithIs, EntryNames
<1>4. /\ ckSeen' \in {ckSeen, seen} /\ ckDisk' = ckDisk
      /\ \/ ckOp' = <<c, next>> /\ ckSeen' = seen
         \/ ckOp' = <<"idle">> /\ ckClosed
         \/ ckOp' = <<"down">>
  <2>1. CASE Leave(seen, {}) /\ Onward(next)
    BY <1>1, <1>2, <2>1 DEF Leave, Onward, CkTyped, Dir
  <2>2. CASE ckSeen' \in {ckSeen, seen} /\ UNCHANGED ckDisk /\ EraseFails
    BY <1>2, <2>2 DEF EraseFails
  <2>. QED BY <2>1, <2>2 DEF Remove
<1>5. /\ ckSeen' \in Dir /\ \A f \in Entries \ {e} : ckSeen'[f] = ckSeen[f]
      /\ ckSeen'[e] \in {ckSeen[e], v}
  BY <1>1, <1>3, <1>4, EntryNames DEF CkTyped
<1>6. CkTyped'
  <2>1. \A f \in {"key", "tmp", "blob"} : ckSeen'[f] <= MaxKeys
    BY <1>1, <1>5, EntryNames, MaxKeysAssumption DEF CkTyped
  <2>2. \A f \in Flags : ckSeen'[f] \in {0, 1}
    BY <1>1, <1>5, EntryNames DEF CkTyped, Flags
  <2>3. ckOp' \in Ops
    BY <1>4 DEF Ops
  <2>. QED BY <1>1, <1>2, <1>4, <1>5, <2>1, <2>2, <2>3 DEF CkTyped
<1>7. KeyStands' /\ AuditsStand'
  BY <1>1, <1>2 DEF CkInv, KeyStands, AuditsStand
<1>8. ToldStands'
  <2>1. ckErased' => /\ ckMarker' /\ ckDisk'["tomb"] = 1 /\ ckDisk'["key"] = 0 /\ ckDisk'["tmp"] = 0
                     /\ ckSeen["tomb"] = 1 /\ ckSeen["key"] = 0 /\ ckSeen["tmp"] = 0
    BY <1>1, <1>2, <1>4 DEF CkInv, ToldStands, KeyIsGone
  <2>2. ckErased' => ckSeen'["tomb"] = 1 /\ ckSeen'["key"] = 0 /\ ckSeen'["tmp"] = 0
    BY <1>5, <2>1, EntryNames
  <2>. QED BY <2>1, <2>2 DEF ToldStands, KeyIsGone
<1>9. PutStands' /\ ClosedOnceRecorded'
  BY <1>1, <1>2, <1>4 DEF PutStands, ClosedOnceRecorded, Serving, Erasers
<1>10. EraseStands'
  <2>1. ckOp' = <<c, next>> =>
          /\ ckSeen' = seen /\ seen["tomb"] = 1
          /\ next \in {"sweep", "flush"} => seen["key"] = 0
          /\ next = "flush" => seen["tmp"] = 0
    BY <1>2, <1>3, <1>4, EntryNames
  <2>. QED BY <1>1, <1>2, <1>4, <2>1 DEF EraseStands, Erasers
<1>11. ckDisk'["ledger"] <= ckSeen'["ledger"] /\ (ckErasing' => ckClosed')
  BY <1>1, <1>2, <1>4, <1>5, EntryNames DEF CkInv
<1>. QED BY <1>6, <1>7, <1>8, <1>9, <1>10, <1>11 DEF CkInv

LEMMA FlushStep == ASSUME CkInv, FlushErase PROVE CkInv'
<1>1. /\ EraseAt("flush") /\ "flush" \in EraseSteps /\ CkTyped /\ UNCHANGED <<ckMarker, ckRow, ckAudits>>
  BY DEF FlushErase, EraseSteps, ckDb, CkInv
<1>2. PICK c \in Erasers :
        /\ ckOp = <<c, "flush">> /\ ckOp[1] = c /\ UNCHANGED <<ckErasing, ckKeys, ckAcked>>
        /\ c = "call" => ckClosed
        /\ ckMarker /\ ckSeen["tomb"] = 1 /\ ckSeen["key"] = 0 /\ ckSeen["tmp"] = 0
  BY <1>1, EraseBefore
<1>3. CASE /\ Leave(ckSeen, KeyDir) /\ ckOp' = AfterErase(c)
           /\ ckErased' = (ckErased \/ c = "call") /\ UNCHANGED ckClosed
  <2>1. /\ ckSeen' = ckSeen /\ ckDisk' \in Dir
        /\ \A e \in Entries : ckDisk'[e] = IF e \in KeyDir THEN ckSeen[e] ELSE ckDisk[e]
    BY <1>1, <1>3, LeaveIs, EntryNames DEF CkTyped
  <2>2. /\ \A e \in {"key", "mark", "tomb", "tmp"} : ckDisk'[e] = ckSeen[e]
        /\ \A e \in {"blob", "ledger"} : ckDisk'[e] = ckDisk[e]
    BY <2>1, EntryNames
  <2>3. ckOp' = <<"idle">> \/ ckOp' = <<"ledger", "tx">>
    BY <1>3 DEF AfterErase
  <2>4. CkTyped'
    <3>1. ckOp' \in Ops
      BY <2>3 DEF Ops, Erasers, EraseSteps
    <3>2. \A e \in {"key", "tmp", "blob"} : ckSeen'[e] <= MaxKeys /\ ckDisk'[e] <= MaxKeys
      BY <1>1, <2>1, <2>2 DEF CkTyped
    <3>3. \A e \in Flags : ckSeen'[e] \in {0, 1} /\ ckDisk'[e] \in {0, 1}
      BY <1>1, <2>1, <2>2 DEF CkTyped, Flags
    <3>4. ckErased' \in BOOLEAN
      BY <1>1, <1>3 DEF CkTyped
    <3>. QED BY <1>1, <1>2, <1>3, <2>1, <3>1, <3>2, <3>3, <3>4 DEF CkTyped
  <2>5. KeyStands' /\ AuditsStand'
    BY <1>1, <1>2 DEF CkInv, KeyStands, AuditsStand
  <2>6. ToldStands'
    BY <1>1, <1>2, <2>1, <2>2 DEF ToldStands, KeyIsGone
  <2>7. PutStands' /\ EraseStands' /\ ClosedOnceRecorded'
    BY <1>2, <2>1, <2>3 DEF PutStands, EraseStands, ClosedOnceRecorded
  <2>. QED BY <1>2, <1>3, <2>1, <2>2, <2>4, <2>5, <2>6, <2>7 DEF CkInv
<1>4. CASE UNCHANGED <<ckSeen, ckDisk, ckErased, ckClosed>> /\ EraseFails
  <2>1. (ckOp' = <<"idle">> /\ ckClosed) \/ ckOp' = <<"down">>
    BY <1>2, <1>4 DEF EraseFails
  <2>2. CkTyped'
    BY <1>1, <1>2, <1>4, <2>1 DEF CkTyped, Ops
  <2>3. KeyStands' /\ AuditsStand' /\ ToldStands'
    BY <1>1, <1>2, <1>4 DEF CkInv, KeyStands, AuditsStand, ToldStands, KeyIsGone
  <2>4. PutStands' /\ EraseStands' /\ ClosedOnceRecorded'
    BY <1>4, <2>1 DEF PutStands, EraseStands, Erasers, ClosedOnceRecorded, Serving
  <2>. QED BY <1>2, <1>4, <2>2, <2>3, <2>4 DEF CkInv
<1>. QED BY <1>2, <1>3, <1>4 DEF FlushErase

------------------------------------------------------------------------------
(* Dying and starting again *)

LEMMA KillStep == ASSUME CkInv, CkKill PROVE CkInv'
<1>1. /\ UNCHANGED <<ckSeen, ckDisk, ckMarker, ckRow, ckAudits, ckKeys, ckAcked, ckErased>>
      /\ ckClosed' = FALSE /\ ckErasing' = FALSE /\ ckOp' = <<"down">>
  BY DEF CkKill, LoseMemory, ckDb, ckTold
<1>2. CkTyped'
  BY <1>1 DEF CkInv, CkTyped, Ops
<1>3. KeyStands' /\ AuditsStand' /\ ToldStands'
  BY <1>1 DEF CkInv, KeyStands, AuditsStand, ToldStands, KeyIsGone
<1>4. PutStands' /\ EraseStands' /\ ClosedOnceRecorded'
  BY <1>1 DEF PutStands, EraseStands, Erasers, ClosedOnceRecorded, Serving
<1>. QED BY <1>1, <1>2, <1>3, <1>4 DEF CkInv

(* Of an entry that was not synced either value is left. *)
LEMMA PowerLossStep == ASSUME CkInv, PowerLoss PROVE CkInv'
<1>1. /\ UNCHANGED <<ckMarker, ckRow, ckAudits, ckKeys, ckAcked, ckErased>> /\ CkTyped
      /\ ckClosed' = FALSE /\ ckErasing' = FALSE /\ ckOp' = <<"down">>
  BY DEF PowerLoss, LoseMemory, ckDb, ckTold, CkInv
<1>2. PICK kept \in SUBSET Entries :
        ckSeen' = [e \in Entries |-> IF e \in kept THEN ckSeen[e] ELSE ckDisk[e]] /\ ckDisk' = ckSeen'
  BY DEF PowerLoss
<1>3. /\ ckSeen' \in Dir /\ ckDisk' = ckSeen'
      /\ \A e \in Entries : ckSeen'[e] = ckSeen[e] \/ ckSeen'[e] = ckDisk[e]
  BY <1>1, <1>2 DEF CkTyped, Dir
<1>4. \A e \in {"key", "mark", "tomb", "tmp", "blob", "ledger"} : ckSeen'[e] = ckSeen[e] \/ ckSeen'[e] = ckDisk[e]
  BY <1>3, EntryNames
<1>5. CkTyped'
  <2>1. \A e \in {"key", "tmp", "blob"} : ckSeen'[e] <= MaxKeys
    BY <1>1, <1>4 DEF CkTyped
  <2>2. \A e \in Flags : ckSeen'[e] \in {0, 1}
    BY <1>1, <1>4 DEF CkTyped, Flags
  <2>. QED BY <1>1, <1>3, <2>1, <2>2 DEF CkTyped, Ops
<1>6. KeyStands'
  <2>1. SUFFICES ASSUME ~ckMarker PROVE KeyStands'
    BY <1>1 DEF KeyStands
  <2>2. /\ ckSeen["tomb"] = 0 /\ ckDisk["tomb"] = 0
        /\ ckSeen["blob"] # 0 => ckSeen["blob"] = ckSeen["key"] /\ ckDisk["key"] = ckSeen["key"]
        /\ ckDisk["blob"] \in {0, ckSeen["blob"]}
        /\ ckAcked => ckSeen["blob"] # 0 /\ ckDisk["blob"] = ckSeen["blob"]
    BY <2>1 DEF CkInv, KeyStands
  <2>3. ckSeen'["tomb"] = 0 /\ (ckSeen'["blob"] # 0 => ckSeen'["blob"] = ckSeen'["key"])
    BY <1>4, <2>2
  <2>4. ckAcked' => ckSeen'["blob"] # 0
    BY <1>1, <1>4, <2>2
  <2>. QED BY <1>3, <2>3, <2>4 DEF KeyStands
<1>7. ToldStands'
  <2>1. ckErased' => /\ ckMarker' /\ ckSeen'["tomb"] = 1 /\ ckSeen'["key"] = 0 /\ ckSeen'["tmp"] = 0
    BY <1>1, <1>4 DEF CkInv, ToldStands, KeyIsGone
  <2>. QED BY <1>3, <2>1 DEF ToldStands, KeyIsGone
<1>8. AuditsStand' /\ PutStands' /\ EraseStands' /\ ClosedOnceRecorded'
  BY <1>1 DEF CkInv, AuditsStand, PutStands, EraseStands, Erasers, ClosedOnceRecorded, Serving
<1>9. ckDisk'["ledger"] <= ckSeen'["ledger"]
  BY <1>3, <1>5 DEF CkTyped, Flags
<1>. QED BY <1>1, <1>5, <1>6, <1>7, <1>8, <1>9 DEF CkInv

LEMMA OpenRingStep == ASSUME CkInv, OpenRing PROVE CkInv'
<1>1. /\ UNCHANGED <<ckClosed, ckMarker, ckRow, ckAudits, ckErasing, ckKeys, ckAcked, ckErased>> /\ CkTyped
      /\ Leave(ckSeen, KeyDir) /\ ckOp' = <<"open">>
  BY DEF OpenRing, ckDb, ckTold, CkInv
<1>2. /\ ckSeen' = ckSeen /\ ckDisk' \in Dir
      /\ \A e \in Entries : ckDisk'[e] = IF e \in KeyDir THEN ckSeen[e] ELSE ckDisk[e]
  BY <1>1, LeaveIs, EntryNames DEF CkTyped
<1>3. /\ \A e \in {"key", "mark", "tomb", "tmp"} : ckDisk'[e] = ckSeen[e]
      /\ \A e \in {"blob", "ledger"} : ckDisk'[e] = ckDisk[e]
  BY <1>2, EntryNames
<1>4. CkTyped'
  <2>1. \A e \in {"key", "tmp", "blob"} : ckSeen'[e] <= MaxKeys /\ ckDisk'[e] <= MaxKeys
    BY <1>1, <1>2, <1>3 DEF CkTyped
  <2>2. \A e \in Flags : ckSeen'[e] \in {0, 1} /\ ckDisk'[e] \in {0, 1}
    BY <1>1, <1>2, <1>3 DEF CkTyped, Flags
  <2>. QED BY <1>1, <1>2, <2>1, <2>2 DEF CkTyped, Ops
<1>5. KeyStands' /\ ToldStands' /\ AuditsStand'
  BY <1>1, <1>2, <1>3 DEF CkInv, KeyStands, ToldStands, KeyIsGone, AuditsStand
<1>6. PutStands' /\ EraseStands' /\ ClosedOnceRecorded'
  BY <1>1 DEF PutStands, EraseStands, Erasers, ClosedOnceRecorded, Serving
<1>. QED BY <1>1, <1>2, <1>3, <1>4, <1>5, <1>6 DEF CkInv

LEMMA RecoverStep == ASSUME CkInv, Recover PROVE CkInv'
<1>1. /\ UNCHANGED <<ckClosed, ckMarker, ckRow, ckAudits, ckErasing, ckKeys, ckAcked, ckErased>> /\ CkTyped
  BY DEF Recover, ckDb, ckTold, CkInv
<1>0. PICK gone :
        /\ gone = [ckSeen EXCEPT !["tmp"] = 0, !["key"] = IF ckSeen["tomb"] = 1 THEN 0 ELSE @]
        /\ Leave(gone, IF gone = ckSeen THEN {} ELSE KeyDir)
  BY Zenon DEF Recover
<1>2. PICK synced \in {{}, KeyDir} : (synced = {} => gone = ckSeen) /\ Leave(gone, synced)
  <2>1. CASE gone = ckSeen
    BY <1>0, <2>1
  <2>2. CASE gone # ckSeen
    BY <1>0, <2>2, EntryNames
  <2>. QED BY <2>1, <2>2
<1>3. /\ gone \in Dir /\ \A e \in {"mark", "tomb", "blob", "ledger"} : gone[e] = ckSeen[e]
      /\ gone["tmp"] = 0 /\ gone["key"] = IF ckSeen["tomb"] = 1 THEN 0 ELSE ckSeen["key"]
  BY <1>1, <1>0, EntryNames DEF CkTyped, Dir
<1>4. /\ ckSeen' = gone /\ ckDisk' \in Dir
      /\ \A e \in Entries : ckDisk'[e] = IF e \in synced THEN gone[e] ELSE ckDisk[e]
  BY <1>1, <1>2, <1>3, LeaveIs, EntryNames
<1>5. /\ \A e \in {"blob", "ledger"} : ckDisk'[e] = ckDisk[e]
      /\ \/ \A e \in {"key", "mark", "tomb", "tmp"} : ckDisk'[e] = gone[e]
         \/ gone = ckSeen /\ \A e \in {"key", "mark", "tomb", "tmp"} : ckDisk'[e] = ckDisk[e]
  BY <1>2, <1>4, EntryNames
<1>6. /\ ckMarker => ckOp' = <<"marker", "tomb">>
      /\ ~ckMarker => ckOp' = IF gone["ledger"] = 1 THEN <<"ledger", "tx">> ELSE <<"idle">>
  BY <1>3 DEF Recover, AfterErase
<1>7. CkTyped'
  <2>1. \A e \in {"key", "tmp", "blob"} : gone[e] <= MaxKeys
    BY <1>1, <1>3, MaxKeysAssumption DEF CkTyped
  <2>2. \A e \in {"key", "tmp", "blob"} : ckDisk'[e] <= MaxKeys
    BY <1>1, <1>5, <2>1 DEF CkTyped
  <2>3. \A e \in Flags : gone[e] \in {0, 1}
    BY <1>1, <1>3 DEF CkTyped, Flags
  <2>4. \A e \in Flags : ckDisk'[e] \in {0, 1}
    BY <1>1, <1>5, <2>3 DEF CkTyped, Flags
  <2>5. ckOp' \in Ops
    BY <1>6 DEF Ops, Erasers, EraseSteps
  <2>. QED BY <1>1, <1>3, <1>4, <2>1, <2>2, <2>3, <2>4, <2>5 DEF CkTyped
<1>8. KeyStands'
  <2>1. SUFFICES ASSUME ~ckMarker PROVE KeyStands'
    BY <1>1 DEF KeyStands
  <2>2. /\ ckSeen["tomb"] = 0 /\ ckDisk["tomb"] = 0
        /\ ckDisk["key"] \in {0, ckSeen["key"]}
        /\ ckSeen["mark"] = 0 => ckDisk["key"] = ckSeen["key"]
        /\ ckSeen["blob"] # 0 => ckSeen["blob"] = ckSeen["key"] /\ ckDisk["key"] = ckSeen["key"]
        /\ ckDisk["blob"] \in {0, ckSeen["blob"]}
        /\ ckAcked => ckSeen["blob"] # 0 /\ ckDisk["blob"] = ckSeen["blob"]
    BY <2>1 DEF CkInv, KeyStands
  <2>3. gone["key"] = ckSeen["key"] /\ ckDisk'["tomb"] = 0
        /\ (ckDisk'["key"] = ckDisk["key"] \/ ckDisk'["key"] = ckSeen["key"])
    BY <1>3, <1>5, <2>2
  <2>. QED BY <1>1, <1>3, <1>4, <1>5, <2>2, <2>3 DEF KeyStands
<1>9. ToldStands'
  BY <1>1, <1>3, <1>4, <1>5 DEF CkInv, ToldStands, KeyIsGone
<1>10. PutStands' /\ EraseStands' /\ AuditsStand'
  BY <1>1, <1>6 DEF CkInv, PutStands, EraseStands, Erasers, AuditsStand
<1>11. ClosedOnceRecorded'
  BY <1>1, <1>3, <1>4, <1>5, <1>6 DEF CkInv, CkTyped, Flags, ClosedOnceRecorded, Serving, Recorded
<1>12. ckDisk'["ledger"] <= ckSeen'["ledger"] /\ (ckErasing' => ckClosed')
  BY <1>1, <1>3, <1>4, <1>5 DEF CkInv
<1>. QED BY <1>7, <1>8, <1>9, <1>10, <1>11, <1>12 DEF CkInv

------------------------------------------------------------------------------
(* The theorems *)

LEMMA CkInitHolds == CkInit => CkInv
<1> SUFFICES ASSUME CkInit PROVE CkInv
  OBVIOUS
<1>1. /\ ckSeen \in Dir /\ ckDisk \in Dir
      /\ \A e \in Entries : ckSeen[e] = 0 /\ ckDisk[e] = 0
  BY DEF CkInit, Dir
<1>2. CkTyped
  <2>1. ckOp \in Ops /\ ckKeys \in 0..MaxKeys
    BY MaxKeysAssumption DEF CkInit, Ops
  <2>2. \A e \in {"key", "tmp", "blob"} : ckSeen[e] <= MaxKeys /\ ckDisk[e] <= MaxKeys
    BY <1>1, EntryNames, MaxKeysAssumption
  <2>3. \A e \in Flags : ckSeen[e] \in {0, 1} /\ ckDisk[e] \in {0, 1}
    BY <1>1, EntryNames DEF Flags
  <2>. QED BY <1>1, <2>1, <2>2, <2>3 DEF CkInit, CkTyped
<1>3. KeyStands /\ PutStands /\ ClosedOnceRecorded /\ EraseStands /\ ToldStands /\ AuditsStand
  BY <1>1, EntryNames DEF CkInit, KeyStands, PutStands, ClosedOnceRecorded, Serving, Recorded, EraseStands, Erasers,
                     ToldStands, AuditsStand
<1>. QED BY <1>1, <1>2, <1>3, EntryNames DEF CkInit, CkInv

LEMMA CkStepHolds == CkInv /\ [CkNext]_ckVars => CkInv'
<1> SUFFICES ASSUME CkInv, [CkNext]_ckVars PROVE CkInv'
  OBVIOUS
<1>1. CASE UNCHANGED ckVars
  BY <1>1 DEF CkInv, ckVars, ckDb, ckTold, CkTyped, KeyStands, PutStands, ScopeOpen, ClosedOnceRecorded, Serving,
              Recorded, EraseStands, ToldStands, KeyIsGone, AuditsStand
<1>2. CASE Tombstone \/ UnlinkKey \/ SweepAliases
  BY <1>2, RemoveStep DEF Tombstone, UnlinkKey, SweepAliases, EraseSteps
<1>. QED BY <1>1, <1>2, BeginPutStep, ResyncStep, MarkStep, TempStep, LinkStep, UnaliasStep, ClearStep, BlobStep,
            LearnStep, RecordStep, BeginEraseStep, EraseTxStep, FlushStep, KillStep, PowerLossStep, OpenRingStep,
            RecoverStep DEF CkNext

LEMMA CkInvIsEnough == CkInv => AckedIsReadable /\ CkTypeOK /\ ErasedIsUnreadable /\ KeyIsGone /\ ErasureAuditedOnce
<1> SUFFICES ASSUME CkInv
             PROVE  AckedIsReadable /\ CkTypeOK /\ ErasedIsUnreadable /\ KeyIsGone /\ ErasureAuditedOnce
  OBVIOUS
<1>1. AckedIsReadable
  BY DEF CkInv, AckedIsReadable, KeyStands
<1>2. CkTypeOK
  <2>1. ASSUME NEW fs \in {ckSeen, ckDisk}
        PROVE  /\ DOMAIN fs = Entries
               /\ \A e \in {"key", "tmp", "blob"} : fs[e] \in 0..MaxKeys
               /\ \A e \in {"mark", "tomb", "ledger"} : fs[e] \in {0, 1}
    BY EntryNames, MaxKeysAssumption DEF CkInv, CkTyped, Dir, Flags
  <2>. QED BY <2>1 DEF CkInv, CkTyped, CkTypeOK
<1>3. ErasedIsUnreadable
  BY DEF CkInv, ErasedIsUnreadable, ClosedOnceRecorded, Readable, ScopeOpen
<1>4. KeyIsGone
  BY DEF CkInv, ToldStands, KeyIsGone
<1>5. ErasureAuditedOnce
  BY DEF CkInv, ToldStands, AuditsStand, ErasureAuditedOnce
<1>. QED BY <1>1, <1>2, <1>3, <1>4, <1>5

(* A put that returned Ok (put_scoped) can be read whatever is lost next: its blob and
   the key that sealed it are on the disk, until an erasure begins. *)
THEOREM PutsOutliveCrashes == CkSpec => []AckedIsReadable
BY CkInitHolds, CkStepHolds, CkInvIsEnough, PTL DEF CkSpec

(* An erasure recorded in the ledger or in the database (erase_counterparty and the
   boot's replay) is never read around, never undone, audited once, and mints no key. *)
THEOREM ErasuresAreFinal == CkSpec => ErasureIsFinal
<1>1. ASSUME CkInv, [CkNext]_ckVars PROVE [Recorded => ckKeys' = ckKeys]_ckVars
  <2>1. SUFFICES ASSUME CkNext, Recorded PROVE ckKeys' = ckKeys
    BY <1>1
  <2>2. CASE Temp
    BY <1>1, <2>1, <2>2 DEF CkInv, PutStands, Temp, PutAt, PutSteps
  <2>. QED BY <2>1, <2>2 DEF CkNext, BeginPut, Resync, Mark, Link, Unalias, SyncKey, Clear, Blob, Learn, Record,
                BeginErase, EraseTx, Tombstone, UnlinkKey, SweepAliases, Remove, EraseAt, FlushErase, CkKill,
                PowerLoss, OpenRing, Recover
<1>. QED BY <1>1, CkInitHolds, CkStepHolds, CkInvIsEnough, PTL DEF CkSpec, ErasureIsFinal, NoKeyOnceRecorded

--------------------------------------------------------------------------------
(* Export, restore and rollback of the data root *)

Outcomes == {"requested", "completed", "rolled_back"}
Gen == [whole : BOOLEAN, keys : SUBSET Parties, tombs : SUBSET Parties, erased : SUBSET Parties,
        work : 0..MaxWork, audits : SUBSET ((1..MaxRequests) \X Outcomes)]
Bundle == [data : Gen, baseline : SUBSET Parties]
Stages == {"requested", "staged", "installed", "finalizing", "rollback_requested", "rolled_back"}
Op == [kind : {"export", "restore"}, name : Names, id : 1..MaxRequests, stage : Stages]
OrTyped ==
    /\ orLive \in Gen \cup {None} /\ orStaged \in Gen \cup {None} /\ orPrevious \in Gen \cup {None}
    /\ orCleanup \in Gen \cup {None} /\ orBefore \in Gen \cup {None}
    /\ orBundles \in [Names -> Bundle \cup {None}]
    /\ orLedger \subseteq Parties /\ orContinuity \subseteq orLedger /\ orClosed \subseteq Parties
    /\ orOp \in Op \cup {NoOp} /\ (orOp = NoOp => orContinuity = {})
    /\ orAt \in BootSteps \cup {"down", "up"} /\ orRequests \in 0..MaxRequests
    /\ orOp # NoOp => orOp.id = orRequests

(* Where the generations are, as the siblings of the data root. *)
Whole(gen) == gen # None /\ gen.whole
PreviousKept == Whole(orPrevious) /\ orPrevious = orBefore
Alone == Whole(orLive) /\ orStaged = None /\ orPrevious = None /\ orCleanup = None
InPlace == Whole(orLive) /\ Whole(orStaged) /\ orPrevious = None /\ orCleanup = None
Aside == orLive = None /\ Whole(orStaged) /\ PreviousKept /\ orCleanup = None
Swapped == Whole(orLive) /\ orStaged = None /\ PreviousKept /\ orCleanup = None

(* Where they may be, by the stage of the operation, and where the process then is. *)
Layout ==
    /\ orOp = NoOp => Alone /\ orBefore = None /\ orAt \in {"up", "down", "opened", "reconciled"}
    /\ Pending("export", Stages) =>
         /\ Alone /\ orBefore = None
         /\ \/ orOp.stage = "requested" /\ orAt \in {"up", "down", "published"}
            \/ orOp.stage = "staged" /\ orAt \in {"down", "published", "opened", "reconciled"}
            \/ orOp.stage = "finalizing"
                 /\ orAt \in {"down", "opened", "reconciled", "finalizing", "audited"}
    /\ Pending("restore", {"requested"}) =>
         /\ Whole(orLive) /\ orPrevious = None /\ orCleanup = None /\ orBefore = None
         /\ orBundles[orOp.name] # None
         /\ orAt \in {"up", "down", "staging", "copying", "copied", "swept"}
         /\ orAt \in {"copying", "copied", "swept"} => orStaged # None
         /\ orAt \in {"copied", "swept"} => orStaged.whole
    /\ Pending("restore", {"staged"}) =>
         /\ orAt \in {"down", "install"}
         /\ (InPlace /\ orBefore = None) \/ Aside \/ Swapped
    /\ Pending("restore", {"installed"}) => Swapped /\ orAt \in {"down", "opened", "reconciled"}
    /\ Pending("restore", {"finalizing"}) =>
         /\ orAt \in {"down", "opened", "reconciled", "finalizing", "audited"}
         /\ \/ Swapped
            \/ /\ Whole(orLive) /\ orStaged = None /\ orPrevious = None
               /\ <<orOp.id, "completed">> \in orLive.audits
    /\ Pending("restore", {"rollback_requested"}) =>
         /\ orAt \in {"down", "rollback"}
         /\ Aside \/ Swapped \/ (InPlace /\ orLive = orBefore)
    /\ Pending("restore", {"rolled_back"}) =>
         /\ orAt \in {"down", "opened", "reconciled", "finalizing", "audited"}
         /\ Whole(orLive) /\ orPrevious = None /\ orCleanup = None
         /\ orLive.work = orBefore.work /\ (orBefore.keys \ orLedger) \subseteq orLive.keys

(* What comes out of a bundle has no key of an erased counterparty. *)
Swept(gen) == gen.keys \cap orLedger = {}
SweptStands ==
    /\ Pending("restore", {"requested"}) /\ orAt = "swept" => Swept(orStaged)
    /\ Pending("restore", {"staged", "installed", "finalizing"}) =>
         IF orStaged # None THEN Swept(orStaged) ELSE Swept(orLive)

(* No chain has two outcomes, nor one of an operation still to come; those of the
   generations that wait, nor one of the operation under way. *)
OneOutcome(gen) == \A id \in 1..MaxRequests :
                     <<id, "completed">> \notin gen.audits \/ <<id, "rolled_back">> \notin gen.audits
Upto(gen, n) == \A id \in 1..MaxRequests, o \in Outcomes : <<id, o>> \in gen.audits => id <= n
Chain(gen) == OneOutcome(gen) /\ Upto(gen, orRequests)
Unaudited(gen) == Chain(gen) /\ (orOp # NoOp => Upto(gen, orRequests - 1))
ChainStands ==
    /\ orLive # None => Chain(orLive)
    /\ orPrevious # None => Unaudited(orPrevious)
    /\ orStaged # None => Chain(orStaged)
    /\ \A n \in Names : orBundles[n] # None => Unaudited(orBundles[n].data)
OutcomeStands ==
    /\ orOp # NoOp /\ orOp.stage \in {"requested", "staged", "installed"} =>
         (orLive # None => Unaudited(orLive)) /\ (orStaged # None => Unaudited(orStaged))
    /\ orOp # NoOp /\ orOp.stage = "finalizing" => <<orOp.id, "rolled_back">> \notin orLive.audits
    /\ Pending("restore", {"rollback_requested"}) /\ orPrevious = None => Unaudited(orLive)
    /\ Pending("restore", {"rolled_back"}) => <<orOp.id, "completed">> \notin orLive.audits
    /\ orAt = "audited" => <<orOp.id, "requested">> \in orLive.audits /\ <<orOp.id, Outcome>> \in orLive.audits

(* No generation holds a key it knows as erased. *)
Split(gen) == gen.keys \cap gen.erased = {}
SplitStands ==
    /\ orLive # None => Split(orLive)
    /\ orStaged # None => Split(orStaged)
    /\ orPrevious # None => Split(orPrevious)
    /\ \A n \in Names : orBundles[n] # None => Split(orBundles[n].data)

(* Once reconciled, the memory has every scope of the ledger closed. *)
ClosedStands == orAt \in {"reconciled", "finalizing", "audited", "up"} => orLedger \subseteq orClosed

OrInv == /\ OrTyped /\ Layout /\ SweptStands /\ ChainStands /\ OutcomeStands
         /\ SplitStands /\ ClosedStands

(* None is no generation and no bundle, and no operation is the missing one. *)
LEMMA NoneApart == None \notin Gen /\ None \notin Bundle /\ NoOp \notin Op
<1>1. NoOp \notin Op
  BY DEF NoOp, Op, Stages
<1>2. None \notin Gen
  <2>1. \A g \in Gen : DOMAIN g = {"whole", "keys", "tombs", "erased", "work", "audits"}
    BY DEF Gen
  <2>2. "keys" \notin DOMAIN None
    BY DEF None
  <2>. QED BY <2>1, <2>2
<1>3. None \notin Bundle
  <2>1. \A b \in Bundle : DOMAIN b = {"data", "baseline"}
    BY DEF Bundle
  <2>2. "data" \notin DOMAIN None
    BY DEF None
  <2>. QED BY <2>1, <2>2
<1>. QED BY <1>1, <1>2, <1>3

(* What inspect_install makes of the siblings. *)
LEMMA Siblings ==
    /\ InstallState = "clean" => orStaged = None /\ orPrevious = None /\ orCleanup = None
    /\ InstallState = "staged_only" =>
         orStaged # None /\ orPrevious = None /\ orCleanup = None /\ orLive # None
    /\ InstallState = "swapped" =>
         orStaged = None /\ orPrevious # None /\ orCleanup = None /\ orLive # None
    /\ InstallState = "previous_only" =>
         orStaged # None /\ orPrevious # None /\ orCleanup = None /\ orLive = None
    /\ InstallState = "cleanup_committed" =>
         orStaged = None /\ orPrevious = None /\ orCleanup # None /\ orLive # None
BY DEF InstallState
LEMMA SiblingsKnown ==
    /\ orStaged = None /\ orPrevious = None /\ orCleanup = None => InstallState = "clean"
    /\ orStaged # None /\ orPrevious = None /\ orCleanup = None /\ orLive # None =>
         InstallState = "staged_only"
    /\ orStaged = None /\ orPrevious # None /\ orCleanup = None /\ orLive # None =>
         InstallState = "swapped"
    /\ orStaged # None /\ orPrevious # None /\ orCleanup = None /\ orLive = None =>
         InstallState = "previous_only"
    /\ orStaged = None /\ orPrevious = None /\ orCleanup # None /\ orLive # None =>
         InstallState = "cleanup_committed"
BY DEF InstallState

(* A change of stage leaves the rest of the operation. *)
LEMMA StageMoves ==
    ASSUME orOp \in Op, NEW s \in Stages, ToStage(s)
    PROVE  /\ orOp' \in Op /\ orOp' # NoOp /\ orOp'.stage = s
           /\ orOp'.kind = orOp.kind /\ orOp'.name = orOp.name /\ orOp'.id = orOp.id
BY NoneApart DEF ToStage, Op

(* A generation not yet audited says nothing of the operation under way. *)
LEMMA NoOutcomeYet ==
    ASSUME OrTyped, orOp # NoOp, NEW gen, Unaudited(gen), NEW o \in Outcomes
    PROVE  <<orOp.id, o>> \notin gen.audits
<1>1. orOp.id = orRequests /\ orRequests \in 1..MaxRequests
  BY DEF OrTyped, Op
<1>2. Upto(gen, orRequests - 1)
  BY DEF Unaudited
<1>3. <<orRequests, o>> \in gen.audits => orRequests <= orRequests - 1
  BY <1>1, <1>2 DEF Upto
<1>. QED BY <1>1, <1>3

(* The stages at which the process stands where it is. *)
LEMMA WhereAt ==
    ASSUME OrTyped, Layout
    PROVE  /\ orOp = NoOp \/ (orOp \in Op /\ orOp # NoOp)
           /\ orAt = "published" => Pending("export", {"requested", "staged"})
           /\ orAt \in {"staging", "copying", "copied", "swept"} => Pending("restore", {"requested"})
           /\ orAt = "install" => Pending("restore", {"staged"})
           /\ orAt = "rollback" => Pending("restore", {"rollback_requested"})
           /\ orAt \in {"finalizing", "audited"} =>
                Pending("export", {"finalizing"}) \/ Pending("restore", {"finalizing", "rolled_back"})
           /\ orAt \in {"opened", "reconciled"} =>
                \/ orOp = NoOp \/ Pending("export", {"staged", "finalizing"})
                \/ Pending("restore", {"installed", "finalizing", "rolled_back"})
           /\ orAt = "up" => orOp = NoOp \/ Pending("export", {"requested"}) \/ Pending("restore", {"requested"})
<1>1. orOp = NoOp \/ (orOp \in Op /\ orOp # NoOp)
  BY DEF OrTyped
<1>2. CASE orOp = NoOp
  BY <1>2 DEF Layout, Pending
<1>3. CASE orOp \in Op /\ orOp # NoOp
  <2>1. orOp.kind \in {"export", "restore"} /\ orOp.stage \in Stages
    BY <1>3 DEF Op
  <2>2. CASE orOp.kind = "export"
    BY <1>3, <2>1, <2>2 DEF Layout, Pending
  <2>3. CASE orOp.kind = "restore"
    BY <1>3, <2>1, <2>3 DEF Layout, Pending, Stages
  <2>. QED BY <2>1, <2>2, <2>3
<1>. QED BY <1>1, <1>2, <1>3

(* Where no generation and no bundle changes, their chains and keys stand. *)
LEMMA GenerationsRest ==
    ASSUME OrInv, UNCHANGED <<orPaths, orBundles, orRequests>>, orOp # NoOp \/ orOp' = NoOp
    PROVE  ChainStands' /\ SplitStands'
<1>1. UNCHANGED <<orLive, orStaged, orPrevious>>
  BY DEF orPaths
<1>2. ChainStands'
  <2>1. \A gen : Chain(gen)' <=> Chain(gen)
    BY DEF Chain, OneOutcome, Upto
  <2>. QED BY <1>1, <2>1 DEF OrInv, ChainStands, Unaudited, Upto, Chain, OneOutcome
<1>. QED BY <1>1, <1>2 DEF OrInv, SplitStands, Split

(* The steps that only move the process along. *)
LEMMA OpenAtOnceStep == ASSUME OrInv, OpenAtOnce PROVE OrInv'
<1>1. /\ orAt = "down" /\ orAt' = "opened"
      /\ UNCHANGED <<orPaths, orControl, orOp, orBefore, orClosed, orRequests>>
      /\ UNCHANGED <<orLive, orStaged, orPrevious, orCleanup, orBundles, orLedger, orContinuity>>
  BY DEF OpenAtOnce, Goes, orPaths, orControl
<1>2. orOp = NoOp \/ Pending("export", {"finalizing"}) \/ Pending("restore", {"installed", "finalizing", "rolled_back"})
  BY DEF OpenAtOnce
<1>3. OrTyped'
  BY <1>1 DEF OrInv, OrTyped, BootSteps
<1>4. Layout' /\ SweptStands' /\ ClosedStands'
  BY <1>1, <1>2 DEF OrInv, Layout, Pending, Alone, Swapped, PreviousKept, Whole, SweptStands, Swept, ClosedStands
<1>5. OutcomeStands'
  BY <1>1 DEF OrInv, OutcomeStands, Unaudited, Chain, OneOutcome, Upto, Pending
<1>. QED BY <1>1, <1>3, <1>4, <1>5, GenerationsRest DEF OrInv

LEMMA ResumeInstallStep == ASSUME OrInv, ResumeInstall PROVE OrInv'
<1>1. /\ orAt = "down" /\ orAt' = "install" /\ Pending("restore", {"staged"})
      /\ UNCHANGED <<orPaths, orControl, orOp, orBefore, orClosed, orRequests>>
      /\ UNCHANGED <<orLive, orStaged, orPrevious, orCleanup, orBundles, orLedger, orContinuity>>
  BY DEF ResumeInstall, Goes, orPaths, orControl
<1>2. OrTyped'
  BY <1>1 DEF OrInv, OrTyped, BootSteps
<1>3. Layout' /\ SweptStands' /\ ClosedStands'
  BY <1>1 DEF OrInv, Layout, Pending, Alone, InPlace, Aside, Swapped, PreviousKept, Whole, SweptStands, Swept, ClosedStands
<1>4. OutcomeStands'
  BY <1>1 DEF OrInv, OutcomeStands, Unaudited, Chain, OneOutcome, Upto, Pending
<1>. QED BY <1>1, <1>2, <1>3, <1>4, GenerationsRest, NoneApart DEF OrInv, Pending

LEMMA ResumeRollbackStep == ASSUME OrInv, ResumeRollback PROVE OrInv'
<1>1. /\ orAt = "down" /\ orAt' = "rollback" /\ Pending("restore", {"rollback_requested"})
      /\ UNCHANGED <<orPaths, orControl, orOp, orBefore, orClosed, orRequests>>
      /\ UNCHANGED <<orLive, orStaged, orPrevious, orCleanup, orBundles, orLedger, orContinuity>>
  BY DEF ResumeRollback, Goes, orPaths, orControl
<1>2. OrTyped'
  BY <1>1 DEF OrInv, OrTyped, BootSteps
<1>3. Layout' /\ SweptStands' /\ ClosedStands'
  BY <1>1 DEF OrInv, Layout, Pending, Alone, InPlace, Aside, Swapped, PreviousKept, Whole, SweptStands, Swept, ClosedStands
<1>4. OutcomeStands'
  BY <1>1 DEF OrInv, OutcomeStands, Unaudited, Chain, OneOutcome, Upto, Pending
<1>. QED BY <1>1, <1>2, <1>3, <1>4, GenerationsRest DEF OrInv, Pending

LEMMA OrKillStep == ASSUME OrInv, OrKill PROVE OrInv'
<1>1. /\ orAt' = "down" /\ orClosed' = {}
      /\ UNCHANGED <<orPaths, orControl, orOp, orBefore, orRequests>>
      /\ UNCHANGED <<orLive, orStaged, orPrevious, orCleanup, orBundles, orLedger, orContinuity>>
  BY DEF OrKill, orPaths, orControl
<1>2. OrTyped'
  BY <1>1 DEF OrInv, OrTyped
<1>3. Layout' /\ SweptStands' /\ ClosedStands'
  BY <1>1 DEF OrInv, Layout, Pending, Alone, InPlace, Aside, Swapped, PreviousKept, Whole, SweptStands, Swept, ClosedStands
<1>4. OutcomeStands'
  BY <1>1 DEF OrInv, OutcomeStands, Unaudited, Chain, OneOutcome, Upto, Pending
<1>. QED BY <1>1, <1>2, <1>3, <1>4, GenerationsRest DEF OrInv

(* The steps that move the stage and no generation. *)

LEMMA MarkExportedStep == ASSUME OrInv, MarkExported PROVE OrInv'
<1>1. /\ orAt = "published" /\ orAt' = "opened" /\ ToStage("staged")
      /\ UNCHANGED <<orPaths, orBundles, orBefore, orClosed, orRequests, orLedger>>
      /\ UNCHANGED <<orLive, orStaged, orPrevious, orCleanup>> /\ orContinuity' \subseteq orLedger
  BY DEF MarkExported, Goes, orPaths, orControl, OrInv, OrTyped
<1>2. Pending("export", {"requested", "staged"}) /\ orOp \in Op
  BY <1>1, WhereAt DEF OrInv, Pending
<1>3. /\ orOp' \in Op /\ orOp' # NoOp /\ orOp'.stage = "staged"
      /\ orOp'.kind = orOp.kind /\ orOp'.name = orOp.name /\ orOp'.id = orOp.id
  BY <1>1, <1>2, StageMoves DEF Stages
<1>4. OrTyped'
  BY <1>1, <1>2, <1>3 DEF OrInv, OrTyped, BootSteps, Pending
<1>5. Layout' /\ SweptStands' /\ ClosedStands'
  BY <1>1, <1>2, <1>3 DEF OrInv, Layout, Pending, Stages, Alone, InPlace, Aside, Swapped, PreviousKept, Whole, SweptStands, Swept, ClosedStands
<1>6. OutcomeStands'
  BY <1>1, <1>2, <1>3 DEF OrInv, OutcomeStands, Unaudited, Chain, OneOutcome, Upto, Pending
<1>. QED BY <1>1, <1>2, <1>3, <1>4, <1>5, <1>6, GenerationsRest DEF OrInv, Pending

LEMMA MarkStagedStep == ASSUME OrInv, MarkStaged PROVE OrInv'
<1>1. /\ orAt = "swept" /\ orAt' = "install" /\ ToStage("staged")
      /\ UNCHANGED <<orPaths, orBundles, orBefore, orClosed, orRequests, orLedger>>
      /\ UNCHANGED <<orLive, orStaged, orPrevious, orCleanup>> /\ orContinuity' \subseteq orLedger
  BY DEF MarkStaged, Goes, orPaths, orControl, OrInv, OrTyped
<1>2. Pending("restore", {"requested"}) /\ orOp \in Op
  BY <1>1, WhereAt DEF OrInv, Pending
<1>3. /\ orOp' \in Op /\ orOp' # NoOp /\ orOp'.stage = "staged"
      /\ orOp'.kind = orOp.kind /\ orOp'.name = orOp.name /\ orOp'.id = orOp.id
  BY <1>1, <1>2, StageMoves DEF Stages
<1>4. OrTyped'
  BY <1>1, <1>2, <1>3 DEF OrInv, OrTyped, BootSteps, Pending
<1>5. Layout' /\ SweptStands' /\ ClosedStands'
  BY <1>1, <1>2, <1>3 DEF OrInv, Layout, Pending, Alone, InPlace, Aside, Swapped, PreviousKept, Whole, SweptStands, Swept, ClosedStands
<1>6. OutcomeStands'
  BY <1>1, <1>2, <1>3 DEF OrInv, OutcomeStands, Unaudited, Chain, OneOutcome, Upto, Pending
<1>. QED BY <1>1, <1>2, <1>3, <1>4, <1>5, <1>6, GenerationsRest DEF OrInv, Pending

LEMMA MarkInstalledStep == ASSUME OrInv, MarkInstalled PROVE OrInv'
<1>1. /\ orAt = "install" /\ orAt' = "opened" /\ ToStage("installed")
      /\ UNCHANGED <<orPaths, orBundles, orBefore, orClosed, orRequests, orLedger>>
      /\ UNCHANGED <<orLive, orStaged, orPrevious, orCleanup>> /\ orContinuity' \subseteq orLedger
  BY DEF MarkInstalled, Goes, orPaths, orControl, OrInv, OrTyped
<1>2. Pending("restore", {"staged"}) /\ orOp \in Op
  BY <1>1, WhereAt DEF OrInv, Pending
<1>3. /\ orOp' \in Op /\ orOp' # NoOp /\ orOp'.stage = "installed"
      /\ orOp'.kind = orOp.kind /\ orOp'.name = orOp.name /\ orOp'.id = orOp.id
  BY <1>1, <1>2, StageMoves DEF Stages
<1>4. OrTyped'
  BY <1>1, <1>2, <1>3 DEF OrInv, OrTyped, BootSteps, Pending
<1>5. Layout' /\ SweptStands' /\ ClosedStands'
  BY <1>1, <1>2, <1>3, Siblings DEF OrInv, Layout, Pending, Alone, InPlace, Aside, Swapped, PreviousKept, Whole, SweptStands, Swept, ClosedStands, MarkInstalled
<1>6. OutcomeStands'
  BY <1>1, <1>2, <1>3, Siblings DEF OrInv, OutcomeStands, Unaudited, Chain, OneOutcome, Upto, Pending, Layout, InPlace, Aside, Swapped, PreviousKept, Whole, MarkInstalled
<1>. QED BY <1>1, <1>2, <1>3, <1>4, <1>5, <1>6, GenerationsRest DEF OrInv, Pending

LEMMA RequestRollbackStep == ASSUME OrInv, RequestRollback PROVE OrInv'
<1>1. /\ orAt = "down" /\ orAt' = "rollback" /\ ToStage("rollback_requested")
      /\ UNCHANGED <<orPaths, orBundles, orBefore, orClosed, orRequests, orLedger>>
      /\ UNCHANGED <<orLive, orStaged, orPrevious, orCleanup>> /\ orContinuity' \subseteq orLedger
  BY DEF RequestRollback, Goes, orPaths, orControl, OrInv, OrTyped
<1>2. Pending("restore", {"installed", "finalizing"}) /\ orOp \in Op
  BY <1>1, WhereAt DEF OrInv, Pending, RequestRollback
<1>3. /\ orOp' \in Op /\ orOp' # NoOp /\ orOp'.stage = "rollback_requested"
      /\ orOp'.kind = orOp.kind /\ orOp'.name = orOp.name /\ orOp'.id = orOp.id
  BY <1>1, <1>2, StageMoves DEF Stages
<1>4. OrTyped'
  BY <1>1, <1>2, <1>3 DEF OrInv, OrTyped, BootSteps, Pending
<1>5. Layout' /\ SweptStands' /\ ClosedStands'
  BY <1>1, <1>2, <1>3, Siblings DEF OrInv, Layout, Pending, Alone, InPlace, Aside, Swapped, PreviousKept, Whole, SweptStands, Swept, ClosedStands, RequestRollback
<1>6. OutcomeStands'
  BY <1>1, <1>2, <1>3, Siblings DEF OrInv, OutcomeStands, Unaudited, Chain, OneOutcome, Upto, Pending, Layout, InPlace, Aside, Swapped, PreviousKept, Whole, RequestRollback
<1>. QED BY <1>1, <1>2, <1>3, <1>4, <1>5, <1>6, GenerationsRest DEF OrInv, Pending

LEMMA MarkRolledBackStep == ASSUME OrInv, MarkRolledBack PROVE OrInv'
<1>1. /\ orAt = "rollback" /\ orAt' = "opened" /\ ToStage("rolled_back") /\ InstallState = "staged_only"
      /\ UNCHANGED <<orPaths, orBundles, orContinuity, orBefore, orClosed, orRequests>>
      /\ UNCHANGED <<orLive, orStaged, orPrevious, orCleanup, orLedger>>
  BY DEF MarkRolledBack, Goes, orPaths, OrInv, OrTyped
<1>2. Pending("restore", {"rollback_requested"}) /\ orOp \in Op
  BY <1>1, WhereAt DEF OrInv, Pending
<1>3. /\ orOp' \in Op /\ orOp' # NoOp /\ orOp'.stage = "rolled_back"
      /\ orOp'.kind = orOp.kind /\ orOp'.name = orOp.name /\ orOp'.id = orOp.id
  BY <1>1, <1>2, StageMoves DEF Stages
<1>4. InPlace /\ orLive = orBefore
  BY <1>1, <1>2, Siblings DEF OrInv, Layout, Pending, Aside, Swapped, PreviousKept, Whole
<1>5. OrTyped'
  BY <1>1, <1>2, <1>3 DEF OrInv, OrTyped, BootSteps, Pending
<1>6. Layout' /\ SweptStands' /\ ClosedStands'
  BY <1>1, <1>3, <1>4, <1>2 DEF OrInv, Layout, Pending, Stages, Alone, InPlace, Aside, Swapped, PreviousKept, Whole, SweptStands, Swept, ClosedStands
<1>7. OutcomeStands'
  <2>1. Unaudited(orLive)
    BY <1>2, <1>4 DEF OrInv, OutcomeStands, Pending, InPlace
  <2>2. <<orOp.id, "completed">> \notin orLive.audits
    BY <1>2, <2>1, NoOutcomeYet DEF OrInv, Outcomes, Pending
  <2>. QED BY <1>1, <1>2, <1>3, <2>2 DEF OutcomeStands, Pending
<1>. QED BY <1>1, <1>2, <1>3, <1>5, <1>6, <1>7, GenerationsRest DEF OrInv, Pending

LEMMA BeginFinalizationStep == ASSUME OrInv, BeginFinalization PROVE OrInv'
<1>1. /\ orAt = "reconciled" /\ orAt' = IF orOp = NoOp THEN "up" ELSE "finalizing"
      /\ UNCHANGED <<orPaths, orControl, orBefore, orClosed, orRequests>>
      /\ UNCHANGED <<orLive, orStaged, orPrevious, orCleanup, orBundles, orLedger, orContinuity>>
  BY DEF BeginFinalization, Goes, orPaths, orControl
<1>2. \/ orOp = NoOp
      \/ Pending("export", {"staged", "finalizing"}) /\ orOp \in Op
      \/ Pending("restore", {"installed", "finalizing", "rolled_back"}) /\ orOp \in Op
  BY <1>1, WhereAt DEF OrInv, Pending
<1>3. CASE UNCHANGED orOp
  <2>1. orOp = NoOp \/ Pending("restore", {"rolled_back"}) \/ orOp.stage = "finalizing"
    BY <1>2, <1>3, StageMoves DEF BeginFinalization, Pending, Stages
  <2>2. OrTyped'
    BY <1>1, <1>3 DEF OrInv, OrTyped, BootSteps
  <2>3. Layout' /\ SweptStands' /\ ClosedStands'
    BY <1>1, <1>2, <1>3, <2>1 DEF OrInv, Layout, Pending, Stages, Alone, InPlace, Aside, Swapped, PreviousKept, Whole, SweptStands, Swept, ClosedStands
  <2>4. OutcomeStands'
    BY <1>1, <1>2, <1>3 DEF OrInv, OutcomeStands, Unaudited, Chain, OneOutcome, Upto, Pending
  <2>. QED BY <1>1, <1>3, <2>2, <2>3, <2>4, GenerationsRest DEF OrInv
<1>4. CASE orOp # NoOp /\ orOp.stage # "rolled_back" /\ ToStage("finalizing")
  <2>1. \/ Pending("export", {"staged", "finalizing"}) /\ orOp \in Op
        \/ Pending("restore", {"installed", "finalizing"}) /\ orOp \in Op
    BY <1>2, <1>4 DEF Pending
  <2>2. /\ orOp' \in Op /\ orOp' # NoOp /\ orOp'.stage = "finalizing"
        /\ orOp'.kind = orOp.kind /\ orOp'.name = orOp.name /\ orOp'.id = orOp.id
    BY <1>4, <2>1, StageMoves DEF Stages
  <2>3. OrTyped'
    BY <1>1, <1>4, <2>2 DEF OrInv, OrTyped, BootSteps
  <2>4. Layout' /\ SweptStands' /\ ClosedStands'
    BY <1>1, <1>4, <2>1, <2>2 DEF OrInv, Layout, Pending, Stages, Alone, InPlace, Aside, Swapped, PreviousKept, Whole, SweptStands, Swept, ClosedStands
  <2>5. <<orOp.id, "rolled_back">> \notin orLive.audits
    <3>2. CASE orOp.stage = "finalizing"
      BY <1>4, <3>2 DEF OrInv, OutcomeStands
    <3>3. CASE orOp.stage \in {"staged", "installed"}
      <4>1. orLive # None
        BY <2>1, <3>3 DEF OrInv, Layout, Pending, Stages, Alone, InPlace, Aside, Swapped, PreviousKept, Whole
      <4>. QED BY <1>4, <3>3, <4>1, NoOutcomeYet DEF OrInv, OutcomeStands, Outcomes
    <3>. QED BY <2>1, <3>2, <3>3 DEF Pending
  <2>6. OutcomeStands'
    BY <1>1, <1>4, <2>2, <2>5 DEF OutcomeStands, Pending
  <2>. QED BY <1>1, <1>4, <2>3, <2>4, <2>6, GenerationsRest DEF OrInv
<1>. QED BY <1>3, <1>4 DEF BeginFinalization

LEMMA ClearOperationStep == ASSUME OrInv, ClearOperation PROVE OrInv'
<1>1. /\ orAt = "audited" /\ orAt' = "up" /\ orOp' = NoOp /\ orBefore' = None /\ orContinuity' = {}
      /\ UNCHANGED <<orPaths, orBundles, orLedger, orClosed, orRequests>>
      /\ UNCHANGED <<orLive, orStaged, orPrevious, orCleanup>>
      /\ orStaged = None /\ orPrevious = None /\ orCleanup = None
  BY Siblings DEF ClearOperation, Goes, orPaths
<1>2. Whole(orLive)
  BY <1>1, WhereAt DEF OrInv, Layout, Pending, Stages, Alone, InPlace, Aside, Swapped, PreviousKept, Whole
<1>3. OrTyped'
  BY <1>1 DEF OrInv, OrTyped
<1>4. Layout' /\ SweptStands' /\ ClosedStands'
  BY <1>1, <1>2 DEF OrInv, Layout, Pending, Stages, Alone, InPlace, Aside, Swapped, PreviousKept, Whole, SweptStands, Swept, ClosedStands
<1>5. OutcomeStands'
  BY <1>1 DEF OutcomeStands, Pending
<1>. QED BY <1>1, <1>3, <1>4, <1>5, GenerationsRest DEF OrInv

-------------------------------------------------------------------------------
(* The steps of the serving kernel *)

(* Where the live generation changes and says of the operations what it said. *)
LEMMA LiveChanges ==
    ASSUME OrInv, UNCHANGED <<orStaged, orPrevious, orBundles, orRequests, orOp>>,
           orLive # None, orLive' \in Gen, orLive'.audits = orLive.audits, Split(orLive'),
           orAt' = "audited" => orAt = "audited"
    PROVE  ChainStands' /\ SplitStands' /\ OutcomeStands'
<1>1. /\ Chain(orLive)' <=> Chain(orLive)
      /\ Unaudited(orLive)' <=> Unaudited(orLive)
  BY DEF Chain, Unaudited, OneOutcome, Upto
<1>2. \A gen : Chain(gen)' <=> Chain(gen)
  BY DEF Chain, OneOutcome, Upto
<1>3. ChainStands'
  BY <1>1, <1>2 DEF OrInv, ChainStands, Unaudited, Upto, Chain, OneOutcome
<1>4. SplitStands'
  BY DEF OrInv, SplitStands, Split
<1>5. OutcomeStands'
  BY DEF OrInv, OutcomeStands, Unaudited, Chain, OneOutcome, Upto, Pending, Outcome
<1>. QED BY <1>3, <1>4, <1>5

LEMMA WorkStep == ASSUME OrInv, Work PROVE OrInv'
<1>1. /\ orAt = "up" /\ orLive' = [orLive EXCEPT !.work = @ + 1]
      /\ UNCHANGED <<orStaged, orPrevious, orCleanup, orBundles, orContinuity, orAt, orBefore>>
      /\ UNCHANGED <<orLedger, orOp, orClosed, orRequests>>
  BY DEF Work, Serve
<1>2. orLive \in Gen /\ Whole(orLive)
  BY <1>1, WhereAt DEF OrInv, OrTyped, Layout, Pending, Stages, Alone, InPlace, Aside, Swapped, PreviousKept, Whole
<1>3. /\ orLive' \in Gen /\ orLive'.whole = orLive.whole /\ orLive'.audits = orLive.audits
      /\ orLive'.keys = orLive.keys /\ orLive'.erased = orLive.erased
  BY <1>1, <1>2, RestoreAssumption DEF Work, Gen
<1>4. Split(orLive')
  BY <1>2, <1>3, <1>1 DEF OrInv, SplitStands, Split, Whole, Work
<1>5. ChainStands' /\ SplitStands' /\ OutcomeStands'
  BY <1>1, <1>2, <1>3, <1>4, LiveChanges DEF OrInv, Whole
<1>6. OrTyped'
  BY <1>1, <1>3 DEF OrInv, OrTyped
<1>7. Layout' /\ SweptStands' /\ ClosedStands'
  BY <1>1, <1>2, <1>3, NoneApart, WhereAt DEF OrInv, Layout, Pending, Stages, Alone, InPlace, Aside, Swapped, PreviousKept, Whole, SweptStands, ClosedStands
<1>. QED BY <1>5, <1>6, <1>7 DEF OrInv

LEMMA ContactStep == ASSUME OrInv, NEW p \in Parties, Contact(p) PROVE OrInv'
<1>1. /\ orAt = "up" /\ orLive' = [orLive EXCEPT !.keys = @ \cup {p}]
      /\ UNCHANGED <<orStaged, orPrevious, orCleanup, orBundles, orContinuity, orAt, orBefore>>
      /\ UNCHANGED <<orLedger, orOp, orClosed, orRequests>>
  BY DEF Contact, Serve
<1>2. orLive \in Gen /\ Whole(orLive)
  BY <1>1, WhereAt DEF OrInv, OrTyped, Layout, Pending, Stages, Alone, InPlace, Aside, Swapped, PreviousKept, Whole
<1>3. /\ orLive' \in Gen /\ orLive'.whole = orLive.whole /\ orLive'.audits = orLive.audits
      /\ orLive'.keys = orLive.keys \cup {p} /\ orLive'.erased = orLive.erased
  BY <1>1, <1>2 DEF Gen
<1>4. Split(orLive')
  BY <1>2, <1>3, <1>1 DEF OrInv, SplitStands, Split, Whole, Contact
<1>5. ChainStands' /\ SplitStands' /\ OutcomeStands'
  BY <1>1, <1>2, <1>3, <1>4, LiveChanges DEF OrInv, Whole
<1>6. OrTyped'
  BY <1>1, <1>3 DEF OrInv, OrTyped
<1>7. Layout' /\ SweptStands' /\ ClosedStands'
  BY <1>1, <1>2, <1>3, NoneApart, WhereAt DEF OrInv, Layout, Pending, Stages, Alone, InPlace, Aside, Swapped, PreviousKept, Whole, SweptStands, ClosedStands
<1>. QED BY <1>5, <1>6, <1>7 DEF OrInv

LEMMA EraseLocallyStep == ASSUME OrInv, NEW p \in Parties, EraseLocally(p) PROVE OrInv'
<1>1. /\ orAt = "up" /\ orLive' = [Purge(orLive, {p}) EXCEPT !.erased = @ \cup {p}]
      /\ UNCHANGED <<orStaged, orPrevious, orCleanup, orBundles, orContinuity, orAt, orBefore>>
      /\ UNCHANGED <<orLedger, orOp, orClosed, orRequests>>
  BY DEF EraseLocally, Serve
<1>2. orLive \in Gen /\ Whole(orLive)
  BY <1>1, WhereAt DEF OrInv, OrTyped, Layout, Pending, Stages, Alone, InPlace, Aside, Swapped, PreviousKept, Whole
<1>3. /\ orLive' \in Gen /\ orLive'.whole = orLive.whole /\ orLive'.audits = orLive.audits
      /\ orLive'.keys = orLive.keys \ {p} /\ orLive'.erased = orLive.erased \cup {p}
  <2> DEFINE purged == [orLive EXCEPT !.keys = @ \ {p}, !.tombs = @ \cup {p}]
  <2>1. /\ purged \in Gen /\ purged.whole = orLive.whole /\ purged.audits = orLive.audits
        /\ purged.keys = orLive.keys \ {p} /\ purged.erased = orLive.erased
    BY <1>2 DEF Gen
  <2>2. orLive' = [purged EXCEPT !.erased = @ \cup {p}]
    BY <1>1 DEF Purge
  <2> HIDE DEF purged
  <2>. QED BY <2>1, <2>2 DEF Gen
<1>4. Split(orLive')
  BY <1>2, <1>3, <1>1 DEF OrInv, SplitStands, Split, Whole, EraseLocally
<1>5. ChainStands' /\ SplitStands' /\ OutcomeStands'
  BY <1>1, <1>2, <1>3, <1>4, LiveChanges DEF OrInv, Whole
<1>6. OrTyped'
  BY <1>1, <1>3 DEF OrInv, OrTyped
<1>7. Layout' /\ SweptStands' /\ ClosedStands'
  BY <1>1, <1>2, <1>3, NoneApart, WhereAt DEF OrInv, Layout, Pending, Stages, Alone, InPlace, Aside, Swapped, PreviousKept, Whole, SweptStands, ClosedStands
<1>. QED BY <1>5, <1>6, <1>7 DEF OrInv

LEMMA RecordErasureStep == ASSUME OrInv, NEW p \in Parties, RecordErasure(p) PROVE OrInv'
<1>1. /\ orAt = "up" /\ orLedger' = orLedger \cup {p} /\ orClosed' = orClosed \cup {p}
      /\ UNCHANGED <<orPaths, orBundles, orContinuity, orAt, orBefore, orOp, orRequests>>
      /\ UNCHANGED <<orLive, orStaged, orPrevious, orCleanup>>
  BY DEF RecordErasure, Serve, orPaths
<1>2. orOp = NoOp \/ Pending("export", {"requested"}) \/ Pending("restore", {"requested"})
  BY <1>1, WhereAt DEF OrInv
<1>3. OrTyped'
  BY <1>1 DEF OrInv, OrTyped
<1>4. Layout' /\ SweptStands' /\ ClosedStands'
  BY <1>1, <1>2 DEF OrInv, Layout, Pending, Stages, Alone, InPlace, Aside, Swapped, PreviousKept, Whole, SweptStands, ClosedStands
<1>5. OutcomeStands'
  BY <1>1 DEF OrInv, OutcomeStands, Unaudited, Chain, OneOutcome, Upto, Pending
<1>. QED BY <1>1, <1>3, <1>4, <1>5, GenerationsRest DEF OrInv

LEMMA StageOperationStep ==
    ASSUME OrInv, NEW n \in Names, NEW kind \in {"export", "restore"}, StageOperation(kind, n)
    PROVE  OrInv'
<1>1. /\ orAt = "up" /\ orOp = NoOp /\ orRequests < MaxRequests /\ orRequests' = orRequests + 1
      /\ orOp' = [kind |-> kind, name |-> n, id |-> orRequests + 1, stage |-> "requested"]
      /\ (kind = "export") = (orBundles[n] = None)
      /\ UNCHANGED <<orStaged, orPrevious, orCleanup, orBundles, orContinuity, orAt, orBefore>>
      /\ UNCHANGED <<orLive, orLedger, orClosed>>
  BY DEF StageOperation, Serve
<1>2. /\ orRequests \in Nat /\ orRequests' \in 1..MaxRequests /\ orRequests' - 1 = orRequests
  BY <1>1, RestoreAssumption DEF OrInv, OrTyped
<1>3. /\ orOp' \in Op /\ orOp' # NoOp /\ orOp'.kind = kind /\ orOp'.name = n
      /\ orOp'.id = orRequests' /\ orOp'.stage = "requested"
  BY <1>1, <1>2, NoneApart DEF Op, Stages
<1>4. Alone /\ orBefore = None
  BY <1>1 DEF OrInv, Layout
<1>5. ASSUME NEW gen, Chain(gen) PROVE Unaudited(gen)'
  <2>2. Upto(gen, orRequests)
    BY <1>5 DEF Chain
  <2>3. Upto(gen, orRequests')
    BY <1>1, <1>2, <2>2 DEF Upto
  <2>. QED BY <1>2, <1>5, <2>2, <2>3 DEF Chain, Unaudited, OneOutcome
<1>6. OrTyped'
  BY <1>1, <1>2, <1>3 DEF OrInv, OrTyped
<1>7. Layout' /\ SweptStands' /\ ClosedStands'
  BY <1>1, <1>3, <1>4 DEF OrInv, Layout, Pending, Stages, Alone, InPlace, Aside, Swapped, PreviousKept, Whole, SweptStands, ClosedStands
<1>8. ChainStands'
  <2>1. Unaudited(orLive)'
    BY <1>1, <1>4, <1>5 DEF OrInv, ChainStands, Alone, Whole
  <2>2. \A m \in Names : orBundles'[m] # None => Unaudited(orBundles[m].data)'
    BY <1>1, <1>5 DEF OrInv, ChainStands, Unaudited
  <2>. QED BY <1>1, <1>4, <2>1, <2>2 DEF ChainStands, Unaudited, Alone
<1>9. OutcomeStands'
  BY <1>1, <1>3, <1>4, <1>5 DEF OrInv, ChainStands, OutcomeStands, Pending, Alone, Whole
<1>10. SplitStands'
  BY <1>1 DEF OrInv, SplitStands, Split
<1>. QED BY <1>6, <1>7, <1>8, <1>9, <1>10 DEF OrInv

-------------------------------------------------------------------------------
(* Export and staging *)

LEMMA PublishStep == ASSUME OrInv, Publish PROVE OrInv'
<1>1. /\ orAt = "down" /\ orAt' = "published" /\ Pending("export", {"requested", "staged"}) /\ orOp \in Op
      /\ UNCHANGED <<orPaths, orLedger, orContinuity, orOp, orBefore, orClosed, orRequests>>
      /\ UNCHANGED <<orLive, orStaged, orPrevious, orCleanup>>
  BY DEF Publish, Goes, orPaths, OrInv, OrTyped, Pending
<1>2. PICK b \in Bundle : /\ b.data = orLive
                         /\ \/ orBundles' = orBundles
                            \/ orBundles' = [orBundles EXCEPT ![orOp.name] = b]
  <2>1. orLive \in Gen /\ orLedger \subseteq Parties
    BY <1>1 DEF OrInv, OrTyped, Layout, Pending, Stages, Alone, InPlace, Aside, Swapped, PreviousKept, Whole
  <2>2. [data |-> orLive, baseline |-> orLedger] \in Bundle
    BY <2>1 DEF Bundle
  <2>. QED BY <1>1, <2>2 DEF Publish
<1>3. /\ orBundles' \in [Names -> Bundle \cup {None}]
      /\ \A n \in Names : orBundles'[n] = orBundles[n] \/ orBundles'[n] = b
  BY <1>1, <1>2 DEF OrInv, OrTyped, Op
<1>4. orLive # None /\ Unaudited(orLive) /\ Split(orLive)
  BY <1>1 DEF OrInv, Layout, Pending, Stages, Alone, InPlace, Aside, Swapped, PreviousKept, Whole, OutcomeStands, SplitStands
<1>5. OrTyped'
  BY <1>1, <1>3 DEF OrInv, OrTyped, BootSteps
<1>6. Layout' /\ SweptStands' /\ ClosedStands'
  BY <1>1 DEF OrInv, Layout, Pending, Stages, Alone, InPlace, Aside, Swapped, PreviousKept, Whole, SweptStands, Swept, ClosedStands
<1>7. OutcomeStands'
  BY <1>1 DEF OrInv, OutcomeStands, Unaudited, Chain, OneOutcome, Upto, Pending
<1>8. ChainStands'
  <2>1. (orLive # None => Chain(orLive)') /\ (orStaged # None => Chain(orStaged)')
    BY <1>1 DEF OrInv, ChainStands, Chain, OneOutcome, Upto
  <2>2. orPrevious # None => Unaudited(orPrevious)'
    BY <1>1 DEF OrInv, ChainStands, Unaudited, Chain, OneOutcome, Upto
  <2>3. \A n \in Names : orBundles'[n] # None => Unaudited(orBundles'[n].data)
    BY <1>2, <1>3, <1>4 DEF OrInv, ChainStands
  <2>4. ASSUME NEW n \in Names, orBundles'[n] # None PROVE Unaudited(orBundles[n].data)'
    BY <1>1, <2>3, <2>4 DEF Unaudited, Chain, OneOutcome, Upto
  <2>. QED BY <1>1, <2>1, <2>2, <2>4 DEF ChainStands
<1>9. SplitStands'
  BY <1>1, <1>2, <1>3, <1>4 DEF OrInv, SplitStands, Split
<1>. QED BY <1>5, <1>6, <1>7, <1>8, <1>9 DEF OrInv

(* Where only the staged generation changes, while it is being staged. *)
LEMMA StagedChanges ==
    ASSUME OrInv, UNCHANGED <<orLive, orPrevious, orBundles, orRequests, orOp>>, orAt' # "audited",
           Pending("restore", {"requested"}),
           orStaged' # None => Unaudited(orStaged') /\ Split(orStaged')
    PROVE  ChainStands' /\ SplitStands' /\ OutcomeStands'
<1>1. /\ orStaged' # None => Unaudited(orStaged)' /\ Chain(orStaged)'
      /\ orLive # None => Chain(orLive)'
      /\ orPrevious # None => Unaudited(orPrevious)'
      /\ \A n \in Names : orBundles[n] # None => Unaudited(orBundles[n].data)'
  BY DEF OrInv, ChainStands, Unaudited, Chain, OneOutcome, Upto
<1>2. ChainStands'
  BY <1>1 DEF ChainStands
<1>3. orLive # None => Unaudited(orLive)'
  BY DEF OrInv, OutcomeStands, Unaudited, Chain, OneOutcome, Upto, Pending
<1>4. OutcomeStands'
  BY <1>1, <1>3 DEF OutcomeStands, Pending
<1>. QED BY <1>2, <1>4 DEF OrInv, SplitStands, Split

LEMMA BeginStagingStep == ASSUME OrInv, BeginStaging PROVE OrInv'
<1>1. /\ orAt = "down" /\ orAt' = "staging" /\ Pending("restore", {"requested"}) /\ orOp \in Op
      /\ orStaged' = None /\ orLedger' = orLedger \cup orBundles[orOp.name].baseline
      /\ UNCHANGED <<orLive, orPrevious, orCleanup, orBundles, orContinuity, orOp, orBefore, orClosed, orRequests>>
  BY DEF BeginStaging, Goes, OrInv, OrTyped, Pending
<1>2. orBundles[orOp.name].baseline \subseteq Parties
  BY <1>1 DEF OrInv, OrTyped, Layout, Bundle, Op, Pending
<1>3. OrTyped'
  BY <1>1, <1>2 DEF OrInv, OrTyped, BootSteps
<1>4. Layout' /\ SweptStands' /\ ClosedStands'
  BY <1>1 DEF OrInv, Layout, Pending, Stages, Alone, InPlace, Aside, Swapped, PreviousKept, Whole, SweptStands, ClosedStands
<1>. QED BY <1>1, <1>3, <1>4, StagedChanges DEF OrInv

LEMMA CopySomeStep == ASSUME OrInv, CopySome PROVE OrInv'
<1>1. /\ orAt = "staging" /\ orAt' = "copying"
      /\ orStaged' = [orBundles[orOp.name].data EXCEPT !.whole = FALSE]
      /\ UNCHANGED <<orLive, orPrevious, orCleanup, orControl, orOp, orBefore, orClosed, orRequests>>
      /\ UNCHANGED <<orBundles, orLedger, orContinuity>>
  BY DEF CopySome, Goes, orControl
<1>2. Pending("restore", {"requested"}) /\ orOp \in Op /\ orOp.name \in Names
  BY <1>1, WhereAt DEF OrInv, Pending, Op
<1>3. PICK data \in Gen : /\ orStaged' = [data EXCEPT !.whole = FALSE]
                          /\ Unaudited(data) /\ Split(data)
  <2>1. orBundles[orOp.name] \in Bundle /\ orBundles[orOp.name] # None
    BY <1>2 DEF OrInv, OrTyped, Layout, Pending
  <2>. QED BY <1>1, <1>2, <2>1 DEF OrInv, ChainStands, SplitStands, Bundle
<1>4. /\ orStaged' \in Gen /\ orStaged'.audits = data.audits
      /\ orStaged'.keys = data.keys /\ orStaged'.erased = data.erased
  BY <1>3 DEF Gen
<1>5. orStaged' # None /\ Unaudited(orStaged') /\ Split(orStaged')
  BY <1>3, <1>4, NoneApart DEF Unaudited, Chain, OneOutcome, Upto, Split
<1>6. OrTyped'
  BY <1>1, <1>4 DEF OrInv, OrTyped, BootSteps
<1>7. Layout' /\ SweptStands' /\ ClosedStands'
  BY <1>1, <1>2, <1>5 DEF OrInv, Layout, Pending, Stages, Alone, InPlace, Aside, Swapped, PreviousKept, Whole, SweptStands, ClosedStands
<1>. QED BY <1>1, <1>2, <1>5, <1>6, <1>7, StagedChanges DEF OrInv

LEMMA CopyRestStep == ASSUME OrInv, CopyRest PROVE OrInv'
<1>1. /\ orAt = "copying" /\ orAt' = "copied" /\ orStaged' = [orStaged EXCEPT !.whole = TRUE]
      /\ UNCHANGED <<orLive, orPrevious, orCleanup, orControl, orOp, orBefore, orClosed, orRequests>>
      /\ UNCHANGED <<orBundles, orLedger, orContinuity>>
  BY DEF CopyRest, Goes, orControl
<1>2. Pending("restore", {"requested"})
  BY <1>1, WhereAt DEF OrInv
<1>3. orStaged \in Gen /\ orStaged # None
  BY <1>1, <1>2 DEF OrInv, OrTyped, Layout, Pending
<1>4. /\ orStaged' \in Gen /\ orStaged'.whole /\ orStaged'.audits = orStaged.audits
      /\ orStaged'.keys = orStaged.keys /\ orStaged'.erased = orStaged.erased
  BY <1>1, <1>3 DEF Gen
<1>5. orStaged' # None /\ Unaudited(orStaged') /\ Split(orStaged')
  BY <1>2, <1>3, <1>4, NoneApart DEF OrInv, OutcomeStands, Unaudited, Chain, OneOutcome, Upto, Pending, SplitStands, Split
<1>6. OrTyped'
  BY <1>1, <1>4 DEF OrInv, OrTyped, BootSteps
<1>7. Layout' /\ SweptStands' /\ ClosedStands'
  BY <1>1, <1>2, <1>4, <1>5 DEF OrInv, Layout, Pending, Stages, Alone, InPlace, Aside, Swapped, PreviousKept, Whole, SweptStands, ClosedStands
<1>. QED BY <1>1, <1>2, <1>5, <1>6, <1>7, StagedChanges DEF OrInv

LEMMA ApplyErasuresStep == ASSUME OrInv, ApplyErasures PROVE OrInv'
<1>1. /\ orAt = "copied" /\ orAt' = "swept"
      /\ orStaged' = [orStaged EXCEPT !.keys = @ \ orLedger, !.tombs = @ \cup orLedger]
      /\ UNCHANGED <<orLive, orPrevious, orCleanup, orControl, orOp, orBefore, orClosed, orRequests>>
      /\ UNCHANGED <<orBundles, orLedger, orContinuity>>
  BY DEF ApplyErasures, Purge, Delta, Goes, orControl
<1>2. Pending("restore", {"requested"})
  BY <1>1, WhereAt DEF OrInv
<1>3. orStaged \in Gen /\ orStaged # None /\ orStaged.whole
  BY <1>1, <1>2 DEF OrInv, OrTyped, Layout, Pending
<1>4. /\ orStaged' \in Gen /\ orStaged'.whole /\ orStaged'.audits = orStaged.audits
      /\ orStaged'.keys = orStaged.keys \ orLedger /\ orStaged'.erased = orStaged.erased
  BY <1>1, <1>3 DEF Gen, OrInv, OrTyped
<1>5. orStaged' # None /\ Unaudited(orStaged') /\ Split(orStaged') /\ Swept(orStaged')
  BY <1>2, <1>3, <1>4, NoneApart DEF OrInv, OutcomeStands, Unaudited, Chain, OneOutcome, Upto, Pending, SplitStands, Split, Swept
<1>6. OrTyped'
  BY <1>1, <1>4 DEF OrInv, OrTyped, BootSteps
<1>7. Layout' /\ SweptStands' /\ ClosedStands'
  BY <1>1, <1>2, <1>4, <1>5 DEF OrInv, Layout, Pending, Stages, Alone, InPlace, Aside, Swapped, PreviousKept, Whole, SweptStands, Swept, ClosedStands
<1>. QED BY <1>1, <1>2, <1>5, <1>6, <1>7, StagedChanges DEF OrInv

-------------------------------------------------------------------------------
(* The renames of an installation and of a rollback *)

LEMMA MoveLiveAsideStep == ASSUME OrInv, MoveLiveAside PROVE OrInv'
<1>1. /\ orAt = "install" /\ orAt' = "install" /\ InstallState = "staged_only"
      /\ orPrevious' = orLive /\ orLive' = None /\ orBefore' = orLive
      /\ UNCHANGED <<orStaged, orCleanup>>
      /\ UNCHANGED <<orBundles, orLedger, orContinuity, orOp, orClosed, orRequests>>
  BY DEF MoveLiveAside, Goes, orControl
<1>2. Pending("restore", {"staged"})
  BY <1>1, WhereAt DEF OrInv
<1>3. InPlace
  BY <1>1, <1>2, Siblings DEF OrInv, Layout, Pending, InPlace, Aside, Swapped, PreviousKept, Whole
<1>4. OrTyped'
  BY <1>1 DEF OrInv, OrTyped
<1>5. Layout' /\ SweptStands' /\ ClosedStands'
  BY <1>1, <1>2, <1>3 DEF OrInv, Layout, Pending, Stages, Alone, InPlace, Aside, Swapped, PreviousKept, Whole, SweptStands, Swept, ClosedStands
<1>6. Unaudited(orLive) /\ Unaudited(orStaged)
  BY <1>1, <1>2, <1>3 DEF OrInv, ChainStands, OutcomeStands, Unaudited, Pending, InPlace, Aside, Swapped, PreviousKept, Whole
<1>7. ChainStands'
  BY <1>1, <1>2, <1>3, <1>6 DEF OrInv, ChainStands, Unaudited, Chain, OneOutcome, Upto
<1>8. OutcomeStands'
  BY <1>1, <1>2, <1>3, <1>6 DEF OrInv, OutcomeStands, Unaudited, Chain, OneOutcome, Upto, Pending
<1>9. SplitStands'
  BY <1>1, <1>3 DEF OrInv, SplitStands, Split, InPlace, Aside, Swapped, PreviousKept, Whole
<1>. QED BY <1>4, <1>5, <1>7, <1>8, <1>9 DEF OrInv

LEMMA MoveStagedInStep == ASSUME OrInv, MoveStagedIn PROVE OrInv'
<1>1. /\ orAt = "install" /\ orAt' = "install" /\ InstallState = "previous_only"
      /\ orLive' = orStaged /\ orStaged' = None
      /\ UNCHANGED <<orPrevious, orCleanup, orBefore>>
      /\ UNCHANGED <<orBundles, orLedger, orContinuity, orOp, orClosed, orRequests>>
  BY DEF MoveStagedIn, Goes, orControl
<1>2. Pending("restore", {"staged"})
  BY <1>1, WhereAt DEF OrInv
<1>3. Aside
  BY <1>1, <1>2, Siblings DEF OrInv, Layout, Pending, InPlace, Aside, Swapped, PreviousKept, Whole
<1>4. OrTyped'
  BY <1>1 DEF OrInv, OrTyped
<1>5. Layout' /\ SweptStands' /\ ClosedStands'
  BY <1>1, <1>2, <1>3 DEF OrInv, Layout, Pending, Stages, Alone, InPlace, Aside, Swapped, PreviousKept, Whole, SweptStands, Swept, ClosedStands
<1>6. Unaudited(orStaged) /\ Unaudited(orPrevious)
  BY <1>1, <1>2, <1>3 DEF OrInv, ChainStands, OutcomeStands, Unaudited, Pending, InPlace, Aside, Swapped, PreviousKept, Whole
<1>7. ChainStands'
  BY <1>1, <1>2, <1>3, <1>6 DEF OrInv, ChainStands, Unaudited, Chain, OneOutcome, Upto
<1>8. OutcomeStands'
  BY <1>1, <1>2, <1>3, <1>6 DEF OrInv, OutcomeStands, Unaudited, Chain, OneOutcome, Upto, Pending
<1>9. SplitStands'
  BY <1>1, <1>3 DEF OrInv, SplitStands, Split, InPlace, Aside, Swapped, PreviousKept, Whole
<1>. QED BY <1>4, <1>5, <1>7, <1>8, <1>9 DEF OrInv

LEMMA MoveRestoredOutStep == ASSUME OrInv, MoveRestoredOut PROVE OrInv'
<1>1. /\ orAt = "rollback" /\ orAt' = "rollback" /\ InstallState = "swapped"
      /\ orStaged' = orLive /\ orLive' = None
      /\ UNCHANGED <<orPrevious, orCleanup, orBefore>>
      /\ UNCHANGED <<orBundles, orLedger, orContinuity, orOp, orClosed, orRequests>>
  BY DEF MoveRestoredOut, Goes, orControl
<1>2. Pending("restore", {"rollback_requested"})
  BY <1>1, WhereAt DEF OrInv
<1>3. Swapped
  BY <1>1, <1>2, Siblings DEF OrInv, Layout, Pending, InPlace, Aside, Swapped, PreviousKept, Whole
<1>4. OrTyped'
  BY <1>1 DEF OrInv, OrTyped
<1>5. Layout' /\ SweptStands' /\ ClosedStands'
  BY <1>1, <1>2, <1>3 DEF OrInv, Layout, Pending, Stages, Alone, InPlace, Aside, Swapped, PreviousKept, Whole, SweptStands, Swept, ClosedStands
<1>6. Chain(orLive) /\ Unaudited(orPrevious)
  BY <1>1, <1>2, <1>3 DEF OrInv, ChainStands, OutcomeStands, Unaudited, Pending, InPlace, Aside, Swapped, PreviousKept, Whole
<1>7. ChainStands'
  BY <1>1, <1>2, <1>3, <1>6 DEF OrInv, ChainStands, Unaudited, Chain, OneOutcome, Upto
<1>8. OutcomeStands'
  BY <1>1, <1>2, <1>3, <1>6 DEF OrInv, OutcomeStands, Unaudited, Chain, OneOutcome, Upto, Pending
<1>9. SplitStands'
  BY <1>1, <1>3 DEF OrInv, SplitStands, Split, InPlace, Aside, Swapped, PreviousKept, Whole
<1>. QED BY <1>4, <1>5, <1>7, <1>8, <1>9 DEF OrInv

LEMMA MovePreviousBackStep == ASSUME OrInv, MovePreviousBack PROVE OrInv'
<1>1. /\ orAt = "rollback" /\ orAt' = "rollback" /\ InstallState = "previous_only"
      /\ orLive' = orPrevious /\ orPrevious' = None
      /\ UNCHANGED <<orStaged, orCleanup, orBefore>>
      /\ UNCHANGED <<orBundles, orLedger, orContinuity, orOp, orClosed, orRequests>>
  BY DEF MovePreviousBack, Goes, orControl
<1>2. Pending("restore", {"rollback_requested"})
  BY <1>1, WhereAt DEF OrInv
<1>3. Aside
  BY <1>1, <1>2, Siblings DEF OrInv, Layout, Pending, InPlace, Aside, Swapped, PreviousKept, Whole
<1>4. OrTyped'
  BY <1>1 DEF OrInv, OrTyped
<1>5. Layout' /\ SweptStands' /\ ClosedStands'
  BY <1>1, <1>2, <1>3 DEF OrInv, Layout, Pending, Stages, Alone, InPlace, Aside, Swapped, PreviousKept, Whole, SweptStands, Swept, ClosedStands
<1>6. Chain(orStaged) /\ Unaudited(orPrevious)
  BY <1>1, <1>2, <1>3 DEF OrInv, ChainStands, OutcomeStands, Unaudited, Pending, InPlace, Aside, Swapped, PreviousKept, Whole
<1>7. ChainStands'
  BY <1>1, <1>2, <1>3, <1>6 DEF OrInv, ChainStands, Unaudited, Chain, OneOutcome, Upto
<1>8. OutcomeStands'
  BY <1>1, <1>2, <1>3, <1>6 DEF OrInv, OutcomeStands, Unaudited, Chain, OneOutcome, Upto, Pending
<1>9. SplitStands'
  BY <1>1, <1>3 DEF OrInv, SplitStands, Split, InPlace, Aside, Swapped, PreviousKept, Whole
<1>. QED BY <1>4, <1>5, <1>7, <1>8, <1>9 DEF OrInv

-------------------------------------------------------------------------------
(* The end of a boot *)

LEMMA ReconcileStep == ASSUME OrInv, Reconcile PROVE OrInv'
<1> DEFINE gone == orLive.erased \cup orLedger
<1>1. /\ orAt = "opened" /\ orAt' = "reconciled" /\ orClosed' = orLedger
      /\ orLive' = [Purge(orLive, gone) EXCEPT !.erased = @ \cup orLedger]
      /\ UNCHANGED <<orStaged, orPrevious, orCleanup, orControl, orOp, orRequests, orBefore>>
      /\ UNCHANGED <<orBundles, orLedger, orContinuity>>
  BY DEF Reconcile, Terminal, orControl
<1>2. /\ orLive \in Gen /\ Whole(orLive) /\ Split(orLive)
      /\ \/ orOp = NoOp \/ Pending("export", {"staged", "finalizing"})
         \/ Pending("restore", {"installed", "finalizing", "rolled_back"})
  <2>1. \/ orOp = NoOp \/ Pending("export", {"staged", "finalizing"})
        \/ Pending("restore", {"installed", "finalizing", "rolled_back"})
    BY <1>1, WhereAt DEF OrInv
  <2>2. Whole(orLive)
    BY <2>1 DEF OrInv, Layout, Pending, Stages, Alone, InPlace, Aside, Swapped, PreviousKept, Whole
  <2>. QED BY <2>1, <2>2 DEF OrInv, OrTyped, SplitStands, Whole
<1>3. /\ orLive' \in Gen /\ orLive'.whole = orLive.whole /\ orLive'.audits = orLive.audits
      /\ orLive'.work = orLive.work /\ orLive'.keys = orLive.keys \ gone
      /\ orLive'.erased = orLive.erased \cup orLedger
  <2>1. gone \subseteq Parties /\ orLedger \subseteq Parties
    BY <1>2 DEF OrInv, OrTyped, Gen
  <2> DEFINE purged == [orLive EXCEPT !.keys = @ \ gone, !.tombs = @ \cup gone]
  <2>2. /\ purged \in Gen /\ purged.whole = orLive.whole /\ purged.audits = orLive.audits
        /\ purged.work = orLive.work /\ purged.keys = orLive.keys \ gone /\ purged.erased = orLive.erased
    <3> HIDE DEF gone
    <3>. QED BY <1>2, <2>1 DEF Gen
  <2>3. orLive' = [purged EXCEPT !.erased = @ \cup orLedger]
    BY <1>1 DEF Purge
  <2> HIDE DEF purged
  <2>. QED BY <2>1, <2>2, <2>3 DEF Gen
<1>4. Whole(orLive') /\ Split(orLive') /\ (Swept(orLive) => Swept(orLive'))
  BY <1>2, <1>3, NoneApart DEF Whole, Split, Swept
<1>5. ChainStands' /\ SplitStands' /\ OutcomeStands'
  BY <1>1, <1>2, <1>3, <1>4, LiveChanges DEF Whole
<1>6. OrTyped'
  BY <1>1, <1>3 DEF OrInv, OrTyped, BootSteps
<1>7. ClosedStands'
  BY <1>1 DEF ClosedStands
<1>8. SweptStands'
  BY <1>1, <1>2, <1>4 DEF OrInv, SweptStands, Swept, Layout, Pending, Stages, Alone, InPlace, Aside, Swapped, PreviousKept, Whole
<1>9. CASE Pending("restore", {"rolled_back"})
  <2>1. (orBefore.keys \ orLedger) \subseteq orLive'.keys
    BY <1>2, <1>3, <1>9 DEF OrInv, Layout, Pending, Split
  <2>2. Layout'
    BY <1>1, <1>3, <1>4, <1>9, <2>1 DEF OrInv, Layout, Pending, Whole
  <2>. QED BY <1>5, <1>6, <1>7, <1>8, <2>2 DEF OrInv
<1>10. CASE orOp = NoOp \/ Pending("export", {"staged", "finalizing"})
            \/ Pending("restore", {"installed", "finalizing"})
  <2>1. Layout'
    BY <1>1, <1>3, <1>4, <1>10 DEF OrInv, Layout, Pending, Stages, Alone, InPlace, Aside, Swapped, PreviousKept, Whole
  <2>. QED BY <1>5, <1>6, <1>7, <1>8, <2>1 DEF OrInv
<1>. QED BY <1>2, <1>9, <1>10 DEF Pending

LEMMA AuditOutcomeStep == ASSUME OrInv, AuditOutcome PROVE OrInv'
<1>1. /\ orAt = "finalizing" /\ orAt' = "audited"
      /\ orLive' = [orLive EXCEPT !.audits = @ \cup {<<orOp.id, "requested">>, <<orOp.id, Outcome>>}]
      /\ UNCHANGED <<orStaged, orPrevious, orCleanup, orControl, orOp, orBefore, orClosed, orRequests>>
      /\ UNCHANGED <<orBundles, orLedger, orContinuity>>
  BY DEF AuditOutcome, Goes, orControl
<1>2. /\ Pending("export", {"finalizing"}) \/ Pending("restore", {"finalizing", "rolled_back"})
      /\ orOp # NoOp /\ orOp.id = orRequests /\ orRequests \in 1..MaxRequests
  BY <1>1, WhereAt DEF OrInv, OrTyped, Pending, Op
<1>3. orLive \in Gen /\ Whole(orLive)
  BY <1>2 DEF OrInv, OrTyped, Layout, Pending, Stages, Alone, InPlace, Aside, Swapped, PreviousKept, Whole
<1>4. Outcome \in Outcomes /\ (Outcome = "completed" <=> orOp.stage = "finalizing")
      /\ (Outcome = "rolled_back" <=> orOp.stage = "rolled_back")
  BY <1>2 DEF Outcome, Outcomes, Pending
<1>5. /\ orLive' \in Gen /\ orLive'.whole = orLive.whole /\ orLive'.work = orLive.work
      /\ orLive'.keys = orLive.keys /\ orLive'.erased = orLive.erased
      /\ orLive'.audits = orLive.audits \cup {<<orRequests, "requested">>, <<orRequests, Outcome>>}
  BY <1>1, <1>2, <1>3, <1>4 DEF Gen, Outcomes
<1>6. orLive' # None
  BY <1>5, NoneApart
<1>7. Chain(orLive')
  <2>1. Upto(orLive', orRequests)
    BY <1>2, <1>3, <1>5 DEF OrInv, ChainStands, Chain, Upto, Whole
  <2>2. \/ Outcome = "completed" /\ <<orRequests, "rolled_back">> \notin orLive.audits
        \/ Outcome = "rolled_back" /\ <<orRequests, "completed">> \notin orLive.audits
    BY <1>2, <1>4 DEF OrInv, OutcomeStands, Pending
  <2>3. OneOutcome(orLive')
    <3>1. OneOutcome(orLive)
      BY <1>3 DEF OrInv, ChainStands, Chain, Whole
    <3>2. ASSUME NEW id \in 1..MaxRequests
          PROVE  <<id, "completed">> \notin orLive'.audits \/ <<id, "rolled_back">> \notin orLive'.audits
      <4>1. /\ <<id, "completed">> \in orLive'.audits =>
                 <<id, "completed">> \in orLive.audits \/ (id = orRequests /\ Outcome = "completed")
            /\ <<id, "rolled_back">> \in orLive'.audits =>
                 <<id, "rolled_back">> \in orLive.audits \/ (id = orRequests /\ Outcome = "rolled_back")
        BY <1>5
      <4>2. <<id, "completed">> \notin orLive.audits \/ <<id, "rolled_back">> \notin orLive.audits
        BY <3>1 DEF OneOutcome
      <4>3. CASE id = orRequests
        BY <2>2, <4>1, <4>2, <4>3
      <4>4. CASE id # orRequests
        BY <4>1, <4>2, <4>4
      <4>. QED BY <4>3, <4>4
    <3>. QED BY <3>2, Zenon DEF OneOutcome
  <2>. QED BY <2>1, <2>3 DEF Chain
<1>8. OrTyped'
  BY <1>1, <1>5 DEF OrInv, OrTyped, BootSteps
<1>9. Layout' /\ SweptStands' /\ ClosedStands'
  BY <1>1, <1>2, <1>5, <1>6 DEF OrInv, Layout, Pending, Stages, Alone, InPlace, Aside, Swapped, PreviousKept, Whole, SweptStands, Swept, ClosedStands
<1>10. ChainStands'
  BY <1>1, <1>7 DEF OrInv, ChainStands, Unaudited, Chain, OneOutcome, Upto
<1>11. OutcomeStands'
  BY <1>1, <1>2, <1>4, <1>5 DEF OrInv, OutcomeStands, Outcome, Pending
<1>12. SplitStands'
  BY <1>1, <1>3, <1>5 DEF OrInv, SplitStands, Split, Whole
<1>. QED BY <1>8, <1>9, <1>10, <1>11, <1>12 DEF OrInv

LEMMA CommitCleanupStep == ASSUME OrInv, CommitCleanup PROVE OrInv'
<1>1. /\ orAt = "audited" /\ orAt' = "audited" /\ InstallState = "swapped"
      /\ orCleanup' = orPrevious /\ orPrevious' = None
      /\ UNCHANGED <<orLive, orStaged, orBundles, orLedger, orContinuity, orOp, orBefore, orClosed, orRequests>>
  BY DEF CommitCleanup, Goes, orControl
<1>2. Pending("restore", {"finalizing"}) /\ Swapped
  BY <1>1, WhereAt, Siblings DEF OrInv, Layout, Pending, Stages, Alone, InPlace, Aside, Swapped, PreviousKept, Whole
<1>3. <<orOp.id, "completed">> \in orLive.audits
  BY <1>1, <1>2 DEF OrInv, OutcomeStands, Outcome, Pending
<1>4. OrTyped'
  BY <1>1 DEF OrInv, OrTyped
<1>5. Layout' /\ SweptStands' /\ ClosedStands'
  BY <1>1, <1>2, <1>3 DEF OrInv, Layout, Pending, Stages, Alone, InPlace, Aside, Swapped, PreviousKept, Whole, SweptStands, Swept, ClosedStands
<1>6. ChainStands'
  BY <1>1 DEF OrInv, ChainStands, Unaudited, Chain, OneOutcome, Upto
<1>7. OutcomeStands' /\ SplitStands'
  BY <1>1, <1>2 DEF OrInv, OutcomeStands, Outcome, Pending, SplitStands, Split
<1>. QED BY <1>4, <1>5, <1>6, <1>7 DEF OrInv

LEMMA RemoveTreeStep == ASSUME OrInv, RemoveTree PROVE OrInv'
<1>1. /\ orAt = "audited" /\ orAt' = "audited"
      /\ UNCHANGED <<orLive, orPrevious, orBundles, orLedger, orContinuity, orOp, orBefore, orClosed, orRequests>>
  BY DEF RemoveTree, Goes, orControl
<1>2. CASE /\ InstallState = "cleanup_committed" /\ orCleanup' \in Shrink(orCleanup) /\ UNCHANGED orStaged
  <2>1. orCleanup \in Gen /\ ~Pending("restore", {"rolled_back"}) /\ orStaged = None /\ orPrevious = None
    BY <1>2, Siblings DEF OrInv, OrTyped, Layout, Pending
  <2>2. Pending("restore", {"finalizing"})
    BY <1>1, <1>2, <2>1, WhereAt, Siblings DEF OrInv, Layout, Pending, Stages, Alone, InPlace, Aside, Swapped, PreviousKept, Whole
  <2>3. orCleanup' \in Gen \cup {None}
    BY <1>2, <2>1 DEF Shrink, Gen
  <2>4. OrTyped'
    BY <1>1, <1>2, <2>3 DEF OrInv, OrTyped
  <2>5. Layout' /\ SweptStands' /\ ClosedStands'
    BY <1>1, <1>2, <2>1, <2>2 DEF OrInv, Layout, Pending, Stages, Alone, InPlace, Aside, Swapped, PreviousKept, Whole, SweptStands, Swept, ClosedStands
  <2>6. ChainStands'
    BY <1>1, <1>2 DEF OrInv, ChainStands, Unaudited, Chain, OneOutcome, Upto
  <2>7. OutcomeStands' /\ SplitStands'
    BY <1>1, <1>2, <2>2 DEF OrInv, OutcomeStands, Outcome, Pending, SplitStands, Split
  <2>. QED BY <2>4, <2>5, <2>6, <2>7 DEF OrInv
<1>3. CASE /\ InstallState = "staged_only" /\ orStaged' \in Shrink(orStaged) /\ UNCHANGED orCleanup
  <2>1. orStaged \in Gen /\ orStaged # None /\ orPrevious = None /\ orCleanup = None
    BY <1>3, Siblings DEF OrInv, OrTyped
  <2>2. Pending("restore", {"rolled_back"})
    BY <1>1, <2>1, WhereAt DEF OrInv, Layout, Pending, Stages, Alone, InPlace, Aside, Swapped, PreviousKept, Whole
  <2>3. /\ orStaged' \in Gen \cup {None}
        /\ orStaged' # None => /\ orStaged'.keys = orStaged.keys /\ orStaged'.erased = orStaged.erased
                               /\ orStaged'.audits = orStaged.audits
    BY <1>3, <2>1 DEF Shrink, Gen
  <2>4. OrTyped'
    BY <1>1, <1>3, <2>3 DEF OrInv, OrTyped
  <2>5. Layout' /\ SweptStands' /\ ClosedStands'
    BY <1>1, <1>3, <2>2 DEF OrInv, Layout, Pending, Stages, Alone, InPlace, Aside, Swapped, PreviousKept, Whole, SweptStands, ClosedStands
  <2>6. ChainStands'
    BY <1>1, <2>1, <2>3 DEF OrInv, ChainStands, Unaudited, Chain, OneOutcome, Upto
  <2>7. OutcomeStands' /\ SplitStands'
    BY <1>1, <2>1, <2>2, <2>3 DEF OrInv, OutcomeStands, Outcome, Pending, SplitStands, Split
  <2>. QED BY <2>4, <2>5, <2>6, <2>7 DEF OrInv
<1>. QED BY <1>2, <1>3 DEF RemoveTree

-------------------------------------------------------------------------------
(* The invariant, and what it gives *)

LEMMA OrInitHolds == OrInit => OrInv
<1> SUFFICES ASSUME OrInit PROVE OrInv
  OBVIOUS
<1>1. /\ orLive \in Gen /\ orLive # None /\ orLive.whole /\ orLive.keys = {} /\ orLive.audits = {}
  <2>1. Fresh \in Gen
    BY RestoreAssumption DEF Fresh, Gen
  <2>. QED BY <2>1, NoneApart DEF OrInit, Fresh
<1>2. OrTyped
  BY <1>1, RestoreAssumption DEF OrInit, OrTyped
<1>3. Layout /\ SweptStands /\ OutcomeStands /\ ClosedStands
  BY <1>1 DEF OrInit, Layout, Pending, Alone, Whole, SweptStands, OutcomeStands, ClosedStands
<1>4. ChainStands /\ SplitStands
  BY <1>1 DEF OrInit, ChainStands, Chain, OneOutcome, Upto, SplitStands, Split
<1>. QED BY <1>2, <1>3, <1>4 DEF OrInv

LEMMA OrStepHolds == OrInv /\ [OrNext]_orVars => OrInv'
<1> SUFFICES ASSUME OrInv, [OrNext]_orVars PROVE OrInv'
  OBVIOUS
<1>1. CASE UNCHANGED orVars
  <2>1. UNCHANGED <<orLive, orStaged, orPrevious, orCleanup, orBundles, orLedger, orContinuity, orOp, orAt,
                    orClosed, orRequests, orBefore>>
    BY <1>1 DEF orVars, orPaths, orControl
  <2>2. OrTyped' /\ Layout' /\ SweptStands' /\ ClosedStands'
    BY <2>1 DEF OrInv, OrTyped, Layout, Pending, Stages, Alone, InPlace, Aside, Swapped, PreviousKept, Whole, SweptStands, Swept, ClosedStands
  <2>3. OutcomeStands'
    BY <2>1 DEF OrInv, OutcomeStands, Outcome, Unaudited, Chain, OneOutcome, Upto, Pending
  <2>4. ChainStands' /\ SplitStands'
    BY <2>1 DEF OrInv, ChainStands, Unaudited, Chain, OneOutcome, Upto, SplitStands, Split
  <2>. QED BY <2>2, <2>3, <2>4 DEF OrInv
<1>2. CASE OrNext
  <2>1. CASE Work \/ \E p \in Parties : Contact(p) \/ RecordErasure(p) \/ EraseLocally(p)
    BY <2>1, WorkStep, ContactStep, RecordErasureStep, EraseLocallyStep
  <2>2. CASE \E n \in Names, kind \in {"export", "restore"} : StageOperation(kind, n)
    BY <2>2, StageOperationStep
  <2>3. CASE OpenAtOnce \/ Publish \/ MarkExported \/ BeginStaging \/ CopySome \/ CopyRest
             \/ ApplyErasures \/ MarkStaged \/ ResumeInstall
    BY <2>3, OpenAtOnceStep, PublishStep, MarkExportedStep, BeginStagingStep, CopySomeStep, CopyRestStep,
       ApplyErasuresStep, MarkStagedStep, ResumeInstallStep
  <2>4. CASE MoveLiveAside \/ MoveStagedIn \/ MarkInstalled \/ RequestRollback \/ ResumeRollback
             \/ MoveRestoredOut \/ MovePreviousBack \/ MarkRolledBack
    BY <2>4, MoveLiveAsideStep, MoveStagedInStep, MarkInstalledStep, RequestRollbackStep, ResumeRollbackStep,
       MoveRestoredOutStep, MovePreviousBackStep, MarkRolledBackStep
  <2>5. CASE Reconcile \/ BeginFinalization \/ AuditOutcome \/ CommitCleanup \/ RemoveTree
             \/ ClearOperation \/ OrKill
    BY <2>5, ReconcileStep, BeginFinalizationStep, AuditOutcomeStep, CommitCleanupStep, RemoveTreeStep,
       ClearOperationStep, OrKillStep
  <2>. QED BY <1>2, <2>1, <2>2, <2>3, <2>4, <2>5 DEF OrNext
<1>. QED BY <1>1, <1>2

LEMMA OrInvErases == OrInv => ErasureOutlivesRestore
<1> SUFFICES ASSUME OrInv PROVE ErasureOutlivesRestore
  OBVIOUS
<1>1. ErasedNeverServed
  BY DEF OrInv, ClosedStands, ErasedNeverServed
<1>2. NoErasedKeyInstalled
  BY DEF OrInv, SweptStands, Swept, NoErasedKeyInstalled
<1>. QED BY <1>1, <1>2 DEF ErasureOutlivesRestore

LEMMA OrInvKeeps ==
    OrInv => /\ OrTypeOK /\ OldGenerationKept /\ RollbackGivesBack
             /\ OpenedIsWhole /\ NeverStuck /\ OneOutcomePerChain
<1> SUFFICES ASSUME OrInv PROVE /\ OrTypeOK /\ OldGenerationKept /\ RollbackGivesBack
                                /\ OpenedIsWhole /\ NeverStuck /\ OneOutcomePerChain
  OBVIOUS
<1>1. orOp = NoOp \/ (orOp \in Op /\ orOp # NoOp /\ orOp.kind \in {"export", "restore"} /\ orOp.stage \in Stages)
  BY WhereAt DEF OrInv, Op
<1>2. OrTypeOK
  <2>1. ASSUME NEW gen \in Gen
        PROVE  /\ gen.whole \in BOOLEAN /\ gen.work \in 0..MaxWork
               /\ gen.keys \cup gen.tombs \cup gen.erased \subseteq Parties
               /\ gen.audits \subseteq (1..MaxRequests) \X {"requested", "completed", "rolled_back"}
    BY DEF Gen, Outcomes
  <2>2. {orLive, orStaged, orPrevious, orCleanup, orBefore} \ {None} \subseteq Gen
    BY DEF OrInv, OrTyped
  <2>3. orOp # NoOp => orOp.name \in Names /\ orOp.id \in 1..MaxRequests
    BY <1>1 DEF Op
  <2>. QED BY <2>1, <2>2, <2>3 DEF OrInv, OrTyped, OrTypeOK
<1>3. OldGenerationKept
  BY <1>1 DEF OrInv, Layout, Pending, Stages, Alone, InPlace, Aside, Swapped, PreviousKept, Whole, OldGenerationKept
<1>4. RollbackGivesBack
  BY DEF OrInv, Layout, Pending, Whole, RollbackGivesBack
<1>5. OpenedIsWhole
  BY WhereAt DEF OrInv, Layout, Pending, Stages, Alone, InPlace, Aside, Swapped, PreviousKept, Whole, OpenedIsWhole, Opened
<1>6. NeverStuck
  <2>1. SUFFICES ASSUME orAt = "down", orOp # NoOp
                 PROVE  \/ orOp.stage = "requested" /\ InstallState \in {"clean", "staged_only"}
                        \/ orOp.stage = "staged" /\ orOp.kind = "export" /\ InstallState = "clean"
                        \/ /\ orOp.stage = "staged" /\ orOp.kind = "restore"
                           /\ InstallState \in {"staged_only", "previous_only", "swapped"}
                        \/ orOp.stage = "installed" /\ InstallState = "swapped"
                        \/ /\ orOp.stage = "finalizing"
                           /\ InstallState \in {"swapped", "cleanup_committed", "clean"}
                        \/ /\ orOp.stage = "rollback_requested"
                           /\ InstallState \in {"swapped", "previous_only", "staged_only"}
                        \/ orOp.stage = "rolled_back" /\ InstallState \in {"staged_only", "clean"}
    BY DEF NeverStuck
  <2>2. CASE orOp.kind = "export"
    BY <1>1, <2>1, <2>2, SiblingsKnown DEF OrInv, Layout, Pending, Alone
  <2>3. CASE orOp.kind = "restore"
    BY <1>1, <2>1, <2>3, SiblingsKnown DEF OrInv, Layout, Pending, Stages, Alone, InPlace, Aside, Swapped, PreviousKept, Whole
  <2>. QED BY <1>1, <2>1, <2>2, <2>3
<1>7. OneOutcomePerChain
  <2>1. \A gen \in {orLive, orPrevious} \ {None} : OneOutcome(gen)
    BY DEF OrInv, ChainStands, Unaudited, Chain
  <2>. QED BY <2>1, Zenon DEF OneOutcome, OneOutcomePerChain
<1>. QED BY <1>2, <1>3, <1>4, <1>5, <1>6, <1>7

(* For any number of counterparties, bundles and operations, and wherever a boot dies: what
   the ledger says is erased (apply_terminal_erasure_delta, reconcile) is neither served
   nor installed. *)
THEOREM ErasureHolds == OrSpec => []ErasureOutlivesRestore
BY OrInitHolds, OrStepHolds, OrInvErases, PTL DEF OrSpec

(* The data root is whole whenever it is opened, the generation a restore replaces is kept
   until the outcome is audited, a rollback gives it back, no boot is stuck
   (install_or_recover, rollback_or_recover), and an operation is over only when its one
   outcome is in the chain that goes on. *)
THEOREM RestoresLoseNothing == OrSpec => RestoreLosesNothing
<1>1. ASSUME OrInv, [OrNext]_orVars
      PROVE  [orOp # NoOp /\ orOp' = NoOp =>
                /\ <<orOp.id, "requested">> \in orLive'.audits
                /\ <<orOp.id, IF orOp.stage = "rolled_back" THEN "rolled_back" ELSE "completed">> \in orLive'.audits
                /\ orStaged' = None /\ orPrevious' = None /\ orCleanup' = None]_orVars
  <2>1. SUFFICES ASSUME OrNext, orOp # NoOp, orOp' = NoOp
                 PROVE  /\ <<orOp.id, "requested">> \in orLive'.audits
                        /\ <<orOp.id, Outcome>> \in orLive'.audits
                        /\ orStaged' = None /\ orPrevious' = None /\ orCleanup' = None
    BY <1>1 DEF Outcome
  <2>2. orOp \in Op
    BY <1>1, <2>1 DEF OrInv, OrTyped
  <2>3. \A s \in Stages : ~ToStage(s)
    BY <2>1, <2>2, StageMoves
  <2>4. ClearOperation
    BY <2>1, <2>3 DEF OrNext, Work, Contact, RecordErasure, EraseLocally, StageOperation, Serve, OpenAtOnce, Publish,
       MarkExported, BeginStaging, CopySome, CopyRest, ApplyErasures, MarkStaged, ResumeInstall, MoveLiveAside,
       MoveStagedIn, MarkInstalled, RequestRollback, ResumeRollback, MoveRestoredOut, MovePreviousBack,
       MarkRolledBack, Reconcile, BeginFinalization, AuditOutcome, CommitCleanup, RemoveTree, OrKill, Stages
  <2>. QED BY <1>1, <2>1, <2>4, Siblings DEF OrInv, OutcomeStands, ClearOperation, Goes, orPaths
<1>. QED BY <1>1, OrInitHolds, OrStepHolds, OrInvKeeps, PTL DEF OrSpec, RestoreLosesNothing, FinishedIsAudited

(* The owner's review of a mined responsibility *)

States == {"unstored", "pending", "approved", "rejected", "narrowed", "expired", "revoked"}
Intents == {"none", "Reject", "Approve", "Narrow", "Pause", "Resume", "Revoke"}
Worlds == [policy : Nat, catalog : {0, 1}]
Review == [state : States, class : Classes, scope : Scopes, root : Ids, prop : {"review_required", "active"},
           verdict : Worlds, last : Intents,
           linked : BOOLEAN]
Rule == [status : {"active", "paused", "revoked", "needs_review"}, version : Nat \ {0}, scope : Scopes,
         catalog : {0, 1}]
RvTyped ==
    /\ rvReviews \in [Ids -> Review \cup {NoReview}]
    /\ rvRules \in [Ids -> Rule \cup {NoRule}]
    /\ rvWorld \in Worlds /\ rvLate \subseteq Ids

(* Identities are given out in order. *)
InOrder == \E k \in Nat : Used = 1..k

(* The root of a review is one of the reviews. *)
RootsStand == \A i \in Used : rvReviews[i].root \in Used

(* Of the reviews of one lineage, one at most has left the drafts and has not been
   narrowed further. *)
Standing(i) == rvReviews[i].state \notin {"unstored", "narrowed"}
OneStanding ==
    \A i, j \in Used : i # j /\ rvReviews[i].root = rvReviews[j].root => ~Standing(i) \/ ~Standing(j)

(* A review linked to a rule has one. *)
LinkedHasRule == \A i \in Used : rvReviews[i].linked => rvRules[i] # NoRule

(* What the miner is about to store, nobody else has seen. *)
MinerStands ==
    rvMiner # Idle =>
        /\ rvMiner.pc = "persist" /\ rvMiner.id \in Used
        /\ rvReviews[rvMiner.id].state = "unstored" /\ rvReviews[rvMiner.id].root = rvMiner.id
        /\ \A i \in Used : rvReviews[i].root = rvMiner.id => i = rvMiner.id

(* What a decision under way has read still holds, and a revocation has ended the rule
   of the version that was reviewed. *)
TaskStands ==
    rvTask # Idle =>
        /\ rvTask.id \in Used /\ rvReviews[rvTask.id].state # "unstored"
        /\ rvTask.pc \in {"Approve", "Narrow", "supersede", "commit"}
        /\ rvTask.pc = "supersede" =>
             /\ rvTask.by \in Used /\ rvReviews[rvTask.by].state = "unstored"
             /\ rvReviews[rvTask.by].root = rvReviews[rvTask.id].root
             /\ rvReviews[rvTask.by].root # rvTask.by
        /\ rvTask.pc = "commit" =>
             /\ rvTask.intent \in {"Pause", "Resume", "Revoke"}
             /\ rvReviews[rvTask.id].state = rvTask.seen
             /\ rvTask.intent = "Revoke" => ~Live(rvRules[rvTask.id]) \/ rvRules[rvTask.id].version # 1

RvInv == /\ RvTyped /\ InOrder /\ RootsStand /\ OneStanding /\ LinkedHasRule /\ LiveAsReviewed
         /\ MinerStands /\ TaskStands

LEMMA MissingRows == NoReview \notin Review /\ NoRule \notin Rule /\ NoReview.state = "none" /\ NoRule.status = "none"
BY DEF NoReview, NoRule, Review, Rule, States

LEMMA UsedIs == RvTyped => \A i \in Ids : i \in Used <=> rvReviews[i] \in Review
BY MissingRows DEF RvTyped, Used
LEMMA UsedIsNext == RvTyped' => \A i \in Ids : i \in Used' <=> rvReviews'[i] \in Review
BY MissingRows DEF RvTyped, Used

(* One row of the reviews is written. *)
LEMMA Rewritten ==
    ASSUME RvTyped, NEW i \in Used, NEW r \in Review, rvReviews' = [rvReviews EXCEPT ![i] = r]
    PROVE  /\ rvReviews' \in [Ids -> Review \cup {NoReview}] /\ Used' = Used
           /\ rvReviews'[i] = r /\ \A j \in Ids : j # i => rvReviews'[j] = rvReviews[j]
<1>1. i \in Ids /\ rvReviews[i] \in Review
  BY UsedIs DEF Used
<1>2. /\ rvReviews' \in [Ids -> Review \cup {NoReview}] /\ rvReviews'[i] = r
      /\ \A j \in Ids : j # i => rvReviews'[j] = rvReviews[j]
  BY <1>1 DEF RvTyped
<1>3. Used' = Used
  BY <1>1, <1>2, MissingRows DEF Used
<1>. QED BY <1>2, <1>3

(* A decision that ends a review, or leaves it where it is. *)
LEMMA Answered ==
    ASSUME RvInv, NEW i \in Used, NEW r \in Review, rvReviews' = [rvReviews EXCEPT ![i] = r],
           r.root = rvReviews[i].root, r.linked = rvReviews[i].linked, r.scope = rvReviews[i].scope,
           rvReviews[i].state # "unstored", r.state # "unstored",
           r.state # "narrowed" => Standing(i),
           rvReviews[i].state = "approved" =>
               r.state = "approved" \/ ~Live(rvRules[i]) \/ rvRules[i].version # 1,
           UNCHANGED <<rvRules, rvWorld, rvLate, rvMiner>>, rvTask' = Idle
    PROVE  RvInv'
<1>1. /\ rvReviews' \in [Ids -> Review \cup {NoReview}] /\ Used' = Used /\ i \in Ids
      /\ rvReviews'[i] = r /\ \A j \in Ids : j # i => rvReviews'[j] = rvReviews[j]
  BY Rewritten DEF RvInv, Used
<1>2. RvTyped' /\ InOrder'
  BY <1>1 DEF RvInv, RvTyped, InOrder
<1>3. OneStanding'
  <2>1. \A j \in Used : /\ rvReviews'[j].root = rvReviews[j].root
                        /\ Standing(j)' => Standing(j)
    BY <1>1 DEF Standing, Used
  <2>. QED BY <1>1, <2>1 DEF RvInv, OneStanding
<1>4. LinkedHasRule' /\ LiveAsReviewed'
  <2>1. \A j \in Used : rvReviews'[j].linked = rvReviews[j].linked
    BY <1>1 DEF Used
  <2>2. LinkedHasRule'
    BY <1>1, <2>1 DEF RvInv, LinkedHasRule
  <2>3. ASSUME NEW j \in Ids, Live(rvRules[j]), rvRules[j].version = 1
        PROVE  /\ rvReviews'[j].state = "approved" /\ rvReviews'[j].linked
               /\ rvRules[j].scope = rvReviews'[j].scope
    BY <1>1, <2>3 DEF RvInv, LiveAsReviewed
  <2>4. LiveAsReviewed'
    BY <2>3 DEF LiveAsReviewed, Live
  <2>. QED BY <2>2, <2>4
<1>5. MinerStands'
  <2>1. \A j \in Used : rvReviews'[j].root = rvReviews[j].root
    BY <1>1 DEF Used
  <2>2. rvMiner # Idle => rvReviews'[rvMiner.id].state = rvReviews[rvMiner.id].state
    BY <1>1 DEF RvInv, MinerStands, Used
  <2>. QED BY <1>1, <2>1, <2>2 DEF RvInv, MinerStands
<1>6. TaskStands'
  BY DEF TaskStands
<1>7. RootsStand'
  BY <1>1 DEF RvInv, RootsStand, Used
<1>. QED BY <1>2, <1>3, <1>4, <1>5, <1>6, <1>7 DEF RvInv

LEMMA DecideLateStep == ASSUME RvInv, NEW i \in Ids, DecideLate(i) PROVE RvInv'
<1>1. i \in Used /\ rvReviews[i] \in Review /\ rvReviews[i].state = "pending"
  BY UsedIs DEF DecideLate, RvInv
<1>2. PICK r : r = [rvReviews[i] EXCEPT !.state = "expired"]
  OBVIOUS
<1>3. /\ r \in Review /\ r.state = "expired" /\ r.root = rvReviews[i].root
      /\ r.linked = rvReviews[i].linked /\ r.scope = rvReviews[i].scope
  BY <1>1, <1>2 DEF Review, States
<1>4. /\ rvReviews' = [rvReviews EXCEPT ![i] = r]
      /\ UNCHANGED <<rvRules, rvWorld, rvLate, rvMiner>> /\ rvTask' = Idle
  BY <1>2 DEF DecideLate
<1>. QED BY <1>1, <1>3, <1>4, Answered DEF Standing

LEMMA RejectStep == ASSUME RvInv, NEW i \in Ids, Reject(i) PROVE RvInv'
<1>1. i \in Used /\ rvReviews[i] \in Review /\ rvReviews[i].state = "pending"
  BY UsedIs DEF Reject, Asked, Decidable, RvInv
<1>2. PICK r : r = [rvReviews[i] EXCEPT !.state = "rejected", !.last = "Reject"]
  OBVIOUS
<1>3. /\ r \in Review /\ r.state = "rejected" /\ r.root = rvReviews[i].root
      /\ r.linked = rvReviews[i].linked /\ r.scope = rvReviews[i].scope
  BY <1>1, <1>2 DEF Review, States, Intents
<1>4. /\ rvReviews' = [rvReviews EXCEPT ![i] = r]
      /\ UNCHANGED <<rvRules, rvWorld, rvLate, rvMiner>> /\ rvTask' = Idle
  BY <1>1, <1>2 DEF Reject, Asked, Decidable, RvInv, RvTyped
<1>. QED BY <1>1, <1>3, <1>4, Answered DEF Standing

(* A step that leaves the reviews, and no new rule of a reviewed version. *)
LEMMA RulesMove ==
    ASSUME RvInv, UNCHANGED rvReviews,
           rvRules' \in [Ids -> Rule \cup {NoRule}], rvWorld' \in Worlds, rvLate' \subseteq Ids,
           \A i \in Ids : Live(rvRules'[i]) /\ rvRules'[i].version = 1 =>
               Live(rvRules[i]) /\ rvRules[i].version = 1 /\ rvRules'[i].scope = rvRules[i].scope,
           \A i \in Ids : rvRules[i] # NoRule => rvRules'[i] # NoRule,
           rvMiner' \in {rvMiner, Idle}, TaskStands'
    PROVE  RvInv'
<1>1. Used' = Used /\ RvTyped' /\ InOrder'
  BY DEF RvInv, RvTyped, InOrder, Used
<1>2. OneStanding' /\ MinerStands'
  BY <1>1 DEF RvInv, OneStanding, Standing, MinerStands
<1>3. LinkedHasRule'
  BY <1>1 DEF RvInv, LinkedHasRule, Used
<1>4. LiveAsReviewed'
  <2>1. \A i \in Ids : Live(rvRules'[i]) /\ rvRules'[i].version = 1 =>
          /\ rvReviews[i].state = "approved" /\ rvReviews[i].linked
          /\ rvRules'[i].scope = rvReviews[i].scope
    BY DEF RvInv, LiveAsReviewed
  <2>. QED BY <2>1 DEF LiveAsReviewed, Live
<1>5. RootsStand'
  BY <1>1 DEF RvInv, RootsStand
<1>. QED BY <1>1, <1>2, <1>3, <1>4, <1>5 DEF RvInv

LEMMA VerifyStep == ASSUME RvInv, NEW i \in Ids, NEW intent \in {"Approve", "Narrow"}, Verify(i, intent) PROVE RvInv'
<1>1. /\ i \in Used /\ rvReviews[i].state # "unstored" /\ rvTask' = [pc |-> intent, id |-> i]
      /\ UNCHANGED <<rvReviews, rvRules, rvWorld, rvLate, rvMiner>>
  BY DEF Verify, Asked, Decidable
<1>2. TaskStands'
  BY <1>1 DEF TaskStands, Used
<1>. QED BY <1>1, <1>2, RulesMove DEF RvInv, RvTyped

LEMMA WorldSteps ==
    ASSUME RvInv, (\E i \in Ids : ReviewExpires(i)) \/ PolicyChanges \/ WriteFails \/ CrashAndStart
    PROVE  RvInv'
<1>1. /\ UNCHANGED <<rvReviews, rvRules>> /\ rvMiner' \in {rvMiner, Idle} /\ rvTask' \in {rvTask, Idle}
      /\ rvLate' \subseteq Ids
  BY DEF ReviewExpires, PolicyChanges, WriteFails, CrashAndStart, RvInv, RvTyped
<1>2. rvWorld' \in Worlds
  BY DEF ReviewExpires, PolicyChanges, WriteFails, CrashAndStart, RvInv, RvTyped, Worlds
<1>3. TaskStands'
  BY <1>1 DEF RvInv, TaskStands, Used, Live
<1>. QED BY <1>1, <1>2, <1>3, RulesMove DEF RvInv, RvTyped

LEMMA FlipStep ==
    ASSUME RvInv, NEW i \in Ids, NEW intent \in {"Pause", "Resume", "Revoke"}, Flip(i, intent)
    PROVE  RvInv'
<1>1. /\ i \in Used /\ rvReviews[i].state # "unstored" /\ rvReviews[i].linked
      /\ rvTask' = [pc |-> "commit", id |-> i, intent |-> intent, seen |-> rvReviews[i].state]
      /\ UNCHANGED <<rvReviews, rvWorld, rvLate, rvMiner>>
  BY DEF Flip, Asked, Decidable
<1>2. rvRules[i] \in Rule
  BY <1>1 DEF RvInv, LinkedHasRule, RvTyped
<1>3. PICK s \in {"active", "paused", "revoked"} :
        /\ rvRules' = [rvRules EXCEPT ![i].status = s]
        /\ intent = "Revoke" => s = "revoked"
        /\ s # "revoked" => Live(rvRules[i])
  <2>1. CASE UNCHANGED rvRules /\ rvRules[i].status \in {"active", "paused"} /\ intent # "Revoke"
    <3>1. rvRules' = [rvRules EXCEPT ![i].status = rvRules[i].status]
      BY <1>2, <2>1 DEF RvInv, RvTyped, Rule
    <3>. QED BY <2>1, <3>1 DEF Live
  <2>2. CASE ~(UNCHANGED rvRules /\ rvRules[i].status \in {"active", "paused"} /\ intent # "Revoke")
    BY <2>2 DEF Flip, Resumable, Live
  <2>. QED BY <2>1, <2>2
<1>4. /\ rvRules'[i] \in Rule /\ rvRules'[i].status = s /\ rvRules'[i].version = rvRules[i].version
      /\ rvRules'[i].scope = rvRules[i].scope
      /\ \A j \in Ids : j # i => rvRules'[j] = rvRules[j]
      /\ rvRules' \in [Ids -> Rule \cup {NoRule}]
  <2>1. PICK u : u = [rvRules[i] EXCEPT !.status = s]
    OBVIOUS
  <2>2. u \in Rule /\ u.status = s /\ u.version = rvRules[i].version /\ u.scope = rvRules[i].scope
    BY <1>2, <2>1 DEF Rule
  <2>3. rvRules' = [rvRules EXCEPT ![i] = u]
    BY <1>3, <2>1
  <2>. QED BY <2>2, <2>3 DEF RvInv, RvTyped
<1>5. TaskStands'
  BY <1>1, <1>3, <1>4 DEF TaskStands, Used, Live
<1>6. /\ \A j \in Ids : rvRules[j] # NoRule => rvRules'[j] # NoRule
      /\ \A j \in Ids : Live(rvRules'[j]) /\ rvRules'[j].version = 1 =>
           Live(rvRules[j]) /\ rvRules[j].version = 1 /\ rvRules'[j].scope = rvRules[j].scope
  BY <1>3, <1>4, MissingRows DEF Live
<1>. QED BY <1>1, <1>4, <1>5, <1>6, RulesMove DEF RvInv, RvTyped

LEMMA RuleEndsStep == ASSUME RvInv, NEW i \in Ids, RuleEnds(i) PROVE RvInv'
<1>1. /\ UNCHANGED <<rvReviews, rvWorld, rvLate, rvMiner, rvTask>> /\ rvRules[i].status # "none"
  BY DEF RuleEnds
<1>2. PICK s \in {"revoked", "needs_review"} : rvRules' = [rvRules EXCEPT ![i].status = s]
  BY DEF RuleEnds
<1>3. rvRules[i] \in Rule
  BY <1>1, MissingRows DEF RvInv, RvTyped
<1>4. /\ rvRules'[i] \in Rule /\ ~Live(rvRules'[i])
      /\ \A j \in Ids : j # i => rvRules'[j] = rvRules[j]
      /\ rvRules' \in [Ids -> Rule \cup {NoRule}]
  <2>1. PICK u : u = [rvRules[i] EXCEPT !.status = s]
    OBVIOUS
  <2>2. u \in Rule /\ ~Live(u)
    BY <1>3, <2>1 DEF Rule, Live
  <2>3. rvRules' = [rvRules EXCEPT ![i] = u]
    BY <1>2, <2>1
  <2>. QED BY <2>2, <2>3 DEF RvInv, RvTyped
<1>5. /\ \A j \in Ids : rvRules[j] # NoRule => rvRules'[j] # NoRule
      /\ \A j \in Ids : Live(rvRules'[j]) => rvRules'[j] = rvRules[j]
  BY <1>4, MissingRows
<1>6. TaskStands'
  BY <1>1, <1>5 DEF RvInv, TaskStands, Used, Live
<1>. QED BY <1>1, <1>4, <1>5, <1>6, RulesMove DEF RvInv, RvTyped

(* An activation makes one rule live, and no other. *)
LEMMA ActivatedIs ==
    ASSUME RvInv, NEW i \in Used, NEW version \in Nat \ {0}, rvRules' = Activated(i, version)
    PROVE  /\ rvRules' \in [Ids -> Rule \cup {NoRule}]
           /\ rvRules'[i].status = "active" /\ rvRules'[i].version = version
           /\ rvRules'[i].scope = rvReviews[i].scope /\ rvRules'[i] # NoRule
           /\ \A j \in Ids : j # i /\ Live(rvRules'[j]) => rvRules'[j] = rvRules[j]
           /\ \A j \in Ids : rvRules[j] # NoRule => rvRules'[j] # NoRule
<1>1. i \in Ids /\ rvReviews[i] \in Review
  BY UsedIs DEF RvInv, Used
<1>2. PICK u : u = [status |-> "active", version |-> version, scope |-> rvReviews[i].scope,
                    catalog |-> rvReviews[i].verdict.catalog]
  OBVIOUS
<1>3. u \in Rule /\ u # NoRule
  BY <1>1, <1>2, MissingRows DEF Review, Rule, Worlds
<1>4. rvRules'[i] = u /\ rvRules' = [j \in Ids |-> rvRules'[j]]
  BY <1>1, <1>2 DEF Activated
<1>5. ASSUME NEW j \in Ids, j # i
      PROVE  /\ rvRules'[j] \in Rule \cup {NoRule}
             /\ Live(rvRules'[j]) => rvRules'[j] = rvRules[j]
             /\ rvRules[j] # NoRule => rvRules'[j] # NoRule
  <2>1. CASE Live(rvRules[j]) /\ rvRules[j].scope = rvReviews[i].scope
    <3>1. rvRules[j] \in Rule
      BY <2>1, MissingRows DEF RvInv, RvTyped, Live
    <3>2. rvRules'[j] = [rvRules[j] EXCEPT !.status = "revoked"]
      BY <1>5, <2>1 DEF Activated
    <3>3. rvRules'[j] \in Rule /\ ~Live(rvRules'[j])
      BY <3>1, <3>2 DEF Rule, Live
    <3>. QED BY <3>3, MissingRows
  <2>2. CASE ~(Live(rvRules[j]) /\ rvRules[j].scope = rvReviews[i].scope)
    <3>1. rvRules'[j] = rvRules[j]
      BY <1>5, <2>2 DEF Activated
    <3>. QED BY <3>1 DEF RvInv, RvTyped
  <2>. QED BY <2>1, <2>2
<1>. QED BY <1>1, <1>2, <1>3, <1>4, <1>5

LEMMA ActivateDirectStep == ASSUME RvInv, NEW i \in Ids, ActivateDirect(i) PROVE RvInv'
<1>1. i \in Used /\ UNCHANGED <<rvReviews, rvWorld, rvLate, rvMiner, rvTask>>
  BY DEF ActivateDirect
<1>2. PICK v : /\ v = 1 + (IF rvRules[i] = NoRule THEN 1 ELSE rvRules[i].version)
              /\ rvRules' = Activated(i, v)
  BY DEF ActivateDirect
<1>3. v \in Nat /\ v > 1
  BY <1>2 DEF RvInv, RvTyped, Rule
<1>4. /\ rvRules' \in [Ids -> Rule \cup {NoRule}] /\ rvRules'[i].version # 1
      /\ \A j \in Ids : j # i /\ Live(rvRules'[j]) => rvRules'[j] = rvRules[j]
      /\ \A j \in Ids : rvRules[j] # NoRule => rvRules'[j] # NoRule
  BY <1>1, <1>2, <1>3, ActivatedIs
<1>5. TaskStands'
  BY <1>1, <1>4 DEF RvInv, TaskStands, Used, Live
<1>. QED BY <1>1, <1>4, <1>5, RulesMove DEF RvInv, RvTyped

LEMMA CommitLifecycleStep == ASSUME RvInv, CommitLifecycle PROVE RvInv'
<1> DEFINE i == rvTask.id
<1>1. /\ rvTask.pc = "commit" /\ rvTask' = Idle /\ rvTask # Idle
      /\ UNCHANGED <<rvRules, rvWorld, rvLate, rvMiner>>
  BY DEF CommitLifecycle, Idle
<1>2. /\ i \in Used /\ rvReviews[i] \in Review /\ rvReviews[i].state # "unstored"
      /\ rvTask.intent \in {"Pause", "Resume", "Revoke"} /\ rvReviews[i].state = rvTask.seen
      /\ rvTask.intent = "Revoke" => ~Live(rvRules[i]) \/ rvRules[i].version # 1
  BY <1>1, UsedIs DEF RvInv, TaskStands, Used
<1>3. CASE UNCHANGED rvReviews
  <2>1. TaskStands'
    BY <1>1 DEF TaskStands
  <2>. QED BY <1>1, <1>3, <2>1, RulesMove DEF RvInv, RvTyped
<1>4. CASE /\ rvTask.intent = "Revoke" => rvTask.seen = "approved"
           /\ rvReviews' = [rvReviews EXCEPT
                 ![i].last = rvTask.intent,
                 ![i].state = IF rvTask.intent = "Revoke" THEN "revoked" ELSE @]
  <2>1. PICK r : r = [rvReviews[i] EXCEPT !.last = rvTask.intent,
                                          !.state = IF rvTask.intent = "Revoke" THEN "revoked" ELSE @]
    OBVIOUS
  <2>2. /\ r \in Review /\ r.root = rvReviews[i].root /\ r.linked = rvReviews[i].linked
        /\ r.scope = rvReviews[i].scope
        /\ r.state = IF rvTask.intent = "Revoke" THEN "revoked" ELSE rvReviews[i].state
    BY <1>2, <2>1 DEF Review, States, Intents
  <2>3. rvReviews' = [rvReviews EXCEPT ![i] = r]
    BY <1>2, <1>4, <2>1 DEF RvInv, RvTyped, Used
  <2>4. r.state # "unstored" /\ (r.state # "narrowed" => Standing(i))
    BY <1>2, <1>4, <2>2 DEF Standing
  <2>. QED BY <1>1, <1>2, <2>2, <2>3, <2>4, Answered
<1>. QED BY <1>3, <1>4 DEF CommitLifecycle

LEMMA NextIsNew ==
    ASSUME RvTyped, InOrder, NEW j, NextId(j)
    PROVE  /\ j \in Ids /\ j \notin Used /\ rvReviews[j] = NoReview
           /\ j \in Nat /\ Used \cup {j} = 1..j
<1>1. PICK k \in Nat : Used = 1..k
  BY DEF InOrder
<1>2. Cardinality(Used) = k
  BY <1>1, FS_Interval
<1>3. j \in Ids /\ j = k + 1
  BY <1>2 DEF NextId
<1>4. j \notin Used
  BY <1>1, <1>3
<1>. QED BY <1>1, <1>3, <1>4 DEF Used

(* A proposal takes the next identity and leaves the rest. *)
LEMMA Proposed ==
    ASSUME RvInv, NEW j, NextId(j), NEW c \in Classes, NEW s \in Scopes, NEW root \in Used \cup {j},
           rvReviews' = [rvReviews EXCEPT ![j] = Proposal(c, s, root)],
           UNCHANGED <<rvRules, rvWorld, rvLate>>
    PROVE  /\ RvTyped' /\ InOrder' /\ OneStanding' /\ LinkedHasRule' /\ LiveAsReviewed'
           /\ j \in Ids /\ j \notin Used /\ Used' = Used \cup {j}
           /\ rvReviews'[j].state = "unstored" /\ rvReviews'[j].root = root
           /\ \A i \in Ids : i # j => rvReviews'[i] = rvReviews[i]
<1>1. j \in Ids /\ j \notin Used /\ rvReviews[j] = NoReview /\ j \in Nat /\ Used \cup {j} = 1..j
  BY NextIsNew DEF RvInv
<1>2. PICK r : r = Proposal(c, s, root)
  OBVIOUS
<1>3. r \in Review /\ r.state = "unstored" /\ r.root = root /\ r.linked = FALSE
  BY <1>1, <1>2 DEF Proposal, Review, States, Intents, RvInv, RvTyped, Used
<1>4. /\ rvReviews' \in [Ids -> Review \cup {NoReview}] /\ rvReviews'[j] = r
      /\ \A i \in Ids : i # j => rvReviews'[i] = rvReviews[i]
  BY <1>1, <1>2, <1>3 DEF RvInv, RvTyped
<1>5. Used' = Used \cup {j}
  BY <1>1, <1>3, <1>4, MissingRows DEF Used
<1>6. RvTyped' /\ InOrder'
  BY <1>1, <1>4, <1>5 DEF RvInv, RvTyped, InOrder
<1>7. OneStanding'
  <2>1. ASSUME NEW x \in Used', NEW y \in Used', x # y, rvReviews'[x].root = rvReviews'[y].root
        PROVE  ~Standing(x)' \/ ~Standing(y)'
    <3>1. CASE x = j \/ y = j
      BY <1>3, <1>4, <3>1 DEF Standing
    <3>2. CASE x # j /\ y # j
      <4>1. x \in Used /\ y \in Used /\ rvReviews'[x] = rvReviews[x] /\ rvReviews'[y] = rvReviews[y]
        BY <1>4, <1>5, <2>1, <3>2 DEF Used
      <4>2. ~Standing(x) \/ ~Standing(y)
        BY <2>1, <4>1 DEF RvInv, OneStanding
      <4>. QED BY <4>1, <4>2 DEF Standing
    <3>. QED BY <3>1, <3>2
  <2>. QED BY <2>1 DEF OneStanding
<1>8. LinkedHasRule'
  BY <1>3, <1>4, <1>5 DEF RvInv, LinkedHasRule, Used
<1>9. LiveAsReviewed'
  <2>1. ASSUME NEW i \in Ids, Live(rvRules[i]), rvRules[i].version = 1
        PROVE  rvReviews'[i] = rvReviews[i]
    <3>1. rvReviews[i].state = "approved"
      BY <2>1 DEF RvInv, LiveAsReviewed
    <3>. QED BY <1>1, <1>4, <3>1, MissingRows
  <2>. QED BY <2>1 DEF RvInv, LiveAsReviewed, Live
<1>. QED BY <1>1, <1>3, <1>4, <1>5, <1>6, <1>7, <1>8, <1>9

LEMMA MinerProposeStep == ASSUME RvInv, NEW c \in Classes, NEW s \in Scopes, MinerPropose(c, s) PROVE RvInv'
<1>1. PICK j \in Ids : /\ NextId(j) /\ rvReviews' = [rvReviews EXCEPT ![j] = Proposal(c, s, j)]
                       /\ rvMiner' = [pc |-> "persist", id |-> j]
                       /\ UNCHANGED <<rvRules, rvWorld, rvLate, rvTask, rvSpent>>
  BY DEF MinerPropose
<1>2. /\ RvTyped' /\ InOrder' /\ OneStanding' /\ LinkedHasRule' /\ LiveAsReviewed'
      /\ j \in Ids /\ j \notin Used /\ Used' = Used \cup {j}
      /\ rvReviews'[j].state = "unstored" /\ rvReviews'[j].root = j
      /\ \A i \in Ids : i # j => rvReviews'[i] = rvReviews[i]
  BY <1>1, Proposed
<1>3. \A i \in Used : rvReviews[i].root \in Used
  BY DEF RvInv, RootsStand
<1>4. MinerStands'
  BY <1>1, <1>2, <1>3 DEF MinerStands, Used
<1>5. RootsStand'
  BY <1>2, <1>3 DEF RootsStand, Used
<1>6. TaskStands'
  BY <1>1, <1>2 DEF RvInv, TaskStands, Used, Live
<1>. QED BY <1>2, <1>4, <1>5, <1>6 DEF RvInv

(* A stored review: a draft that becomes the one its lineage waits for. *)
LEMMA MinerPersistStep == ASSUME RvInv, MinerPersist PROVE RvInv'
<1> DEFINE i == rvMiner.id
<1>1. /\ rvMiner # Idle /\ rvMiner' = Idle
      /\ rvReviews' = [rvReviews EXCEPT ![i].state = "pending"]
      /\ UNCHANGED <<rvRules, rvWorld, rvLate, rvTask>>
  BY DEF MinerPersist, Idle
<1>2. /\ i \in Used /\ rvReviews[i] \in Review /\ rvReviews[i].state = "unstored" /\ rvReviews[i].root = i
      /\ \A j \in Used : rvReviews[j].root = i => j = i
  BY <1>1, UsedIs DEF RvInv, MinerStands, Used
<1>3. PICK r : r = [rvReviews[i] EXCEPT !.state = "pending"]
  OBVIOUS
<1>4. /\ r \in Review /\ r.state = "pending" /\ r.root = i
      /\ r.linked = rvReviews[i].linked /\ r.scope = rvReviews[i].scope
  BY <1>2, <1>3 DEF Review, States
<1>5. /\ rvReviews' \in [Ids -> Review \cup {NoReview}] /\ Used' = Used /\ i \in Ids
      /\ rvReviews'[i] = r /\ \A j \in Ids : j # i => rvReviews'[j] = rvReviews[j]
  <2>1. rvReviews' = [rvReviews EXCEPT ![i] = r]
    BY <1>1, <1>3
  <2>. QED BY <1>2, <1>4, <2>1, Rewritten DEF RvInv, Used
<1>6. RvTyped' /\ InOrder' /\ MinerStands'
  BY <1>1, <1>5 DEF RvInv, RvTyped, InOrder, MinerStands
<1>7. RootsStand' /\ LinkedHasRule'
  BY <1>1, <1>2, <1>4, <1>5 DEF RvInv, RootsStand, LinkedHasRule, Used
<1>8. OneStanding'
  <2>1. \A j \in Used : rvReviews'[j].root = rvReviews[j].root
    BY <1>2, <1>4, <1>5 DEF Used
  <2>2. ASSUME NEW x \in Used, NEW y \in Used, x # y, rvReviews[x].root = rvReviews[y].root
        PROVE  ~Standing(x)' \/ ~Standing(y)'
    <3>1. x # i /\ y # i
      BY <1>2, <2>2
    <3>2. ~Standing(x) \/ ~Standing(y)
      BY <2>2 DEF RvInv, OneStanding
    <3>. QED BY <1>5, <3>1, <3>2 DEF Standing, Used
  <2>. QED BY <1>5, <2>1, <2>2 DEF OneStanding
<1>9. LiveAsReviewed'
  <2>1. ASSUME NEW j \in Ids, Live(rvRules[j]), rvRules[j].version = 1
        PROVE  rvReviews'[j] = rvReviews[j]
    BY <1>2, <1>5, <2>1 DEF RvInv, LiveAsReviewed
  <2>. QED BY <1>1, <2>1 DEF RvInv, LiveAsReviewed, Live
<1>10. TaskStands'
  <2>1. rvTask # Idle => rvTask.id \in Ids /\ rvTask.id # i
    BY <1>2 DEF RvInv, TaskStands, Used
  <2>2. rvTask # Idle /\ rvTask.pc = "supersede" => rvTask.by \in Ids /\ rvTask.by # i
    BY <1>2 DEF RvInv, TaskStands, Used
  <2>. QED BY <1>1, <1>5, <2>1, <2>2 DEF RvInv, TaskStands, Live
<1>. QED BY <1>6, <1>7, <1>8, <1>9, <1>10 DEF RvInv

(* The activation, when the transaction finds the review as the owner saw it. *)
LEMMA ActivateStep == ASSUME RvInv, Activate PROVE RvInv'
<1> DEFINE i == rvTask.id
<1>1. /\ rvTask # Idle /\ rvTask' = Idle /\ UNCHANGED <<rvWorld, rvLate, rvMiner>>
  BY DEF Activate, Idle
<1>2. i \in Used /\ i \in Ids /\ rvReviews[i] \in Review
  BY <1>1, UsedIs DEF RvInv, TaskStands, Used
<1>3. TaskStands'
  BY <1>1 DEF TaskStands
<1>4. CASE UNCHANGED <<rvReviews, rvRules>>
  BY <1>1, <1>3, <1>4, RulesMove DEF RvInv, RvTyped
<1>5. CASE /\ rvRules[i] = NoRule /\ MayApprove(i)
           /\ rvRules' = Activated(i, 1)
           /\ rvReviews' = [rvReviews EXCEPT ![i].state = "approved", ![i].last = "Approve",
                                             ![i].prop = "active", ![i].linked = TRUE]
  <2>1. rvReviews[i].state = "pending"
    BY <1>5 DEF MayApprove
  <2>2. PICK r : r = [rvReviews[i] EXCEPT !.state = "approved", !.last = "Approve",
                                          !.prop = "active", !.linked = TRUE]
    OBVIOUS
  <2>3. /\ r \in Review /\ r.state = "approved" /\ r.root = rvReviews[i].root /\ r.linked = TRUE
        /\ r.scope = rvReviews[i].scope
    BY <1>2, <2>2 DEF Review, States, Intents
  <2>4. rvReviews' = [rvReviews EXCEPT ![i] = r]
    BY <1>2, <1>5, <2>2 DEF RvInv, RvTyped
  <2>5. /\ rvReviews' \in [Ids -> Review \cup {NoReview}] /\ Used' = Used
        /\ rvReviews'[i] = r /\ \A j \in Ids : j # i => rvReviews'[j] = rvReviews[j]
    BY <1>2, <2>3, <2>4, Rewritten DEF RvInv
  <2>6. /\ rvRules' \in [Ids -> Rule \cup {NoRule}]
        /\ rvRules'[i].scope = rvReviews[i].scope /\ rvRules'[i] # NoRule
        /\ \A j \in Ids : j # i /\ Live(rvRules'[j]) => rvRules'[j] = rvRules[j]
        /\ \A j \in Ids : rvRules[j] # NoRule => rvRules'[j] # NoRule
    BY <1>2, <1>5, ActivatedIs
  <2>7. RvTyped' /\ InOrder'
    BY <1>1, <2>5, <2>6 DEF RvInv, RvTyped, InOrder
  <2>8. \A j \in Used : rvReviews'[j].root = rvReviews[j].root
    BY <2>3, <2>5 DEF Used
  <2>9. RootsStand' /\ MinerStands'
    <3>1. rvMiner # Idle => rvReviews'[rvMiner.id].state = rvReviews[rvMiner.id].state
      BY <2>1, <2>5 DEF RvInv, MinerStands, Used
    <3>. QED BY <1>1, <2>5, <2>8, <3>1 DEF RvInv, RootsStand, MinerStands
  <2>10. OneStanding'
    <3>1. \A j \in Used : Standing(j)' => Standing(j)
      BY <2>1, <2>5 DEF Standing, Used
    <3>. QED BY <2>5, <2>8, <3>1 DEF RvInv, OneStanding
  <2>11. LinkedHasRule'
    BY <2>5, <2>6 DEF RvInv, LinkedHasRule, Used
  <2>12. LiveAsReviewed'
    <3>1. ASSUME NEW j \in Ids, Live(rvRules'[j]), rvRules'[j].version = 1
          PROVE  /\ rvReviews'[j].state = "approved" /\ rvReviews'[j].linked
                 /\ rvRules'[j].scope = rvReviews'[j].scope
      <4>1. CASE j = i
        BY <2>3, <2>5, <2>6, <4>1
      <4>2. CASE j # i
        BY <2>5, <2>6, <3>1, <4>2 DEF RvInv, LiveAsReviewed
      <4>. QED BY <4>1, <4>2
    <3>. QED BY <3>1 DEF LiveAsReviewed, Live
  <2>. QED BY <1>3, <2>7, <2>9, <2>10, <2>11, <2>12 DEF RvInv
<1>. QED BY <1>4, <1>5 DEF Activate

LEMMA NarrowProposeStep == ASSUME RvInv, NEW s \in Scopes, NarrowPropose(s) PROVE RvInv'
<1> DEFINE i == rvTask.id
<1>1. /\ rvTask # Idle /\ UNCHANGED <<rvRules, rvWorld, rvLate, rvMiner>>
  BY DEF NarrowPropose, Idle
<1>2. /\ i \in Used /\ i \in Ids /\ rvReviews[i] \in Review /\ rvReviews[i].state # "unstored"
      /\ rvReviews[i].root \in Used
  BY <1>1, UsedIs DEF RvInv, TaskStands, RootsStand, Used
<1>3. PICK j \in Ids : /\ NextId(j)
                       /\ rvReviews' = [rvReviews EXCEPT ![j] =
                              Proposal(rvReviews[i].class, s, rvReviews[i].root)]
                       /\ rvTask' = [pc |-> "supersede", id |-> i, by |-> j]
  BY DEF NarrowPropose
<1>4. PICK c, root : c = rvReviews[i].class /\ root = rvReviews[i].root
  OBVIOUS
<1>9. c \in Classes /\ root \in Used \cup {j}
  BY <1>2, <1>4 DEF Review
<1>10. rvReviews' = [rvReviews EXCEPT ![j] = Proposal(c, s, root)]
  BY <1>3, <1>4
<1>11. NextId(j) /\ UNCHANGED <<rvRules, rvWorld, rvLate>>
  BY <1>1, <1>3
<1>12. /\ RvTyped' /\ InOrder' /\ OneStanding' /\ LinkedHasRule' /\ LiveAsReviewed'
       /\ j \in Ids /\ j \notin Used /\ Used' = Used \cup {j}
       /\ rvReviews'[j].state = "unstored" /\ rvReviews'[j].root = root
       /\ \A x \in Ids : x # j => rvReviews'[x] = rvReviews[x]
  BY <1>9, <1>10, <1>11, Proposed
<1>5. /\ RvTyped' /\ InOrder' /\ OneStanding' /\ LinkedHasRule' /\ LiveAsReviewed'
      /\ j \in Ids /\ j \notin Used /\ Used' = Used \cup {j}
      /\ rvReviews'[j].state = "unstored" /\ rvReviews'[j].root = rvReviews[i].root
      /\ \A x \in Ids : x # j => rvReviews'[x] = rvReviews[x]
  BY <1>4, <1>12
<1>6. RootsStand'
  BY <1>2, <1>5 DEF RvInv, RootsStand, Used
<1>7. MinerStands'
  <2>1. rvMiner # Idle => rvReviews[i].root # rvMiner.id
    BY <1>2 DEF RvInv, MinerStands
  <2>. QED BY <1>1, <1>5, <2>1 DEF RvInv, MinerStands, Used
<1>8. TaskStands'
  BY <1>2, <1>3, <1>5 DEF TaskStands
<1>. QED BY <1>5, <1>6, <1>7, <1>8 DEF RvInv

(* The narrowed review is stored in the transaction that supersedes the one it was
   narrowed from. *)
LEMMA NarrowCommitStep == ASSUME RvInv, NarrowCommit PROVE RvInv'
<1>0. PICK i, j : i = rvTask.id /\ j = rvTask.by
  OBVIOUS
<1>1. /\ rvTask # Idle /\ rvTask' = Idle /\ UNCHANGED <<rvRules, rvWorld, rvLate, rvMiner>>
      /\ rvTask.pc = "supersede"
  BY DEF NarrowCommit, Idle
<1>2. /\ i \in Used /\ i \in Ids /\ rvReviews[i] \in Review /\ rvReviews[i].state # "unstored"
      /\ j \in Used /\ j \in Ids /\ rvReviews[j] \in Review /\ rvReviews[j].state = "unstored"
      /\ rvReviews[j].root = rvReviews[i].root /\ rvReviews[j].root # j /\ i # j
  BY <1>0, <1>1, UsedIs DEF RvInv, TaskStands, Used
<1>3. TaskStands'
  BY <1>1 DEF TaskStands
<1>4. CASE UNCHANGED rvReviews
  BY <1>1, <1>3, <1>4, RulesMove DEF RvInv, RvTyped
<1>5. CASE /\ rvReviews[i].state = "pending"
           /\ rvReviews' = [rvReviews EXCEPT ![i].state = "narrowed", ![i].last = "Narrow",
                                             ![j].state = "pending"]
  <2>1. PICK r, n : /\ r = [rvReviews[i] EXCEPT !.state = "narrowed", !.last = "Narrow"]
                    /\ n = [rvReviews[j] EXCEPT !.state = "pending"]
    OBVIOUS
  <2>2. /\ r \in Review /\ r.state = "narrowed" /\ r.root = rvReviews[i].root
        /\ r.linked = rvReviews[i].linked
    BY <1>2, <2>1 DEF Review, States, Intents
  <2>3. /\ n \in Review /\ n.state = "pending" /\ n.root = rvReviews[j].root
        /\ n.linked = rvReviews[j].linked
    BY <1>2, <2>1 DEF Review, States
  <2>4. rvReviews' = [rvReviews EXCEPT ![i] = r, ![j] = n]
    BY <1>2, <1>5, <2>1 DEF RvInv, RvTyped
  <2>5. /\ rvReviews' \in [Ids -> Review \cup {NoReview}]
        /\ rvReviews'[i] = r /\ rvReviews'[j] = n
        /\ \A x \in Ids : x # i /\ x # j => rvReviews'[x] = rvReviews[x]
    BY <1>2, <2>2, <2>3, <2>4 DEF RvInv, RvTyped
  <2>6. Used' = Used
    BY <1>2, <2>2, <2>3, <2>5, MissingRows DEF Used
  <2>7. RvTyped' /\ InOrder'
    BY <1>1, <2>5, <2>6 DEF RvInv, RvTyped, InOrder
  <2>8. \A x \in Used : /\ rvReviews'[x].root = rvReviews[x].root
                        /\ rvReviews'[x].linked = rvReviews[x].linked
    BY <2>2, <2>3, <2>5 DEF Used
  <2>9. RootsStand' /\ LinkedHasRule'
    BY <1>1, <2>6, <2>8 DEF RvInv, RootsStand, LinkedHasRule
  <2>10. MinerStands'
    <3>1. rvMiner # Idle => rvMiner.id # i /\ rvMiner.id # j
      BY <1>2 DEF RvInv, MinerStands
    <3>2. rvMiner # Idle => rvReviews'[rvMiner.id] = rvReviews[rvMiner.id]
      BY <2>5, <3>1 DEF RvInv, MinerStands, Used
    <3>. QED BY <1>1, <2>6, <2>8, <3>2 DEF RvInv, MinerStands
  <2>11. OneStanding'
    <3>1. ~Standing(i)' /\ Standing(i) /\ \A x \in Used : x # j /\ Standing(x)' => Standing(x)
      BY <1>2, <1>5, <2>2, <2>5 DEF Standing, Used
    <3>2. ASSUME NEW x \in Used, NEW y \in Used, x # y, rvReviews[x].root = rvReviews[y].root,
                 Standing(x)', Standing(y)'
          PROVE  FALSE
      <4>1. CASE x # j /\ y # j
        BY <3>1, <3>2, <4>1 DEF RvInv, OneStanding
      <4>2. CASE x = j
        <5>1. y # i /\ Standing(y) /\ rvReviews[y].root = rvReviews[i].root
          BY <1>2, <3>1, <3>2, <4>2
        <5>. QED BY <1>2, <3>1, <5>1 DEF RvInv, OneStanding
      <4>3. CASE y = j
        <5>1. x # i /\ Standing(x) /\ rvReviews[x].root = rvReviews[i].root
          BY <1>2, <3>1, <3>2, <4>3
        <5>. QED BY <1>2, <3>1, <5>1 DEF RvInv, OneStanding
      <4>. QED BY <4>1, <4>2, <4>3
    <3>. QED BY <2>6, <2>8, <3>2 DEF OneStanding
  <2>12. LiveAsReviewed'
    <3>1. ASSUME NEW x \in Ids, Live(rvRules[x]), rvRules[x].version = 1
          PROVE  rvReviews'[x] = rvReviews[x]
      BY <1>2, <1>5, <2>5, <3>1 DEF RvInv, LiveAsReviewed
    <3>. QED BY <1>1, <3>1 DEF RvInv, LiveAsReviewed, Live
  <2>. QED BY <1>3, <2>7, <2>9, <2>10, <2>11, <2>12 DEF RvInv
<1>. QED BY <1>0, <1>4, <1>5 DEF NarrowCommit

LEMMA RvInitHolds == RvInit => RvInv
<1> SUFFICES ASSUME RvInit PROVE RvInv
  OBVIOUS
<1>1. Used = {}
  BY DEF RvInit, Used
<1>2. RvTyped
  BY DEF RvInit, RvTyped, Worlds
<1>3. InOrder
  <2>1. Used = 1..0
    BY <1>1
  <2>. QED BY <2>1 DEF InOrder
<1>4. RootsStand /\ OneStanding /\ LinkedHasRule
  BY <1>1 DEF RootsStand, OneStanding, LinkedHasRule
<1>5. LiveAsReviewed
  BY MissingRows DEF RvInit, LiveAsReviewed, Live
<1>6. MinerStands /\ TaskStands
  BY DEF RvInit, MinerStands, TaskStands
<1>. QED BY <1>2, <1>3, <1>4, <1>5, <1>6 DEF RvInv

LEMMA RvStepHolds == RvInv /\ [RvNext]_rvVars => RvInv'
<1> SUFFICES ASSUME RvInv, [RvNext]_rvVars PROVE RvInv'
  OBVIOUS
<1>1. CASE UNCHANGED rvVars
  <2>1. UNCHANGED <<rvReviews, rvRules, rvWorld, rvLate, rvMiner, rvTask>>
    BY <1>1 DEF rvVars
  <2>2. TaskStands'
    BY <2>1 DEF RvInv, TaskStands, Used, Live
  <2>. QED BY <2>1, <2>2, RulesMove DEF RvInv, RvTyped
<1>2. CASE RvNext
  <2>1. ASSUME NEW c \in Classes, NEW s \in Scopes, MinerPropose(c, s) PROVE RvInv'
    BY <2>1, MinerProposeStep
  <2>2. ASSUME NEW i \in Ids, DecideLate(i) \/ Reject(i) \/ ActivateDirect(i) \/ RuleEnds(i)
        PROVE  RvInv'
    BY <2>2, DecideLateStep, RejectStep, ActivateDirectStep, RuleEndsStep
  <2>3. ASSUME NEW i \in Ids, NEW intent \in {"Approve", "Narrow"}, Verify(i, intent) PROVE RvInv'
    BY <2>3, VerifyStep
  <2>4. ASSUME NEW i \in Ids, NEW intent \in {"Pause", "Resume", "Revoke"}, Flip(i, intent) PROVE RvInv'
    BY <2>4, FlipStep
  <2>5. ASSUME NEW s \in Scopes, NarrowPropose(s) PROVE RvInv'
    BY <2>5, NarrowProposeStep
  <2>6. CASE (\E i \in Ids : ReviewExpires(i)) \/ PolicyChanges \/ WriteFails \/ CrashAndStart
    BY <2>6, WorldSteps
  <2>7. CASE MinerPersist \/ Activate \/ NarrowCommit \/ CommitLifecycle
    BY <2>7, MinerPersistStep, ActivateStep, NarrowCommitStep, CommitLifecycleStep
  <2>. QED BY <1>2, <2>1, <2>2, <2>3, <2>4, <2>5, <2>6, <2>7 DEF RvNext
<1>. QED BY <1>1, <1>2

LEMMA RvInvIsEnough == RvInv => LiveAsReviewed /\ OneOutcomePerLineage
<1> SUFFICES ASSUME RvInv PROVE LiveAsReviewed /\ OneOutcomePerLineage
  OBVIOUS
<1>1. ASSUME NEW i \in Used, NEW j \in Used, i # j, rvReviews[i].root = rvReviews[j].root,
             NEW answer \in {{"approved", "revoked"}, {"pending"}},
             rvReviews[i].state \in answer, rvReviews[j].state \in answer
      PROVE  FALSE
  <2>1. Standing(i) /\ Standing(j)
    BY <1>1 DEF Standing
  <2>. QED BY <1>1, <2>1 DEF RvInv, OneStanding
<1>. QED BY <1>1 DEF RvInv, OneOutcomePerLineage

Answers == {"rejected", "narrowed", "expired", "revoked"}

LEMMA AnswersStay ==
    ASSUME RvInv, [RvNext]_rvVars, NEW x \in Used, rvReviews[x].state \in Answers
    PROVE  rvReviews'[x].state = rvReviews[x].state
<1>1. x \in Ids /\ rvReviews[x] \in Review
  BY UsedIs DEF RvInv, Used
<1>2. ASSUME NEW j, NextId(j), NEW r, rvReviews' = [rvReviews EXCEPT ![j] = r]
      PROVE  rvReviews'[x] = rvReviews[x]
  <2>1. j \notin Used /\ j \in Ids
    BY <1>2, NextIsNew DEF RvInv
  <2>. QED BY <1>1, <1>2, <2>1 DEF RvInv, RvTyped
<1>3. ASSUME NEW c \in Classes, NEW s \in Scopes, MinerPropose(c, s)
      PROVE  rvReviews'[x] = rvReviews[x]
  BY <1>2, <1>3 DEF MinerPropose
<1>4. ASSUME NEW s \in Scopes, NarrowPropose(s)
      PROVE  rvReviews'[x] = rvReviews[x]
  BY <1>2, <1>4 DEF NarrowPropose
<1>5. CASE MinerPersist
  <2>1. rvMiner # Idle /\ rvReviews' = [rvReviews EXCEPT ![rvMiner.id].state = "pending"]
    BY <1>5 DEF MinerPersist, Idle
  <2>2. rvMiner.id # x
    BY <2>1 DEF RvInv, MinerStands, Answers
  <2>. QED BY <1>1, <2>1, <2>2 DEF RvInv, RvTyped
<1>6. ASSUME NEW i \in Ids, DecideLate(i) \/ Reject(i) PROVE rvReviews'[x] = rvReviews[x]
  <2>1. rvReviews[i].state = "pending" /\ i # x
    BY <1>6 DEF DecideLate, Reject, Answers
  <2>. QED BY <1>1, <1>6, <2>1 DEF DecideLate, Reject, RvInv, RvTyped
<1>7. CASE Activate
  <2>1. CASE UNCHANGED rvReviews
    BY <2>1
  <2>2. CASE ~UNCHANGED rvReviews
    <3>1. rvReviews[rvTask.id].state = "pending"
      BY <1>7, <2>2 DEF Activate, MayApprove
    <3>2. rvTask.id # x
      BY <3>1 DEF Answers
    <3>. QED BY <1>1, <1>7, <2>2, <3>2 DEF Activate, RvInv, RvTyped
  <2>. QED BY <2>1, <2>2
<1>8. CASE NarrowCommit
  <2>1. rvTask # Idle /\ rvTask.pc = "supersede"
    BY <1>8 DEF NarrowCommit, Idle
  <2>2. rvTask.by # x
    BY <2>1 DEF RvInv, TaskStands, Answers
  <2>3. CASE UNCHANGED rvReviews
    BY <2>3
  <2>4. CASE rvReviews[rvTask.id].state = "pending"
    <3>1. rvTask.id # x
      BY <2>4 DEF Answers
    <3>. QED BY <1>1, <1>8, <2>2, <3>1 DEF NarrowCommit, RvInv, RvTyped
  <2>. QED BY <1>8, <2>3, <2>4 DEF NarrowCommit
<1>9. CASE CommitLifecycle
  <2>1. rvTask # Idle /\ rvTask.pc = "commit"
    BY <1>9 DEF CommitLifecycle, Idle
  <2>2. rvTask.id \in Ids /\ rvReviews[rvTask.id].state = rvTask.seen
    BY <2>1 DEF RvInv, TaskStands, Used
  <2>3. CASE rvTask.id = x /\ rvTask.intent = "Revoke"
    <3>1. rvTask.seen # "approved"
      BY <2>2, <2>3 DEF Answers
    <3>. QED BY <1>9, <2>3, <3>1 DEF CommitLifecycle
  <2>4. CASE rvTask.id = x /\ rvTask.intent # "Revoke"
    <3>1. rvReviews' = [rvReviews EXCEPT ![x].last = rvTask.intent, ![x].state = @]
      BY <1>9, <2>4 DEF CommitLifecycle
    <3>. QED BY <1>1, <3>1 DEF RvInv, RvTyped, Review
  <2>5. CASE rvTask.id # x
    BY <1>1, <1>9, <2>5 DEF CommitLifecycle, RvInv, RvTyped
  <2>. QED BY <2>3, <2>4, <2>5
<1>10. ASSUME NEW i \in Ids,
              \/ \E intent \in {"Approve", "Narrow"} : Verify(i, intent)
              \/ \E intent \in {"Pause", "Resume", "Revoke"} : Flip(i, intent)
              \/ ActivateDirect(i) \/ RuleEnds(i) \/ ReviewExpires(i)
       PROVE  UNCHANGED rvReviews
  BY <1>10 DEF Verify, Flip, ActivateDirect, RuleEnds, ReviewExpires
<1>11. ASSUME PolicyChanges \/ WriteFails \/ CrashAndStart \/ UNCHANGED rvVars
       PROVE  UNCHANGED rvReviews
  BY <1>11 DEF PolicyChanges, WriteFails, CrashAndStart, rvVars
<1>. QED BY <1>3, <1>4, <1>5, <1>6, <1>7, <1>8, <1>9, <1>10, <1>11 DEF RvNext

(* For any number of reviews: a rule of the version a review proposed is live only
   while that review stands approved and with the scope the owner saw, of a review
   and what was narrowed out of it one at most is approved and one at most waits,
   and an answer stays (store/owner_review.rs, store/activation.rs). *)
THEOREM ReviewsHold == RvSpec => ReviewsAreSound
<1>1. RvSpec => []RvInv
  BY RvInitHolds, RvStepHolds, PTL DEF RvSpec
<1>2. RvSpec => [](LiveAsReviewed /\ OneOutcomePerLineage)
  BY <1>1, RvInvIsEnough, PTL
<1>3. RvInv /\ [RvNext]_rvVars =>
        [\A i \in Used : rvReviews[i].state \in {"rejected", "narrowed", "expired", "revoked"} =>
           rvReviews'[i].state = rvReviews[i].state]_rvVars
  BY AnswersStay DEF Answers
<1>4. RvSpec => AnswersAreFinal
  BY <1>1, <1>3, PTL DEF RvSpec, AnswersAreFinal
<1>. QED BY <1>2, <1>4 DEF ReviewsAreSound

-------------------------------------------------------------------------------
(* Overlay of learned artifacts: types and the invariant. *)

Proposals == {"none", "stalled", "review_required", "approved", "active"}
Rows == [status : {"none", "compatible", "required", "accepted"},
         req : 0..MaxReconfirmations, legacy : BOOLEAN, ok : SUBSET Identities]
Activations == [at : {"staged", "committed", "published"}, art : Learned, dangling : SUBSET Identities]
Reviews     == [at : {"marked", "confirm"}, art : Learned, req : 1..MaxReconfirmations]
AlTyped ==
    /\ alProp \in [Learned -> Proposals] /\ alTapped \subseteq Learned
    /\ alRow \in [Learned -> Rows]
    /\ alReq \in [Learned -> [1..MaxReconfirmations -> {"unissued", "open", "used"}]]
    /\ alFile \in [Learned -> {"absent", "good", "edited"}]
    /\ alBase \in Bases
    /\ alReg \in [Identities -> [ver : Nat, content : {"absent", "good", "edited"}]]
    /\ alTask \in {NoTap, Halted} \cup Activations \cup Reviews
RegistryStands ==
    /\ \A id \in Identities : alReg[id] = NoEntry \/ <<id, alReg[id].ver>> \in Learned
    /\ alTask.at = "down" => \A id \in Identities : alReg[id] = NoEntry

Committed == {"approved", "active"}
(* A row came from an activation, or from a file startup found without one. *)
RowStands(row, prop) ==
    /\ row.status = "none" => row = NoRow
    /\ row.status # "none" => row.legacy \/ prop \in Committed
    /\ prop \in Committed => row.status # "none"
RowsStand == \A a \in Learned : RowStands(alRow[a], alProp[a])
(* The version being handled is not in effect, and what its handler read still holds. *)
TapStands ==
    /\ alTask.at \notin {"idle", "down"} => alReg[alTask.art[1]].ver # alTask.art[2]
    /\ alTask.at \in {"staged", "committed"} => alTask.dangling = Dangling(alReg, alBase, alTask.art)
    /\ alTask.at \in {"committed", "published"} =>
          alRow[alTask.art].status = "compatible" /\ alProp[alTask.art] \in Committed
    /\ alTask.at = "committed" /\ alTask.dangling = {} => alProp[alTask.art] = "active"
    /\ alTask.at = "confirm" => /\ alRow[alTask.art].status # "none"
                                /\ alRow[alTask.art].legacy \/ alProp[alTask.art] = "approved"
Backed(a) ==
    alReg[a[1]].ver = a[2] /\ a[1] \notin alBase =>
        /\ alRow[a].status \in Trusted /\ alProp[a] = "active"
        /\ Dangling(alReg, alBase, a) \subseteq alRow[a].ok
AlInv == AlTyped /\ RegistryStands /\ RowsStand /\ TapStands /\ \A a \in Learned : Backed(a)

LEMMA HasGreatest ==
    ASSUME NEW S, IsFiniteSet(S), S \subseteq Nat, S # {}
    PROVE  Max(S) \in S /\ \A y \in S : y <= Max(S)
<1>. DEFINE Topless == {T \in SUBSET S : T # {} /\ \A x \in T : \E y \in T : x < y}
<1>1. Topless \subseteq FiniteSubsetsOf(S)
  BY FS_Subset DEF FiniteSubsetsOf
<1>2. Topless = {}
  <2>1. SUFFICES ASSUME Topless # {} PROVE FALSE
    OBVIOUS
  <2>2. IsWellFoundedOn(StrictSubsetOrdering(S), FiniteSubsetsOf(S))
    BY FS_StrictSubsetOrderingWellFounded
  <2>3. PICK T \in Topless : \A U \in Topless : ~(<<U, T>> \in StrictSubsetOrdering(S))
    BY <1>1, <2>1, <2>2, WFMin, Zenon
  <2>4. PICK x \in T : TRUE
    OBVIOUS
  <2>5. PICK y \in T : x < y
    BY <2>4
  <2>6. y \in T \ {x} /\ x \in Nat /\ y \in Nat
    BY <2>4, <2>5
  <2>7. ASSUME NEW u \in T \ {x} PROVE \E v \in T \ {x} : u < v
    <3>1. PICK v \in T : u < v
      BY <2>7
    <3>2. u \in Nat /\ v \in Nat
      BY <2>7
    <3>3. CASE v # x
      BY <3>1, <3>3
    <3>4. CASE v = x
      BY <2>5, <2>6, <3>1, <3>2, <3>4
    <3>. QED BY <3>3, <3>4
  <2>8. T \ {x} \in Topless
    BY <2>6, <2>7
  <2>9. <<T \ {x}, T>> \in StrictSubsetOrdering(S)
    BY <2>4 DEF StrictSubsetOrdering
  <2>. QED BY <2>3, <2>8, <2>9
<1>3. PICK x \in S : \A y \in S : ~(x < y)
  BY <1>2
<1>4. \A y \in S : x >= y
  BY <1>3
<1>5. PICK g : g = Max(S)
  OBVIOUS
<1>6. g \in S /\ \A y \in S : g >= y
  BY <1>4, <1>5 DEF Max
<1>. QED BY <1>5, <1>6

LEMMA VersionIs ==
    ASSUME NEW a \in Learned
    PROVE  /\ a = <<a[1], a[2]>> /\ a[2] \in Nat \ {0} /\ a[1] \in Identities /\ a \in Versions(a[1])
BY ArtifactAssumption DEF Identities, Versions

LEMMA HighestIs ==
    ASSUME NEW id
    PROVE  /\ HighestActive(id) \in Nat
           /\ \A a \in Versions(id) : alProp[a] = "active" => a[2] <= HighestActive(id)
           /\ HighestActive(id) # 0 =>
                \E a \in Versions(id) : alProp[a] = "active" /\ a[2] = HighestActive(id)
<1>. DEFINE A == {b \in Versions(id) : alProp[b] = "active"}
            S == {0} \cup {a[2] : a \in A}
<1>1. A \subseteq Learned /\ IsFiniteSet(A)
  BY ArtifactAssumption, FS_Subset DEF Versions
<1>2. IsFiniteSet({a[2] : a \in A})
  <2>. DEFINE h == [a \in A |-> a[2]]
  <2>1. h \in Surjection(A, {a[2] : a \in A})
    BY DEF Surjection
  <2>. QED BY <1>1, <2>1, FS_Surjection
<1>3. IsFiniteSet({0} \cup {a[2] : a \in A})
  BY <1>2, FS_AddElement, FS_Union, FS_Singleton
<1>4. S \subseteq Nat /\ S # {}
  BY <1>1, ArtifactAssumption
<1>5. Max(S) \in S /\ \A y \in S : y <= Max(S)
  BY <1>3, <1>4, HasGreatest
<1>6. HighestActive(id) = Max(S)
  BY DEF HighestActive
<1>. QED BY <1>4, <1>5, <1>6

(* The entries the convergence loop leaves. *)
LEMMA StandsMonotone ==
    ASSUME NEW b, NEW K, NEW L, K \subseteq L, NEW a, Stands(b, K, a)
    PROVE  Stands(b, L, a)
<1>1. Unprovided(b, L, a) \subseteq Unprovided(b, K, a)
  BY DEF Unprovided
<1>. QED BY <1>1 DEF Stands, AcceptedStands

LEMMA KeptStands ==
    ASSUME NEW b, NEW a \in Kept(b)
    PROVE  a \in Loaded(b) /\ Stands(b, Kept(b), a)
<1>1. PICK K \in SUBSET Loaded(b) : a \in K /\ \A c \in K : Stands(b, K, c)
  BY DEF Kept
<1>2. K \subseteq Kept(b)
  BY <1>1 DEF Kept
<1>3. Stands(b, K, a)
  BY <1>1
<1>4. Stands(b, Kept(b), a)
  BY <1>2, <1>3, StandsMonotone
<1>. QED BY <1>1, <1>4

LEMMA KeptIsLargest ==
    ASSUME NEW b, NEW a \in Loaded(b), Stands(b, Kept(b) \cup {a}, a)
    PROVE  a \in Kept(b)
<1>. DEFINE K == Kept(b) \cup {a}
<1>1. K \in SUBSET Loaded(b)
  BY KeptStands
<1>2. \A c \in K : Stands(b, K, c)
  <2>1. TAKE c \in K
  <2>2. CASE c = a
    BY <2>2
  <2>3. CASE c \in Kept(b)
    <3>1. Stands(b, Kept(b), c)
      BY <2>3, KeptStands
    <3>. QED BY <3>1, StandsMonotone
  <2>. QED BY <2>2, <2>3
<1>. QED BY <1>1, <1>2 DEF Kept

LEMMA SourceIs ==
    ASSUME RowsStand, NEW a \in Sources
    PROVE  /\ a \in Learned /\ a[2] = HighestActive(a[1]) /\ alProp[a] = "active"
           /\ alRow[a].status # "none"
<1>1. a \in Learned /\ a[2] = HighestActive(a[1])
  BY DEF Sources, Admitted, Recovered, Present
<1>2. a[2] # 0 /\ a = <<a[1], a[2]>>
  BY <1>1, VersionIs
<1>3. PICK c \in Versions(a[1]) : alProp[c] = "active" /\ c[2] = a[2]
  BY <1>1, <1>2, HighestIs
<1>4. c = <<c[1], c[2]>> /\ c[1] = a[1]
  BY <1>3, VersionIs DEF Versions
<1>5. c = a
  BY <1>2, <1>3, <1>4
<1>. QED BY <1>1, <1>3, <1>5 DEF RowsStand, RowStands, Committed

LEMMA SourcesAreAlone ==
    ASSUME RowsStand, NEW a \in Sources, NEW c \in Sources, a[1] = c[1]
    PROVE  a = c
BY SourceIs, VersionIs

LEMMA LoadedIs ==
    ASSUME RowsStand, NEW b, NEW a \in Loaded(b)
    PROVE  /\ a \in Sources /\ a \notin Missing
           /\ a[1] \in b => a \in Recovered
<1>1. a \in Sources /\ a \notin Missing /\ a[1] \notin Collisions(b)
  BY DEF Loaded
<1>2. ASSUME a[1] \in b, a \in Present PROVE FALSE
  BY <1>1, <1>2, SourceIs, VersionIs DEF Collisions
<1>. QED BY <1>1, <1>2 DEF Sources, Admitted

LEMMA RegistryIs ==
    ASSUME RowsStand, NEW b
    PROVE  /\ \A a \in Kept(b) : RegistryOf(Kept(b))[a[1]] = [ver |-> a[2], content |-> ContentAt(a)]
           /\ \A id \in Identities : (\A a \in Kept(b) : a[1] # id) => RegistryOf(Kept(b))[id] = NoEntry
<1>1. ASSUME NEW a \in Kept(b)
      PROVE  RegistryOf(Kept(b))[a[1]] = [ver |-> a[2], content |-> ContentAt(a)]
  <2>1. a \in Sources /\ \A c \in Kept(b) : c \in Sources
    BY <1>1, KeptStands, LoadedIs
  <2>2. a[1] \in Identities
    BY <2>1, SourceIs, VersionIs
  <2>3. \A c \in Kept(b) : c[1] = a[1] => c = a
    BY <2>1, SourcesAreAlone
  <2>4. PICK k : k = CHOOSE c \in Kept(b) : c[1] = a[1]
    OBVIOUS
  <2>5. k = a
    BY <1>1, <2>3, <2>4
  <2>. QED BY <1>1, <2>2, <2>4, <2>5 DEF RegistryOf
<1>2. ASSUME NEW id \in Identities, \A a \in Kept(b) : a[1] # id
      PROVE  RegistryOf(Kept(b))[id] = NoEntry
  BY <1>2 DEF RegistryOf
<1>. QED BY <1>1, <1>2

LEMMA ReviewedIs ==
    ASSUME RowsStand, NEW b, NEW a \in Reviewed(b)
    PROVE  a \in Learned /\ (a \notin Missing => alRow[a].status # "none")
<1>1. CASE a \in ApprovedDangling
  BY <1>1 DEF ApprovedDangling, Trusted
<1>2. CASE a \in OrdinaryOrphans(b)
  BY <1>2, LoadedIs, SourceIs DEF OrdinaryOrphans
<1>3. CASE a \in OwnerAcceptedInvalid(b)
  BY <1>3 DEF OwnerAcceptedInvalid
<1>4. CASE a \in CollisionOrphans(b)
  BY <1>4 DEF CollisionOrphans, Tops, Present, RowsStand, RowStands
<1>5. CASE a \in DigestInvalid
  BY <1>5 DEF DigestInvalid, Tops, Present, Trusted
<1>6. CASE a \in Missing
  BY <1>6 DEF Missing, Tops, Present
<1>. QED BY <1>1, <1>2, <1>3, <1>4, <1>5, <1>6 DEF Reviewed, OrphanedArtifacts

(* What the loop leaves, under an identity of the overlay, needs no review. *)
LEMMA KeptIs ==
    ASSUME RowsStand, NEW b, NEW a \in Kept(b), a[1] \notin b
    PROVE  /\ a \notin Reviewed(b) /\ a \notin Missing
           /\ alRow[a].status \in Trusted /\ Unprovided(b, Kept(b), a) \subseteq alRow[a].ok
<1>1. a \in Loaded(b) /\ a \in Sources /\ a \notin Missing /\ Stands(b, Kept(b), a)
  BY KeptStands, LoadedIs
<1>2. alProp[a] = "active"
  BY <1>1, SourceIs
<1>3. \/ alRow[a].status = "accepted" /\ AcceptedStands(b, Kept(b), a)
      \/ alRow[a].status = "compatible" /\ Unprovided(b, Kept(b), a) = {}
  BY <1>1 DEF Stands
<1>4. a \notin ApprovedDangling /\ a \notin OrdinaryOrphans(b) /\ a \notin OwnerAcceptedInvalid(b)
      /\ a \notin CollisionOrphans(b)
  BY <1>2, <1>3 DEF ApprovedDangling, OrdinaryOrphans, OwnerAcceptedInvalid, CollisionOrphans
<1>5. a \in DigestInvalid => ContentAt(a) # "good"
  BY DEF DigestInvalid, ContentAt, Recovered
<1>. QED BY <1>1, <1>3, <1>4, <1>5 DEF Reviewed, OrphanedArtifacts, AcceptedStands, Trusted

LEMMA StartupHolds ==
    ASSUME AlTyped, RowsStand, NEW b, NEW asked \in SUBSET Reviewed(b), NEW marked \in SUBSET asked,
           NEW chosen \in RequestChoices(Reviewed(b)), StartupWrites(asked, marked, chosen)
    PROVE  /\ alProp' = alProp /\ alTapped' = alTapped
           /\ alRow' \in [Learned -> Rows]
           /\ alReq' \in [Learned -> [1..MaxReconfirmations -> {"unissued", "open", "used"}]]
           /\ alFile' \in [Learned -> {"absent", "good", "edited"}]
           /\ RowsStand'
           /\ \A a \in Learned \ (marked \cup Missing) : alRow'[a] = alRow[a]
<1>1. \A a \in marked : a \in Learned /\ (a \notin Missing => alRow[a].status # "none")
  BY ReviewedIs
<1>2. \A a \in marked : chosen[a] \in 1..MaxReconfirmations
  BY DEF RequestChoices
<1>3. alRow' = StartupRows(marked, chosen) /\ alProp' = alProp /\ alTapped' = alTapped
  BY DEF StartupWrites
<1>4. ASSUME NEW a \in Learned
      PROVE  /\ alRow'[a] \in Rows /\ RowStands(alRow'[a], alProp[a])
             /\ a \notin marked \cup Missing => alRow'[a] = alRow[a]
  <2>1. alRow[a] \in Rows /\ RowStands(alRow[a], alProp[a])
    BY DEF AlTyped, RowsStand
  <2>2. CASE a \in marked
    <3>1. alRow'[a] = [alRow[a] EXCEPT !.status = "required", !.req = chosen[a], !.legacy = @ \/ a \in Missing]
      BY <1>3, <2>2 DEF StartupRows
    <3>2. PICK l \in BOOLEAN : l = (alRow[a].legacy \/ a \in Missing)
      OBVIOUS
    <3>3. alRow'[a] = [status |-> "required", req |-> chosen[a], legacy |-> l, ok |-> alRow[a].ok]
      BY <2>1, <3>1, <3>2 DEF Rows
    <3>4. alRow'[a] \in Rows
      BY <1>2, <2>1, <2>2, <3>3 DEF Rows
    <3>5. l \/ alProp[a] \in Committed
      BY <1>1, <2>1, <2>2, <3>2 DEF RowStands
    <3>. QED BY <2>2, <3>3, <3>4, <3>5 DEF RowStands
  <2>3. CASE a \in Missing \ marked
    <3>1. alRow'[a] = [NoRow EXCEPT !.status = "required", !.legacy = TRUE]
      BY <1>3, <2>3 DEF StartupRows
    <3>2. alRow'[a] = [status |-> "required", req |-> 0, legacy |-> TRUE, ok |-> {}]
      BY <3>1 DEF NoRow
    <3>3. 0 \in 0..MaxReconfirmations /\ {} \in SUBSET Identities
      BY ArtifactAssumption
    <3>4. alRow'[a] \in Rows
      BY <3>2, <3>3 DEF Rows
    <3>. QED BY <2>3, <3>2, <3>4 DEF RowStands
  <2>4. CASE a \notin marked \cup Missing
    <3>1. alRow'[a] = alRow[a]
      BY <1>3, <2>4 DEF StartupRows
    <3>. QED BY <2>1, <3>1
  <2>. QED BY <2>2, <2>3, <2>4
<1>5. DOMAIN alRow' = Learned /\ alRow' = [a \in Learned |-> alRow'[a]]
  BY <1>3 DEF StartupRows
<1>6. alRow' \in [Learned -> Rows]
  BY <1>4, <1>5
<1>7. RowsStand'
  BY <1>3, <1>4 DEF RowsStand
<1>8. alReq' \in [Learned -> [1..MaxReconfirmations -> {"unissued", "open", "used"}]]
  BY DEF StartupWrites, AlTyped
<1>9. alFile' \in [Learned -> {"absent", "good", "edited"}]
  BY DEF StartupWrites, AlTyped
<1>. QED BY <1>3, <1>4, <1>6, <1>7, <1>8, <1>9

LEMMA TaskIs ==
    ASSUME AlTyped
    PROVE  /\ alTask.at = "idle" => alTask = NoTap
           /\ alTask.at = "down" <=> alTask = Halted
           /\ alTask.at \in {"staged", "committed", "published"} => alTask \in Activations
           /\ alTask.at \in {"marked", "confirm"} => alTask \in Reviews
           /\ alTask.at \in {"idle", "down", "staged", "committed", "published", "marked", "confirm"}
<1>1. CASE alTask = NoTap
  BY <1>1 DEF NoTap, Halted
<1>2. CASE alTask = Halted
  BY <1>2 DEF NoTap, Halted
<1>3. CASE alTask \in Activations
  BY <1>3 DEF Activations, Halted
<1>4. CASE alTask \in Reviews
  BY <1>4 DEF Reviews, Halted
<1>. QED BY <1>1, <1>2, <1>3, <1>4 DEF AlTyped

LEMMA Published ==
    ASSUME AlTyped, RegistryStands, NEW a \in Learned, alTask'.at # "down",
           alReg' = [alReg EXCEPT ![a[1]] = [ver |-> a[2], content |-> "good"]]
    PROVE  /\ alReg' \in [Identities -> [ver : Nat, content : {"absent", "good", "edited"}]]
           /\ RegistryStands'
           /\ \A c \in Learned : alReg'[c[1]].ver = c[2] => c = a \/ alReg[c[1]].ver = c[2]
           /\ \A base : \A c \in Learned : Dangling(alReg', base, c) \subseteq Dangling(alReg, base, c)
<1>1. a = <<a[1], a[2]>> /\ a[2] \in Nat \ {0} /\ a[1] \in Identities
  BY VersionIs
<1>2. alReg \in [Identities -> [ver : Nat, content : {"absent", "good", "edited"}]]
  BY DEF AlTyped
<1>3. alReg' \in [Identities -> [ver : Nat, content : {"absent", "good", "edited"}]]
  BY <1>1, <1>2
<1>4. alReg'[a[1]].ver = a[2] /\ \A id \in Identities \ {a[1]} : alReg'[id] = alReg[id]
  BY <1>1, <1>2
<1>5. RegistryStands'
  BY <1>1, <1>4 DEF RegistryStands
<1>6. ASSUME NEW c \in Learned, alReg'[c[1]].ver = c[2]
      PROVE  c = a \/ alReg[c[1]].ver = c[2]
  <2>1. c = <<c[1], c[2]>> /\ c[1] \in Identities
    BY VersionIs
  <2>2. CASE c[1] = a[1]
    BY <1>1, <1>4, <1>6, <2>1, <2>2
  <2>3. CASE c[1] # a[1]
    BY <1>4, <1>6, <2>1, <2>3
  <2>. QED BY <2>2, <2>3
<1>7. ASSUME NEW base, NEW c \in Learned, NEW id \in Dangling(alReg', base, c)
      PROVE  id \in Dangling(alReg, base, c)
  <2>1. id \in Refs[c] /\ ArtifactVersion(alReg', base, id) = 0 /\ id \in Identities
    BY <1>7 DEF Dangling, Identities
  <2>2. CASE id = a[1]
    BY <1>1, <1>4, <2>1, <2>2 DEF ArtifactVersion
  <2>3. CASE id # a[1]
    BY <1>4, <2>1, <2>3 DEF ArtifactVersion, Dangling
  <2>. QED BY <2>2, <2>3
<1>. QED BY <1>3, <1>5, <1>6, <1>7

LEMMA AlStarts == AlInit => AlInv
<1>. SUFFICES ASSUME AlInit PROVE AlInv
  OBVIOUS
<1>1. alTask = NoTap /\ alTask.at = "idle"
  BY DEF AlInit, NoTap
<1>2. NoRow \in Rows /\ NoRow.status = "none" /\ NoEntry \in [ver : Nat, content : {"absent", "good", "edited"}]
  BY ArtifactAssumption DEF NoRow, NoEntry, Rows
<1>3. AlTyped
  BY <1>1, <1>2 DEF AlInit, AlTyped, Proposals
<1>4. RegistryStands
  BY <1>1 DEF AlInit, RegistryStands
<1>5. RowsStand
  BY <1>2 DEF AlInit, RowsStand, RowStands, Committed
<1>6. TapStands
  BY <1>1 DEF TapStands
<1>7. ASSUME NEW a \in Learned PROVE Backed(a)
  <2>1. alReg[a[1]].ver = 0 /\ a[2] # 0
    BY VersionIs DEF AlInit, NoEntry
  <2>. QED BY <2>1 DEF Backed
<1>. QED BY <1>3, <1>4, <1>5, <1>6, <1>7 DEF AlInv

LEMMA LoadOverlayHolds ==
    ASSUME AlInv, NEW b \in Bases, LoadOverlay(b) PROVE AlInv'
<1>1. AlTyped /\ RowsStand
  BY DEF AlInv
<1>2. PICK chosen \in RequestChoices(Reviewed(b)) : StartupWrites(Reviewed(b), Reviewed(b), chosen)
  BY DEF LoadOverlay
<1>3. /\ alProp' = alProp /\ alTapped' = alTapped
      /\ alRow' \in [Learned -> Rows]
      /\ alReq' \in [Learned -> [1..MaxReconfirmations -> {"unissued", "open", "used"}]]
      /\ alFile' \in [Learned -> {"absent", "good", "edited"}]
      /\ RowsStand'
      /\ \A a \in Learned \ (Reviewed(b) \cup Missing) : alRow'[a] = alRow[a]
  BY <1>1, <1>2, StartupHolds
<1>4. alReg' = RegistryOf(Kept(b)) /\ alBase' = b /\ alTask' = NoTap /\ alTask'.at = "idle"
  BY DEF LoadOverlay, NoTap
<1>5. \A a \in Kept(b) : alReg'[a[1]] = [ver |-> a[2], content |-> ContentAt(a)]
  BY <1>1, <1>4, RegistryIs
<1>6. \A id \in Identities : (\A a \in Kept(b) : a[1] # id) => alReg'[id] = NoEntry
  BY <1>1, <1>4, RegistryIs
<1>7. \A a \in Kept(b) : a \in Learned /\ a \in Sources
  BY <1>1, KeptStands, LoadedIs, SourceIs
<1>8. ASSUME NEW id \in Identities
      PROVE  /\ alReg'[id] \in [ver : Nat, content : {"absent", "good", "edited"}]
             /\ alReg'[id] = NoEntry \/ <<id, alReg'[id].ver>> \in Learned
  <2>1. CASE \A a \in Kept(b) : a[1] # id
    BY <1>6, <2>1 DEF NoEntry
  <2>2. CASE \E a \in Kept(b) : a[1] = id
    <3>1. PICK a \in Kept(b) : a[1] = id
      BY <2>2
    <3>2. a \in Learned /\ a = <<a[1], a[2]>> /\ a[2] \in Nat
      BY <1>7, VersionIs
    <3>3. ContentAt(a) \in {"absent", "good", "edited"}
      BY <1>1, <3>2 DEF ContentAt, AlTyped
    <3>4. alReg'[id] = [ver |-> a[2], content |-> ContentAt(a)]
      BY <1>5, <3>1
    <3>5. <<id, alReg'[id].ver>> = a
      BY <3>1, <3>2, <3>4
    <3>. QED BY <3>2, <3>3, <3>4, <3>5
  <2>. QED BY <2>1, <2>2
<1>9. alReg' \in [Identities -> [ver : Nat, content : {"absent", "good", "edited"}]]
  <2>1. alReg' = [id \in Identities |-> alReg'[id]]
    BY <1>4 DEF RegistryOf
  <2>. QED BY <1>8, <2>1
<1>10. AlTyped'
  BY <1>1, <1>3, <1>4, <1>9 DEF AlTyped
<1>11. RegistryStands' /\ TapStands'
  BY <1>4, <1>8 DEF RegistryStands, TapStands
<1>12. ASSUME NEW a \in Learned, alReg'[a[1]].ver = a[2], a[1] \notin b
       PROVE  alRow'[a].status \in Trusted /\ alProp'[a] = "active" /\ Dangling(alReg', b, a) \subseteq alRow'[a].ok
  <2>1. a = <<a[1], a[2]>> /\ a[2] \in Nat \ {0} /\ a[1] \in Identities
    BY VersionIs
  <2>2. PICK c \in Kept(b) : c[1] = a[1]
    BY <1>6, <1>12, <2>1 DEF NoEntry
  <2>3. c[2] = a[2] /\ c = <<c[1], c[2]>>
    <3>1. alReg'[c[1]].ver = c[2]
      <4>1. alReg'[c[1]] = [ver |-> c[2], content |-> ContentAt(c)]
        BY <1>5, <2>2
      <4>. QED BY <4>1
    <3>2. c \in Learned
      BY <1>7, <2>2
    <3>. QED BY <1>12, <2>2, <3>1, <3>2, VersionIs
  <2>4. a \in Kept(b)
    BY <2>1, <2>2, <2>3
  <2>5. /\ a \notin Reviewed(b) /\ a \notin Missing
        /\ alRow[a].status \in Trusted /\ Unprovided(b, Kept(b), a) \subseteq alRow[a].ok
    BY <1>1, <1>12, <2>4, KeptIs
  <2>6. alRow'[a] = alRow[a] /\ alProp'[a] = "active"
    BY <1>1, <1>3, <1>7, <2>4, <2>5, SourceIs
  <2>7. ASSUME NEW id \in Dangling(alReg', b, a) PROVE id \in Unprovided(b, Kept(b), a)
    <3>1. id \in Refs[a] /\ ArtifactVersion(alReg', b, id) = 0
      BY <2>7 DEF Dangling
    <3>2. id \notin b /\ alReg'[id].ver = 0
      BY <3>1, ArtifactAssumption DEF ArtifactVersion
    <3>3. ASSUME NEW d \in Kept(b), d[1] = id PROVE FALSE
      <4>1. alReg'[d[1]].ver = d[2]
        <5>1. alReg'[d[1]] = [ver |-> d[2], content |-> ContentAt(d)]
          BY <1>5, <3>3
        <5>. QED BY <5>1
      <4>2. d \in Learned
        BY <1>7, <3>3
      <4>. QED BY <3>2, <3>3, <4>1, <4>2, VersionIs
    <3>. QED BY <3>1, <3>2, <3>3 DEF Unprovided
  <2>. QED BY <2>5, <2>6, <2>7
<1>13. \A a \in Learned : Backed(a)'
  BY <1>4, <1>12 DEF Backed
<1>. QED BY <1>3, <1>10, <1>11, <1>13 DEF AlInv

(* A handler works on a version that is not in effect. *)
LEMMA OthersStand ==
    ASSUME AlInv, UNCHANGED <<alReg, alBase>>, NEW a \in Learned,
           \A c \in Learned \ {a} : alRow'[c] = alRow[c] /\ alProp'[c] = alProp[c],
           alReg[a[1]].ver # a[2]
    PROVE  \A c \in Learned : Backed(c)'
<1>1. TAKE c \in Learned
<1>2. Backed(c)
  BY DEF AlInv
<1>3. CASE c = a
  BY <1>3 DEF Backed
<1>4. CASE c # a
  <2>1. alRow'[c] = alRow[c] /\ alProp'[c] = alProp[c]
    BY <1>4
  <2>2. Dangling(alReg', alBase', c) = Dangling(alReg, alBase, c)
    OBVIOUS
  <2>. QED BY <1>2, <2>1, <2>2 DEF Backed
<1>. QED BY <1>3, <1>4

LEMMA NoneChanges ==
    ASSUME AlInv, UNCHANGED <<alProp, alRow, alReg, alBase>> PROVE RowsStand' /\ \A c \in Learned : Backed(c)'
<1>1. RowsStand'
  BY DEF AlInv, RowsStand
<1>2. ASSUME NEW c \in Learned PROVE Backed(c)'
  <2>1. Backed(c)
    BY DEF AlInv
  <2>2. Dangling(alReg', alBase', c) = Dangling(alReg, alBase, c)
    OBVIOUS
  <2>. QED BY <2>1, <2>2 DEF Backed
<1>. QED BY <1>1, <1>2

LEMMA TooLow ==
    ASSUME NEW a \in Learned, AlTyped, ArtifactVersion(alReg, alBase, a[1]) < a[2]
    PROVE  alReg[a[1]].ver # a[2]
<1>1. a[2] \in Nat \ {0} /\ a[1] \in Identities /\ alReg[a[1]].ver \in Nat
  BY VersionIs DEF AlTyped
<1>2. alReg[a[1]].ver # 0 => ArtifactVersion(alReg, alBase, a[1]) = alReg[a[1]].ver
  BY DEF ArtifactVersion
<1>. QED BY <1>1, <1>2

LEMMA ProposeHolds == ASSUME AlInv, NEW a \in Learned, Propose(a) PROVE AlInv'
<1>1. AlTyped /\ RegistryStands /\ RowsStand /\ TapStands /\ Backed(a)
  BY DEF AlInv
<1>2. PICK reached \in {"stalled", "review_required"} : alProp' = [alProp EXCEPT ![a] = reached]
  BY DEF Propose
<1>3. UNCHANGED <<alTapped, alRow, alReq, alFile, alReg, alBase, alTask>> /\ alProp[a] = "none"
  BY DEF Propose, MayPropose
<1>4. AlTyped'
  BY <1>1, <1>2, <1>3 DEF AlTyped, Proposals
<1>5. RegistryStands'
  BY <1>1, <1>3 DEF RegistryStands
<1>6. alProp'[a] = reached /\ \A c \in Learned \ {a} : alProp'[c] = alProp[c]
  BY <1>1, <1>2 DEF AlTyped
<1>7. RowsStand'
  BY <1>1, <1>2, <1>3, <1>6 DEF RowsStand, RowStands, Committed
<1>8. TapStands'
  <2>1. Dangling(alReg', alBase', alTask.art) = Dangling(alReg, alBase, alTask.art)
    BY <1>3
  <2>2. alTask.at \notin {"idle", "down"} => alTask.art \in Learned
    BY <1>1, TaskIs DEF Activations, Reviews
  <2>. QED BY <1>1, <1>3, <1>6, <2>1, <2>2 DEF TapStands, Committed
<1>9. \A c \in Learned : Backed(c)'
  <2>1. TAKE c \in Learned
  <2>2. Backed(c) /\ Dangling(alReg', alBase', c) = Dangling(alReg, alBase, c)
    BY <1>3 DEF AlInv
  <2>. QED BY <1>3, <1>6, <2>2 DEF Backed
<1>. QED BY <1>4, <1>5, <1>7, <1>8, <1>9 DEF AlInv

LEMMA StageActivationHolds == ASSUME AlInv, NEW a \in Learned, StageActivation(a) PROVE AlInv'
<1>1. AlTyped /\ RegistryStands /\ TapStands
  BY DEF AlInv
<1>2. UNCHANGED <<alProp, alRow, alReq, alFile, alReg, alBase>> /\ alTapped' = alTapped \cup {a}
  BY DEF StageActivation
<1>3. ArtifactVersion(alReg, alBase, a[1]) \in Nat /\ a[2] \in Nat
  BY <1>1, VersionIs, ArtifactAssumption DEF AlTyped, ArtifactVersion
<1>4. \/ alTask' = NoTap
      \/ /\ ~(ArtifactVersion(alReg, alBase, a[1]) >= a[2])
         /\ alTask' = [at |-> "staged", art |-> a, dangling |-> Dangling(alReg, alBase, a)]
  BY DEF StageActivation
<1>5. CASE alTask' = NoTap
  <2>1. alTask'.at = "idle"
    BY <1>5 DEF NoTap
  <2>2. AlTyped' /\ RegistryStands' /\ TapStands'
    BY <1>1, <1>2, <1>5, <2>1 DEF AlTyped, RegistryStands, TapStands
  <2>. QED BY <1>2, <2>2, NoneChanges DEF AlInv
<1>6. CASE alTask' # NoTap
  <2>1. /\ alTask'.at = "staged" /\ alTask'.art = a
        /\ alTask'.dangling = Dangling(alReg, alBase, a)
    BY <1>4, <1>6
  <2>2. Dangling(alReg, alBase, a) \in SUBSET Identities
    BY DEF Dangling, Identities
  <2>3. alTask' \in Activations
    BY <1>4, <1>6, <2>2 DEF Activations
  <2>4. alReg[a[1]].ver # a[2]
    BY <1>1, <1>3, <1>4, <1>6, TooLow
  <2>5. AlTyped'
    BY <1>1, <1>2, <2>3 DEF AlTyped
  <2>6. RegistryStands'
    BY <1>1, <1>2, <2>1 DEF RegistryStands
  <2>7. Dangling(alReg', alBase', a) = Dangling(alReg, alBase, a)
    BY <1>2
  <2>8. TapStands'
    BY <1>2, <2>1, <2>4, <2>7 DEF TapStands
  <2>. QED BY <1>2, <2>5, <2>6, <2>8, NoneChanges DEF AlInv
<1>. QED BY <1>5, <1>6

LEMMA CommitArtifactActivationHolds == ASSUME AlInv, CommitArtifactActivation PROVE AlInv'
<1>1. AlTyped /\ RegistryStands /\ RowsStand /\ TapStands
  BY DEF AlInv
<1>2. PICK a : a = alTask.art
  OBVIOUS
<1>3. alTask.at = "staged" /\ alTask \in Activations /\ a \in Learned
  BY <1>1, <1>2, TaskIs DEF CommitArtifactActivation, Activations
<1>4. /\ alProp' = [alProp EXCEPT ![a] = IF alTask.dangling = {} THEN "active" ELSE "approved"]
      /\ alRow' = [alRow EXCEPT ![a] = [NoRow EXCEPT !.status = "compatible"]]
      /\ alTask' = [alTask EXCEPT !.at = "committed"]
      /\ UNCHANGED <<alTapped, alReq, alFile, alReg, alBase>>
  BY <1>2 DEF CommitArtifactActivation
<1>5. PICK p \in Committed : /\ p = IF alTask.dangling = {} THEN "active" ELSE "approved"
  BY DEF Committed
<1>6. PICK r : r = [NoRow EXCEPT !.status = "compatible"]
  OBVIOUS
<1>7. r \in Rows /\ r.status = "compatible"
  <2>1. r = [status |-> "compatible", req |-> 0, legacy |-> FALSE, ok |-> {}]
    BY <1>6 DEF NoRow
  <2>2. 0 \in 0..MaxReconfirmations /\ {} \in SUBSET Identities
    BY ArtifactAssumption
  <2>. QED BY <2>1, <2>2 DEF Rows
<1>8. alTask' \in Activations /\ alTask'.at = "committed" /\ alTask'.art = a /\ alTask'.dangling = alTask.dangling
  BY <1>2, <1>3, <1>4 DEF Activations
<1>9. /\ alProp'[a] = p /\ alRow'[a] = r
      /\ \A c \in Learned \ {a} : alProp'[c] = alProp[c] /\ alRow'[c] = alRow[c]
  BY <1>1, <1>3, <1>4, <1>5, <1>6 DEF AlTyped
<1>10. AlTyped'
  <2>1. p \in Proposals
    BY DEF Committed, Proposals
  <2>2. alProp' \in [Learned -> Proposals] /\ alRow' \in [Learned -> Rows]
    BY <1>1, <1>4, <1>5, <1>6, <1>7, <2>1 DEF AlTyped
  <2>. QED BY <1>1, <1>4, <1>8, <2>2 DEF AlTyped
<1>11. RegistryStands'
  BY <1>1, <1>4, <1>8 DEF RegistryStands
<1>12. RowsStand'
  <2>1. RowStands(r, p)
    BY <1>7 DEF RowStands
  <2>. QED BY <1>1, <1>9, <2>1 DEF RowsStand
<1>13. TapStands'
  <2>1. alReg[a[1]].ver # a[2] /\ alTask.dangling = Dangling(alReg, alBase, a)
    BY <1>1, <1>2, <1>3 DEF TapStands
  <2>2. Dangling(alReg', alBase', a) = Dangling(alReg, alBase, a)
    BY <1>4
  <2>. QED BY <1>4, <1>5, <1>7, <1>8, <1>9, <2>1, <2>2 DEF TapStands
<1>14. \A c \in Learned : Backed(c)'
  <2>1. alReg[a[1]].ver # a[2]
    BY <1>1, <1>2, <1>3 DEF TapStands
  <2>2. \A c \in Learned \ {a} : alRow'[c] = alRow[c] /\ alProp'[c] = alProp[c]
    BY <1>9
  <2>. QED BY <1>3, <1>4, <2>1, <2>2, OthersStand
<1>. QED BY <1>10, <1>11, <1>12, <1>13, <1>14 DEF AlInv

LEMMA PublishActivationHolds == ASSUME AlInv, PublishActivation PROVE AlInv'
<1>1. AlTyped /\ RegistryStands /\ RowsStand /\ TapStands
  BY DEF AlInv
<1>2. PICK a : a = alTask.art
  OBVIOUS
<1>3. alTask.at = "committed" /\ alTask \in Activations /\ a \in Learned
  BY <1>1, <1>2, TaskIs DEF PublishActivation, Activations
<1>4. alFile' = [alFile EXCEPT ![a] = "good"] /\ UNCHANGED <<alProp, alTapped, alRow, alReq, alBase>>
  BY <1>2 DEF PublishActivation
<1>5. RowsStand'
  BY <1>1, <1>4 DEF RowsStand
<1>6. CASE alTask.dangling = {}
  <2>1. alReg' = [alReg EXCEPT ![a[1]] = [ver |-> a[2], content |-> "good"]] /\ alTask' = NoTap
    BY <1>2, <1>6 DEF PublishActivation
  <2>2. alTask'.at = "idle"
    BY <2>1 DEF NoTap
  <2>3. /\ alReg' \in [Identities -> [ver : Nat, content : {"absent", "good", "edited"}]]
        /\ RegistryStands'
        /\ \A c \in Learned : alReg'[c[1]].ver = c[2] => c = a \/ alReg[c[1]].ver = c[2]
        /\ \A base : \A c \in Learned : Dangling(alReg', base, c) \subseteq Dangling(alReg, base, c)
    BY <1>1, <1>3, <2>1, <2>2, Published
  <2>4. AlTyped' /\ TapStands'
    BY <1>1, <1>3, <1>4, <2>1, <2>2, <2>3 DEF AlTyped, TapStands
  <2>5. ASSUME NEW c \in Learned PROVE Backed(c)'
    <3>1. Backed(c) /\ Dangling(alReg', alBase, c) \subseteq Dangling(alReg, alBase, c)
      BY <2>3 DEF AlInv
    <3>2. CASE c = a
      <4>1. /\ alRow[a].status = "compatible" /\ alProp[a] = "active"
            /\ Dangling(alReg, alBase, a) = {}
        BY <1>1, <1>2, <1>3, <1>6 DEF TapStands
      <4>. QED BY <1>4, <3>1, <3>2, <4>1 DEF Backed, Trusted
    <3>3. CASE c # a
      BY <1>4, <2>3, <3>1, <3>3 DEF Backed
    <3>. QED BY <3>2, <3>3
  <2>. QED BY <1>5, <2>3, <2>4, <2>5 DEF AlInv
<1>7. CASE alTask.dangling # {}
  <2>1. alTask' = [alTask EXCEPT !.at = "published"] /\ alReg' = alReg
    BY <1>7 DEF PublishActivation
  <2>2. alTask' \in Activations /\ alTask'.at = "published" /\ alTask'.art = a
    BY <1>2, <1>3, <2>1 DEF Activations
  <2>3. AlTyped'
    BY <1>1, <1>3, <1>4, <2>1, <2>2 DEF AlTyped
  <2>4. RegistryStands' /\ TapStands'
    BY <1>1, <1>2, <1>3, <1>4, <2>1, <2>2 DEF RegistryStands, TapStands
  <2>. QED BY <1>4, <2>1, <2>3, <2>4, NoneChanges DEF AlInv
<1>. QED BY <1>6, <1>7

LEMMA MarkReconfirmationHolds == ASSUME AlInv, MarkReconfirmationRequired PROVE AlInv'
<1>1. AlTyped /\ RegistryStands /\ RowsStand /\ TapStands
  BY DEF AlInv
<1>2. PICK a : a = alTask.art
  OBVIOUS
<1>3. alTask.at = "published" /\ alTask \in Activations /\ a \in Learned
  BY <1>1, <1>2, TaskIs DEF MarkReconfirmationRequired, Activations
<1>4. PICK n \in 1..MaxReconfirmations :
        /\ alRow' = [alRow EXCEPT ![a].status = "required", ![a].req = n]
        /\ alTask' = [at |-> "marked", art |-> a, req |-> n]
  BY <1>2 DEF MarkReconfirmationRequired, FreshRequest
<1>5. UNCHANGED <<alProp, alTapped, alReq, alFile, alReg, alBase>>
  BY DEF MarkReconfirmationRequired
<1>6. alRow[a] \in Rows /\ alReg[a[1]].ver # a[2] /\ alProp[a] \in Committed
  BY <1>1, <1>2, <1>3 DEF AlTyped, TapStands
<1>7. PICK r : r = [alRow[a] EXCEPT !.status = "required", !.req = n]
  OBVIOUS
<1>8. r \in Rows /\ r.status = "required"
  <2>1. r = [status |-> "required", req |-> n, legacy |-> alRow[a].legacy, ok |-> alRow[a].ok]
    BY <1>6, <1>7 DEF Rows
  <2>2. n \in 0..MaxReconfirmations /\ alRow[a].legacy \in BOOLEAN /\ alRow[a].ok \in SUBSET Identities
    BY <1>6, ArtifactAssumption DEF Rows
  <2>. QED BY <2>1, <2>2 DEF Rows
<1>9. alRow' = [alRow EXCEPT ![a] = r]
  BY <1>1, <1>3, <1>4, <1>7 DEF AlTyped
<1>10. alRow'[a] = r /\ \A c \in Learned \ {a} : alRow'[c] = alRow[c]
  BY <1>1, <1>3, <1>9 DEF AlTyped
<1>11. alTask' \in Reviews /\ alTask'.at = "marked" /\ alTask'.art = a
  BY <1>3, <1>4 DEF Reviews
<1>12. AlTyped'
  BY <1>1, <1>5, <1>8, <1>9, <1>11 DEF AlTyped
<1>13. RegistryStands' /\ TapStands'
  BY <1>1, <1>5, <1>6, <1>11 DEF RegistryStands, TapStands
<1>14. RowsStand'
  <2>1. RowStands(r, alProp[a])
    BY <1>6, <1>8 DEF RowStands
  <2>. QED BY <1>1, <1>5, <1>10, <2>1 DEF RowsStand
<1>15. \A c \in Learned : Backed(c)'
  <2>1. \A c \in Learned \ {a} : alRow'[c] = alRow[c] /\ alProp'[c] = alProp[c]
    BY <1>5, <1>10
  <2>. QED BY <1>3, <1>5, <1>6, <2>1, OthersStand
<1>. QED BY <1>12, <1>13, <1>14, <1>15 DEF AlInv

LEMMA AskReconfirmationHolds == ASSUME AlInv, AskReconfirmation PROVE AlInv'
<1>1. AlTyped /\ RegistryStands
  BY DEF AlInv
<1>2. alTask' = NoTap /\ alTask'.at = "idle"
  BY DEF AskReconfirmation, NoTap
<1>3. UNCHANGED <<alProp, alTapped, alRow, alFile, alReg, alBase>>
  BY DEF AskReconfirmation
<1>4. alReq' \in [Learned -> [1..MaxReconfirmations -> {"unissued", "open", "used"}]]
  <2>1. alTask \in Reviews
    BY <1>1, TaskIs DEF AskReconfirmation
  <2>2. PICK a \in Learned, n \in 1..MaxReconfirmations : a = alTask.art /\ n = alTask.req
    BY <2>1 DEF Reviews
  <2>3. alReq' = [alReq EXCEPT ![a][n] = "open"]
    BY <2>2 DEF AskReconfirmation
  <2>. QED BY <1>1, <2>3 DEF AlTyped
<1>5. AlTyped' /\ RegistryStands' /\ TapStands'
  BY <1>1, <1>2, <1>3, <1>4 DEF AlTyped, RegistryStands, TapStands
<1>. QED BY <1>3, <1>5, NoneChanges DEF AlInv

LEMMA TapReconfirmHolds ==
    ASSUME AlInv, NEW a \in Learned, NEW n \in 1..MaxReconfirmations, TapReconfirm(a, n) PROVE AlInv'
<1>1. AlTyped /\ RegistryStands /\ RowsStand
  BY DEF AlInv
<1>2. PICK p : p = IF alProp[a] = "active" /\ ~alRow[a].legacy THEN "approved" ELSE alProp[a]
  OBVIOUS
<1>3. /\ alProp' = [alProp EXCEPT ![a] = p]
      /\ alTask' = [at |-> "confirm", art |-> a, req |-> n]
      /\ UNCHANGED <<alTapped, alRow, alReq, alFile, alReg, alBase>>
      /\ alRow[a].req = n /\ ArtifactVersion(alReg, alBase, a[1]) < a[2]
  BY <1>1, <1>2 DEF TapReconfirm, MayReinstate, AlTyped
<1>4. alRow[a] \in Rows /\ alProp[a] \in Proposals /\ RowStands(alRow[a], alProp[a])
  BY <1>1 DEF AlTyped, RowsStand
<1>5. alRow[a].status # "none"
  BY <1>3, <1>4 DEF RowStands, NoRow
<1>6. p \in Proposals /\ RowStands(alRow[a], p) /\ (alRow[a].legacy \/ p = "approved")
  BY <1>2, <1>4, <1>5 DEF Proposals, RowStands, Committed
<1>7. alProp'[a] = p /\ \A c \in Learned \ {a} : alProp'[c] = alProp[c]
  BY <1>1, <1>3 DEF AlTyped
<1>8. alTask' \in Reviews /\ alTask'.at = "confirm" /\ alTask'.art = a
  BY <1>3 DEF Reviews
<1>9. alReg[a[1]].ver # a[2]
  BY <1>1, <1>3, TooLow
<1>10. AlTyped'
  BY <1>1, <1>3, <1>6, <1>8 DEF AlTyped
<1>11. RegistryStands'
  BY <1>1, <1>3, <1>8 DEF RegistryStands
<1>12. TapStands'
  BY <1>3, <1>5, <1>6, <1>7, <1>8, <1>9 DEF TapStands
<1>13. RowsStand'
  BY <1>1, <1>3, <1>6, <1>7 DEF RowsStand
<1>14. \A c \in Learned : Backed(c)'
  <2>1. \A c \in Learned \ {a} : alRow'[c] = alRow[c] /\ alProp'[c] = alProp[c]
    BY <1>3, <1>7
  <2>. QED BY <1>3, <1>9, <2>1, OthersStand
<1>. QED BY <1>10, <1>11, <1>12, <1>13, <1>14 DEF AlInv

LEMMA CommitOwnerReconfirmationHolds == ASSUME AlInv, CommitOwnerReconfirmation PROVE AlInv'
<1>1. AlTyped /\ RegistryStands /\ RowsStand /\ TapStands
  BY DEF AlInv
<1>2. alTask.at = "confirm" /\ alTask \in Reviews
  BY <1>1, TaskIs DEF CommitOwnerReconfirmation
<1>3. PICK a \in Learned, n \in 1..MaxReconfirmations : a = alTask.art /\ n = alTask.req
  BY <1>2 DEF Reviews
<1>4. alTask' = NoTap /\ alTask'.at = "idle" /\ UNCHANGED <<alTapped, alFile, alBase>>
  BY DEF CommitOwnerReconfirmation, NoTap
<1>5. CASE alReq[a][n] = "open"
  <2>1. PICK r : r = [NoRow EXCEPT !.status = "accepted", !.ok = Dangling(alReg, alBase, a)]
    OBVIOUS
  <2>2. PICK p : p = IF alProp[a] = "approved" \/ alRow[a].legacy THEN "active" ELSE alProp[a]
    OBVIOUS
  <2>3. /\ alReq' = [alReq EXCEPT ![a][n] = "used"]
        /\ alRow' = [alRow EXCEPT ![a] = r]
        /\ alProp' = [alProp EXCEPT ![a] = p]
        /\ alReg' = [alReg EXCEPT ![a[1]] = [ver |-> a[2], content |-> "good"]]
    BY <1>1, <1>3, <1>5, <2>1, <2>2 DEF CommitOwnerReconfirmation, AlTyped
  <2>4. p = "active"
    BY <1>1, <1>2, <1>3, <2>2 DEF TapStands
  <2>5. Dangling(alReg, alBase, a) \in SUBSET Identities
    BY DEF Dangling, Identities
  <2>6. r \in Rows /\ r.status = "accepted" /\ r.ok = Dangling(alReg, alBase, a)
    <3>1. r = [status |-> "accepted", req |-> 0, legacy |-> FALSE, ok |-> Dangling(alReg, alBase, a)]
      BY <2>1 DEF NoRow
    <3>2. 0 \in 0..MaxReconfirmations
      BY ArtifactAssumption
    <3>. QED BY <2>5, <3>1, <3>2 DEF Rows
  <2>7. /\ alProp'[a] = "active" /\ alRow'[a] = r
        /\ \A c \in Learned \ {a} : alProp'[c] = alProp[c] /\ alRow'[c] = alRow[c]
    BY <1>1, <2>3, <2>4 DEF AlTyped
  <2>8. /\ alReg' \in [Identities -> [ver : Nat, content : {"absent", "good", "edited"}]]
        /\ RegistryStands'
        /\ \A c \in Learned : alReg'[c[1]].ver = c[2] => c = a \/ alReg[c[1]].ver = c[2]
        /\ \A base : \A c \in Learned : Dangling(alReg', base, c) \subseteq Dangling(alReg, base, c)
    BY <1>1, <1>4, <2>3, Published
  <2>9. AlTyped'
    <3>1. alProp' \in [Learned -> Proposals] /\ alRow' \in [Learned -> Rows]
      BY <1>1, <2>3, <2>4, <2>6 DEF AlTyped, Proposals
    <3>2. alReq' \in [Learned -> [1..MaxReconfirmations -> {"unissued", "open", "used"}]]
      BY <1>1, <2>3 DEF AlTyped
    <3>. QED BY <1>1, <1>4, <2>8, <3>1, <3>2 DEF AlTyped
  <2>10. TapStands'
    BY <1>4 DEF TapStands
  <2>11. RowsStand'
    <3>1. RowStands(r, "active")
      BY <2>6 DEF RowStands, Committed
    <3>. QED BY <1>1, <2>7, <3>1 DEF RowsStand
  <2>12. ASSUME NEW c \in Learned PROVE Backed(c)'
    <3>1. Backed(c) /\ Dangling(alReg', alBase, c) \subseteq Dangling(alReg, alBase, c)
      BY <2>8 DEF AlInv
    <3>2. CASE c = a
      BY <1>4, <2>6, <2>7, <3>1, <3>2 DEF Backed, Trusted
    <3>3. CASE c # a
      BY <1>4, <2>7, <2>8, <3>1, <3>3 DEF Backed
    <3>. QED BY <3>2, <3>3
  <2>. QED BY <2>8, <2>9, <2>10, <2>11, <2>12 DEF AlInv
<1>6. CASE alReq[a][n] # "open"
  <2>1. UNCHANGED <<alReq, alRow, alProp, alReg>>
    BY <1>3, <1>6 DEF CommitOwnerReconfirmation
  <2>2. AlTyped' /\ RegistryStands' /\ TapStands'
    BY <1>1, <1>4, <2>1 DEF AlTyped, RegistryStands, TapStands
  <2>. QED BY <1>4, <2>1, <2>2, NoneChanges DEF AlInv
<1>. QED BY <1>5, <1>6

LEMMA HandlerFailsHolds == ASSUME AlInv, HandlerFails PROVE AlInv'
<1>1. AlTyped /\ RegistryStands
  BY DEF AlInv
<1>2. alTask' = NoTap /\ alTask'.at = "idle" /\ UNCHANGED <<alProp, alTapped, alRow, alReq, alFile, alReg, alBase>>
  BY DEF HandlerFails, NoTap
<1>3. AlTyped' /\ RegistryStands' /\ TapStands'
  BY <1>1, <1>2 DEF AlTyped, RegistryStands, TapStands
<1>. QED BY <1>2, <1>3, NoneChanges DEF AlInv

LEMMA AlCrashHolds == ASSUME AlInv, AlCrash PROVE AlInv'
<1>1. AlTyped /\ RegistryStands /\ RowsStand
  BY DEF AlInv
<1>2. /\ alTask' = Halted /\ alTask'.at = "down" /\ alReg' = [id \in Identities |-> NoEntry]
      /\ UNCHANGED <<alProp, alTapped, alRow, alReq, alFile, alBase>>
  BY DEF AlCrash, Halted
<1>3. AlTyped'
  BY <1>1, <1>2 DEF AlTyped, NoEntry
<1>4. RegistryStands' /\ TapStands' /\ RowsStand'
  BY <1>1, <1>2 DEF RegistryStands, TapStands, RowsStand
<1>5. ASSUME NEW c \in Learned PROVE Backed(c)'
  <2>1. alReg'[c[1]].ver = 0 /\ c[2] # 0
    BY <1>2, VersionIs DEF NoEntry
  <2>. QED BY <2>1 DEF Backed
<1>. QED BY <1>3, <1>4, <1>5 DEF AlInv

LEMMA FilesHold ==
    ASSUME AlInv, alFile' \in [Learned -> {"absent", "good", "edited"}],
           UNCHANGED <<alProp, alTapped, alRow, alReq, alReg, alBase, alTask>>
    PROVE  AlInv'
<1>1. AlTyped /\ RegistryStands /\ TapStands
  BY DEF AlInv
<1>2. AlTyped' /\ RegistryStands'
  BY <1>1 DEF AlTyped, RegistryStands
<1>3. TapStands'
  <2>1. Dangling(alReg', alBase', alTask.art) = Dangling(alReg, alBase, alTask.art)
    OBVIOUS
  <2>. QED BY <1>1, <2>1 DEF TapStands
<1>. QED BY <1>2, <1>3, NoneChanges DEF AlInv

LEMMA LoadOverlayStopsHolds == ASSUME AlInv, NEW b \in Bases, LoadOverlayStops(b) PROVE AlInv'
<1>1. AlTyped /\ RegistryStands /\ RowsStand
  BY DEF AlInv
<1>2. alTask = Halted /\ UNCHANGED <<alReg, alBase, alTask>> /\ alTask.at = "down"
  BY DEF LoadOverlayStops, Halted
<1>3. PICK chosen \in RequestChoices(Reviewed(b)), asked \in SUBSET Reviewed(b) :
        \E marked \in SUBSET asked : StartupWrites(asked, marked, chosen)
  BY DEF LoadOverlayStops
<1>4. PICK marked \in SUBSET asked : StartupWrites(asked, marked, chosen)
  BY <1>3
<1>5. /\ alProp' = alProp /\ alTapped' = alTapped
      /\ alRow' \in [Learned -> Rows]
      /\ alReq' \in [Learned -> [1..MaxReconfirmations -> {"unissued", "open", "used"}]]
      /\ alFile' \in [Learned -> {"absent", "good", "edited"}]
      /\ RowsStand'
  BY <1>1, <1>4, StartupHolds
<1>6. AlTyped' /\ RegistryStands' /\ TapStands'
  BY <1>1, <1>2, <1>5 DEF AlTyped, RegistryStands, TapStands
<1>7. ASSUME NEW c \in Learned PROVE Backed(c)'
  <2>1. alReg'[c[1]] = NoEntry /\ c[2] # 0
    BY <1>1, <1>2, VersionIs DEF RegistryStands
  <2>. QED BY <2>1 DEF Backed, NoEntry
<1>. QED BY <1>5, <1>6, <1>7 DEF AlInv

LEMMA AlInvHolds == ASSUME AlInv, [AlNext]_alVars PROVE AlInv'
<1>1. AlTyped
  BY DEF AlInv
<1>2. ASSUME NEW a \in Learned, PlaceFile(a) \/ RemoveFile(a) \/ EditFile(a) PROVE AlInv'
  <2>1. alFile' \in [Learned -> {"absent", "good", "edited"}]
    BY <1>1, <1>2 DEF PlaceFile, RemoveFile, EditFile, AlTyped
  <2>2. UNCHANGED <<alProp, alTapped, alRow, alReq, alReg, alBase, alTask>>
    BY <1>2 DEF PlaceFile, RemoveFile, EditFile
  <2>. QED BY <2>1, <2>2, FilesHold
<1>3. CASE UNCHANGED alVars
  <2>1. alFile' \in [Learned -> {"absent", "good", "edited"}]
        /\ UNCHANGED <<alProp, alTapped, alRow, alReq, alReg, alBase, alTask>>
    BY <1>1, <1>3 DEF alVars, AlTyped
  <2>. QED BY <2>1, FilesHold
<1>4. CASE AlNext
  <2>1. CASE \E a \in Learned :
               \/ Propose(a) \/ StageActivation(a)
               \/ PlaceFile(a) \/ RemoveFile(a) \/ EditFile(a)
               \/ \E n \in 1..MaxReconfirmations : TapReconfirm(a, n)
    BY <2>1, <1>2, ProposeHolds, StageActivationHolds, TapReconfirmHolds
  <2>2. CASE \E b \in Bases : LoadOverlay(b) \/ LoadOverlayStops(b)
    BY <2>2, LoadOverlayHolds, LoadOverlayStopsHolds
  <2>3. CASE CommitArtifactActivation \/ PublishActivation \/ MarkReconfirmationRequired
    BY <2>3, CommitArtifactActivationHolds, PublishActivationHolds, MarkReconfirmationHolds
  <2>4. CASE AskReconfirmation \/ CommitOwnerReconfirmation \/ HandlerFails \/ AlCrash
    BY <2>4, AskReconfirmationHolds, CommitOwnerReconfirmationHolds, HandlerFailsHolds, AlCrashHolds
  <2>. QED BY <1>4, <2>1, <2>2, <2>3, <2>4 DEF AlNext
<1>. QED BY <1>3, <1>4

LEMMA AlInvIsEnough == ASSUME AlInv PROVE OverlayIsBacked
<1>1. AlTyped /\ RegistryStands /\ \A a \in Learned : Backed(a)
  BY DEF AlInv
<1>2. AlTypeOK
  BY <1>1 DEF AlTyped, RegistryStands, AlTypeOK, Proposals, Rows
<1>3. InEffectIsBacked /\ ReferencesResolve
  BY <1>1 DEF InEffectIsBacked, ReferencesResolve, InEffect, Backed
<1>. QED BY <1>2, <1>3 DEF OverlayIsBacked

(* Whatever the owner deletes, edits or taps, under any bases and wherever a handler or a
   startup stops: a version that is in effect under an identity the base does not provide
   has an Active proposal and a learned row that needs no confirmation, and what it refers
   to is provided or accepted by the owner as dangling. *)
THEOREM OverlayHolds == AlSpec => []OverlayIsBacked
BY AlStarts, AlInvHolds, AlInvIsEnough, PTL DEF AlSpec

(* What a startup puts in effect. *)
LEMMA LoadedInEffect ==
    ASSUME AlInv, NEW b \in Bases, LoadOverlay(b), NEW a \in Learned
    PROVE  a \in InEffect' <=> a \in Kept(b)
<1>1. AlTyped /\ RowsStand
  BY DEF AlInv
<1>2. alReg' = RegistryOf(Kept(b))
  BY DEF LoadOverlay
<1>3. \A c \in Kept(b) : alReg'[c[1]] = [ver |-> c[2], content |-> ContentAt(c)]
  BY <1>1, <1>2, RegistryIs
<1>4. \A id \in Identities : (\A c \in Kept(b) : c[1] # id) => alReg'[id] = NoEntry
  BY <1>1, <1>2, RegistryIs
<1>5. a = <<a[1], a[2]>> /\ a[2] \in Nat \ {0} /\ a[1] \in Identities
  BY VersionIs
<1>6. ASSUME a \in Kept(b) PROVE alReg'[a[1]].ver = a[2]
  <2>1. alReg'[a[1]] = [ver |-> a[2], content |-> ContentAt(a)]
    BY <1>3, <1>6
  <2>. QED BY <2>1
<1>7. ASSUME alReg'[a[1]].ver = a[2] PROVE a \in Kept(b)
  <2>1. PICK c \in Kept(b) : c[1] = a[1]
    BY <1>4, <1>5, <1>7 DEF NoEntry
  <2>2. alReg'[c[1]] = [ver |-> c[2], content |-> ContentAt(c)]
    BY <1>3, <2>1
  <2>3. c[2] = a[2]
    BY <1>7, <2>1, <2>2
  <2>4. c = <<c[1], c[2]>>
    BY <1>1, <2>1, KeptStands, LoadedIs, SourceIs, VersionIs
  <2>. QED BY <1>5, <2>1, <2>3, <2>4
<1>. QED BY <1>6, <1>7 DEF InEffect

LEMMA StartupDecidesNothing ==
    ASSUME AlInv, NEW b \in Bases, LoadOverlay(b), NEW a \in Learned, a \in InEffect'
    PROVE  alRow[a].status # "required"
<1>1. AlTyped /\ RowsStand
  BY DEF AlInv
<1>2. a \in Kept(b)
  BY LoadedInEffect
<1>3. Stands(b, Kept(b), a) /\ (a[1] \in b => a \in Recovered)
  BY <1>1, <1>2, KeptStands, LoadedIs
<1>. QED BY <1>3 DEF Stands, Recovered, Trusted

LEMMA StepWaitsForOwner ==
    ASSUME AlInv, [AlNext]_alVars, NEW a \in Learned, alRow[a].status = "required",
           a \notin InEffect, a \in InEffect'
    PROVE  CommitOwnerReconfirmation
<1>1. AlTyped /\ RegistryStands /\ TapStands
  BY DEF AlInv
<1>2. alReg' # alReg
  BY DEF InEffect
<1>3. CASE PublishActivation
  <2>1. alTask.at = "committed" /\ alTask \in Activations
    BY <1>1, <1>3, TaskIs DEF PublishActivation
  <2>2. PICK c \in Learned : c = alTask.art
    BY <2>1 DEF Activations
  <2>3. alReg' = [alReg EXCEPT ![c[1]] = [ver |-> c[2], content |-> "good"]] /\ alTask' = NoTap
    BY <1>2, <1>3, <2>2 DEF PublishActivation
  <2>4. alReg'[a[1]].ver = a[2] => a = c \/ alReg[a[1]].ver = a[2]
    <3>1. alTask'.at # "down"
      BY <2>3 DEF NoTap
    <3>. QED BY <1>1, <2>3, <3>1, Published
  <2>5. alRow[c].status = "compatible"
    BY <1>1, <2>1, <2>2 DEF TapStands
  <2>. QED BY <2>4, <2>5 DEF InEffect
<1>4. CASE AlCrash
  <2>1. alReg'[a[1]].ver = 0 /\ a[2] # 0
    BY <1>4, VersionIs DEF AlCrash, NoEntry
  <2>. QED BY <2>1 DEF InEffect
<1>5. ASSUME NEW b \in Bases, LoadOverlay(b) PROVE FALSE
  BY <1>5, StartupDecidesNothing
<1>6. CASE CommitOwnerReconfirmation
  BY <1>6
<1>7. ASSUME NEW c \in Learned PROVE ~(\/ Propose(c) \/ StageActivation(c)
                                       \/ PlaceFile(c) \/ RemoveFile(c) \/ EditFile(c)
                                       \/ \E n \in 1..MaxReconfirmations : TapReconfirm(c, n))
  BY <1>2 DEF Propose, StageActivation, PlaceFile, RemoveFile, EditFile, TapReconfirm
<1>8. ~(CommitArtifactActivation \/ MarkReconfirmationRequired \/ AskReconfirmation \/ HandlerFails)
  BY <1>2 DEF CommitArtifactActivation, MarkReconfirmationRequired, AskReconfirmation, HandlerFails
<1>9. ~(UNCHANGED alVars) /\ \A b \in Bases : ~LoadOverlayStops(b)
  BY <1>2 DEF alVars, LoadOverlayStops
<1>. QED BY <1>3, <1>4, <1>5, <1>6, <1>7, <1>8, <1>9 DEF AlNext

LEMMA StepRestarts ==
    ASSUME AlInv, [AlNext]_alVars, Restarted PROVE \E b \in Bases : LoadOverlay(b)
<1>1. alTask = Halted /\ alTask.at = "down" /\ alTask # NoTap /\ alTask' # alTask
  BY DEF Restarted, Halted, NoTap
<1>2. ASSUME NEW c \in Learned PROVE ~(\/ Propose(c) \/ StageActivation(c)
                                       \/ PlaceFile(c) \/ RemoveFile(c) \/ EditFile(c)
                                       \/ \E n \in 1..MaxReconfirmations : TapReconfirm(c, n))
  BY <1>1 DEF Propose, StageActivation, PlaceFile, RemoveFile, EditFile, TapReconfirm
<1>3. ~(\/ CommitArtifactActivation \/ PublishActivation \/ MarkReconfirmationRequired
        \/ AskReconfirmation \/ CommitOwnerReconfirmation \/ HandlerFails \/ AlCrash)
  BY <1>1 DEF CommitArtifactActivation, PublishActivation, MarkReconfirmationRequired,
              AskReconfirmation, CommitOwnerReconfirmation, HandlerFails, AlCrash
<1>4. ~(UNCHANGED alVars) /\ \A b \in Bases : ~LoadOverlayStops(b)
  BY <1>1 DEF alVars, LoadOverlayStops
<1>. QED BY <1>2, <1>3, <1>4 DEF AlNext

LEMMA CommittedComesBack ==
    ASSUME AlInv, [AlNext]_alVars, Restarted, NEW a \in Learned,
           alProp[a] = "active", a[2] = HighestActive(a[1]), a[1] \notin alBase',
           alRow[a].status \in Trusted, alFile[a] # "edited",
           Refs[a] \subseteq alBase' \cup {c[1] : c \in InEffect'}
    PROVE  a \in InEffect'
<1>1. AlTyped /\ RowsStand
  BY DEF AlInv
<1>2. PICK b \in Bases : LoadOverlay(b)
  BY StepRestarts
<1>3. alBase' = b
  BY <1>2 DEF LoadOverlay
<1>4. a \in Sources
  <2>1. alFile[a] # "absent" => a \in Admitted
    BY DEF Admitted, Present
  <2>2. alFile[a] = "absent" => a \in Recovered
    BY DEF Recovered
  <2>. QED BY <2>1, <2>2 DEF Sources
<1>5. a \notin Missing
  BY DEF Missing, Trusted, NoRow
<1>6. a \in Loaded(b)
  BY <1>3, <1>4, <1>5 DEF Loaded, Collisions
<1>7. ContentAt(a) # "edited"
  BY DEF ContentAt
<1>8. Unprovided(b, Kept(b) \cup {a}, a) = {}
  <2>1. ASSUME NEW id \in Refs[a], id \notin b PROVE \E c \in Kept(b) : c[1] = id
    <3>1. PICK c \in InEffect' : c[1] = id
      BY <1>3, <2>1
    <3>2. c \in Learned
      BY DEF InEffect
    <3>. QED BY <1>2, <3>1, <3>2, LoadedInEffect
  <2>. QED BY <2>1 DEF Unprovided
<1>9. Stands(b, Kept(b) \cup {a}, a)
  <2>1. ~Tampered(a)
    BY <1>4, <1>7 DEF Tampered, Captured
  <2>. QED BY <1>8, <2>1 DEF Stands, AcceptedStands, Trusted
<1>10. a \in Kept(b)
  BY <1>6, <1>9, KeptIsLargest
<1>. QED BY <1>2, <1>10, LoadedInEffect

(* A version taken out of effect comes back only by the transaction of the owner's tap, and
   what the owner's approval committed comes back with a restart once its references are
   provided: of every step, for any versions, bases and histories of stopped startups. *)
THEOREM OwnerDecidesHolds == AlSpec => OwnerDecides
<1>. DEFINE Waits == \A a \in Learned :
                       alRow[a].status = "required" /\ a \notin InEffect /\ a \in InEffect'
                       => CommitOwnerReconfirmation
            Survives == Restarted =>
                       \A a \in Learned :
                          /\ alProp[a] = "active" /\ a[2] = HighestActive(a[1]) /\ a[1] \notin alBase'
                          /\ alRow[a].status \in Trusted /\ alFile[a] # "edited"
                          /\ Refs[a] \subseteq alBase' \cup {c[1] : c \in InEffect'}
                          => a \in InEffect'
<1>1. AlInv /\ [AlNext]_alVars => Waits
  BY StepWaitsForOwner
<1>2. AlInv /\ [AlNext]_alVars => Survives
  BY CommittedComesBack
<1>3. AlInv /\ [AlNext]_alVars => AlInv'
  BY AlInvHolds
<1>4. AlSpec => [][Waits]_alVars /\ [][Survives]_alVars
  <2>. HIDE DEF Waits, Survives
  <2>. QED BY <1>1, <1>2, <1>3, AlStarts, PTL DEF AlSpec
<1>. QED BY <1>4 DEF OwnerDecides, RequiredWaitsForOwner, CommittedSurvivesRestart
================================================================================
