----------------------------- MODULE BusConsumer -----------------------------
(***************************************************************************)
(* What a durable consumer of the audit ledger promises.  The ledger is    *)
(* append only; a consumer is bound to one filter and keeps a watermark,   *)
(* the global sequence number it has acknowledged.  Each pass replays the  *)
(* matching rows after the watermark in order, and the watermark moves     *)
(* over a row only once the row is settled.  A row may be settled and not  *)
(* yet acknowledged: delivery is at least once.                            *)
(***************************************************************************)
EXTENDS Naturals, Sequences

CONSTANTS
    Filter,   \* the events this consumer is bound to
    Others    \* the other events of the ledger

VARIABLES
    bus,      \* the rows of audit_log; an index is a global sequence number
    acked,    \* consumer_checkpoints.last_acked_global_seq
    settled   \* rows whose handler has succeeded

busVars == <<bus, acked, settled>>

(* The rows the filter selects. *)
Matching == {i \in DOMAIN bus : bus[i] \in Filter}

(* The row the next delivery is for. *)
FirstAfter(i) ==
    /\ i \in Matching /\ i > acked
    /\ \A j \in Matching : j > acked => i <= j

BusInit == bus = <<>> /\ acked = 0 /\ settled = {}

(* append_audit, by any component. *)
AppendAudit ==
    /\ \E e \in Filter \cup Others : bus' = Append(bus, e)
    /\ UNCHANGED <<acked, settled>>

(* The handler succeeds; its state and the watermark may commit together.  *)
Deliver ==
    \E i \in Matching :
        /\ FirstAfter(i)
        /\ settled' = settled \cup {i}
        /\ acked' \in {acked, i}
        /\ UNCHANGED bus

(* save_consumer_checkpoint refuses to move the watermark back. *)
SaveCheckpoint ==
    \E i \in settled :
        /\ FirstAfter(i)
        /\ acked' = i
        /\ UNCHANGED <<bus, settled>>

BusNext == AppendAudit \/ Deliver \/ SaveCheckpoint

BusSpec == BusInit /\ [][BusNext]_busVars
==============================================================================
