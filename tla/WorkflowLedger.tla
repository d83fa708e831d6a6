---------------------------- MODULE WorkflowLedger ----------------------------
(* The ledger of one workflow run and the operations a workflow context performs
   on it (workflow.rs, store/audit_support.rs). A record is the payload of one
   audit row of the run's aggregate. The step registry is not a second variable:
   it is written in the transaction that appends the row it points at, so the
   registry row of a step is "the first record of that phase for that step".
   Several contexts may drive one run; each holds a private view of the steps,
   taken when it was rehydrated. *)
EXTENDS Naturals, Sequences, FiniteSets

CONSTANT None   \* no receipt, no outcome, no approval

Record(phase, step, kind, digest, out) ==
    [phase |-> phase, step |-> step, kind |-> kind, digest |-> digest, out |-> out]

HasRecord(L, phase, step) ==
    \E i \in DOMAIN L : L[i].phase = phase /\ L[i].step = step

TheRecord(L, phase, step) ==
    L[CHOOSE i \in DOMAIN L : L[i].phase = phase /\ L[i].step = step]

(* Mutant: the registry claim is forgotten. *)
AppendAlways(L, r) == Append(L, r)

(* append_workflow_step_if_absent / _receipt / _completion: one row per step and
   phase; the caller is answered with the row that is there. *)
AppendOnce(L, r) == IF HasRecord(L, r.phase, r.step) THEN L ELSE Append(L, r)
Canonical(L, r)  == TheRecord(AppendOnce(L, r), r.phase, r.step)

(* pair_steps: each row is accepted or the whole replay is refused. *)
RecordFits(L, i) ==
    LET r == L[i]
        Before(phase) == \E j \in 1..(i - 1) : L[j].phase = phase /\ L[j].step = r.step
        OfThatStep    == \E j \in 1..(i - 1) :
                            L[j] = Record("pending", r.step, r.kind, r.digest, None)
    IN  CASE r.phase = "pending"   -> ~Before("pending") /\ ~Before("completed")
          [] r.phase = "receipt"   -> OfThatStep /\ ~Before("receipt") /\ ~Before("completed")
          [] r.phase = "completed" -> OfThatStep /\ ~Before("completed")
Replayable(L) == \A i \in DOMAIN L : RecordFits(L, i)

OutOf(L, phase, step) ==
    IF HasRecord(L, phase, step) THEN TheRecord(L, phase, step).out ELSE None

(* The view of a context that is rehydrated now. *)
PairSteps(L) ==
    [s \in {L[i].step : i \in DOMAIN L} |->
        [kind |-> TheRecord(L, "pending", s).kind,
         digest |-> TheRecord(L, "pending", s).digest,
         receipt |-> OutOf(L, "receipt", s),
         completed |-> OutOf(L, "completed", s)]]

(* begin_step_raw: what the cached view says, else what the registry says. The
   outbox intent is on the ledger before the caller learns it may work. *)
Begun(res, L, view) == [res |-> res, ledger |-> L, view |-> view]
BeginStepRaw(L, view, cursor, kind, digest) ==
    LET intent  == Record("pending", cursor, kind, digest, None)
        entry   == [kind |-> kind, digest |-> digest, receipt |-> None, completed |-> None]
        seen    == [s \in DOMAIN view \cup {cursor} |->
                       IF s \in DOMAIN view THEN view[s] ELSE entry]
    IN  CASE cursor \in DOMAIN view ->
                IF view[cursor].kind # kind \/ view[cursor].digest # digest
                THEN Begun("diverged", L, view)
                ELSE Begun(IF view[cursor].completed = None
                           THEN "resuming" ELSE "replayed", L, view)
          [] cursor \notin DOMAIN view /\ cursor < Cardinality(DOMAIN view) ->
                Begun("diverged", L, view)
          [] cursor \notin DOMAIN view /\ cursor >= Cardinality(DOMAIN view) ->
                IF Canonical(L, intent) # intent THEN Begun("diverged", L, view)
                ELSE Begun(IF HasRecord(L, "pending", cursor) THEN "resuming" ELSE "fresh",
                           AppendOnce(L, intent), seen)

(* Mutant: the canonical row is not compared with the context's own value. *)
StoredBlind(L, view, phase, step, value) ==
    LET r == Record(phase, step, view[step].kind, view[step].digest, value)
    IN  [ok |-> TRUE, ledger |-> AppendOnce(L, r),
         view |-> IF phase = "receipt" THEN [view EXCEPT ![step].receipt = value]
                  ELSE [view EXCEPT ![step].completed = value]]

(* record_receipt and complete_step: the row is claimed once; a context whose own
   value is not the canonical one has diverged and does not adopt it. *)
Stored(L, view, phase, step, value) ==
    LET r  == Record(phase, step, view[step].kind, view[step].digest, value)
        ok == Canonical(L, r) = r
    IN  [ok |-> ok, ledger |-> AppendOnce(L, r),
         view |-> CASE ~ok -> view
                    [] ok /\ phase = "receipt"   -> [view EXCEPT ![step].receipt = value]
                    [] ok /\ phase = "completed" -> [view EXCEPT ![step].completed = value]]
===============================================================================
