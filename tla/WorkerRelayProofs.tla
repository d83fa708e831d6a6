-------------------------- MODULE WorkerRelayProofs --------------------------
(***************************************************************************)
(* The two consumers implement the durable consumer, for any number of     *)
(* reports, attempts and stops, and account for everything they pass.      *)
(*                                                                         *)
(* The list a pass works on goes stale while it is worked on.  It stays a  *)
(* prefix of what is still to be acknowledged (Prefix), so its earliest    *)
(* element is the earliest of all: that is what order rests on.  A marker  *)
(* is settled exactly when the watermark has passed its row, since both    *)
(* commit in one transaction.                                              *)
(***************************************************************************)
EXTENDS WorkerRelay, TLAPS

Busy == {"relaying", "accepted", "denied", "failed"}

(* Matching rows after a watermark, of which a pass has listed the first. *)
Rows(rows, events, acked) == {i \in DOMAIN rows : rows[i] \in events /\ i > acked}

Prefix(rows, todo, events, acked) ==
    /\ todo \subseteq Rows(rows, events, acked)
    /\ \A j \in Rows(rows, events, acked) \ todo : \A t \in todo : t < j

RelayInv ==
    /\ Prefix(bus, relay.todo, ResultEvent, resultAck)
    /\ relay.pc \in Busy => relay.at \in Earliest(relay.todo)
    /\ resultAck <= Len(bus)
    /\ \A i \in Seqs : relays[i].state \in Settled <=>
         i \in DOMAIN bus /\ bus[i] \in ResultEvent /\ i <= resultAck

RouterInv ==
    /\ Prefix(bus, router.todo, FailedEvent, failedAck)
    /\ router.pc = "routed" => router.at \in Earliest(router.todo) /\ router.at \in routed
    /\ failedAck <= Len(bus)
    /\ \A i \in routed : i \in DOMAIN bus /\ bus[i] \in FailedEvent
    /\ \A i \in DOMAIN bus : bus[i] \in FailedEvent /\ i <= failedAck => i \in routed

Accounts ==
    /\ relay.pc = "accepted" => relay.at \in sent
    /\ \A i \in Seqs : relays[i].state = "delivered" => i \in sent
    /\ \A i \in Seqs : relays[i].state = "dead_letter" <=> i \in deadLetters
    /\ \A i \in deadLetters : i \in DOMAIN bus /\ bus[i].surface = "chat"
    /\ \A i \in Seqs : notices[i] = IF i \in deadLetters THEN 1 ELSE 0
    /\ \A i \in routed : bus[i].quiet \/ i \in told

------------------------------------------------------------------------------
(* What an append leaves alone. *)
LEMMA AppendKeeps ==
    ASSUME NEW S, NEW s \in Seq(S), NEW e \in S
    PROVE  /\ Append(s, e) \in Seq(S)
           /\ Len(Append(s, e)) = Len(s) + 1
           /\ DOMAIN s = 1..Len(s)
           /\ DOMAIN Append(s, e) = 1..Len(s) + 1
           /\ \A i \in DOMAIN s : Append(s, e)[i] = s[i]
  OBVIOUS

(* A later row leaves a listed prefix a prefix. *)
LEMMA AppendKeepsPrefix ==
    ASSUME NEW S, NEW rows \in Seq(S), NEW e \in S,
           NEW todo, NEW events, NEW acked \in Nat, Prefix(rows, todo, events, acked)
    PROVE  Prefix(Append(rows, e), todo, events, acked)
<1>1. /\ DOMAIN rows = 1..Len(rows)
      /\ DOMAIN Append(rows, e) = 1..Len(rows) + 1
      /\ Len(rows) \in Nat
      /\ \A i \in DOMAIN rows : Append(rows, e)[i] = rows[i]
  BY AppendKeeps
<1>2. \A i \in Rows(Append(rows, e), events, acked) :
        i \in Rows(rows, events, acked) \/ i = Len(rows) + 1
  BY <1>1 DEF Rows
<1>3. Rows(rows, events, acked) \subseteq Rows(Append(rows, e), events, acked)
  BY <1>1 DEF Rows
<1>4. \A t \in todo : t \in 1..Len(rows)
  BY <1>1 DEF Prefix, Rows
<1> QED
  BY <1>1, <1>2, <1>3, <1>4 DEF Prefix

(* The earliest listed row is the one a delivery is for. *)
LEMMA EarliestIsFirst ==
    ASSUME NEW S, NEW rows \in Seq(S), NEW todo, NEW events, NEW acked \in Nat,
           Prefix(rows, todo, events, acked), NEW i \in Earliest(todo)
    PROVE  /\ i \in DOMAIN rows /\ rows[i] \in events /\ i > acked /\ i \in todo
           /\ \A j \in DOMAIN rows : rows[j] \in events /\ j > acked => i <= j
<1>1. i \in todo /\ \A j \in todo : i <= j
  BY DEF Earliest
<1>2. i \in Rows(rows, events, acked) /\ DOMAIN rows \subseteq Nat
  BY <1>1 DEF Prefix
<1>3. ASSUME NEW j \in DOMAIN rows, rows[j] \in events, j > acked
      PROVE  i <= j
  <2>1. j \in Rows(rows, events, acked)
    BY <1>3 DEF Rows
  <2>2. CASE j \in todo
    BY <1>1, <2>2
  <2>3. CASE j \notin todo
    <3>1. i < j
      BY <1>1, <2>1, <2>3 DEF Prefix
    <3>2. i \in Nat /\ j \in Nat
      BY <1>2 DEF Rows
    <3> QED
      BY <3>1, <3>2
  <2> QED
    BY <2>2, <2>3
<1> QED
  BY <1>1, <1>2, <1>3 DEF Rows

(* Acknowledging the earliest listed row leaves a prefix. *)
LEMMA AckKeepsPrefix ==
    ASSUME NEW S, NEW rows \in Seq(S), NEW todo, NEW events, NEW acked \in Nat,
           Prefix(rows, todo, events, acked), NEW i \in Earliest(todo)
    PROVE  Prefix(rows, todo \ {i}, events, i)
<1>1. /\ i \in todo
      /\ \A j \in todo : i <= j
      /\ DOMAIN rows \subseteq Nat
  BY DEF Earliest
<1>2. todo \ {i} \subseteq Rows(rows, events, i)
  BY <1>1 DEF Prefix, Rows
<1>3. \A j \in Rows(rows, events, i) : j \in Rows(rows, events, acked) /\ j # i
  BY <1>1 DEF Prefix, Rows
<1> QED
  BY <1>2, <1>3 DEF Prefix

------------------------------------------------------------------------------
Actions ==
    \/ \E e \in ResultEvent \cup FailedEvent : Emit(e)
    \/ BeginRelayPass \/ EndRelayPass \/ (\E i \in Seqs : ClaimRelay(i)) \/ RelayOne
    \/ CompleteRelay \/ SkipRelay \/ FailRelay \/ LeaveRetryable
    \/ BeginRouterPass \/ EndRouterPass \/ (\E i \in Seqs : RouteFailure(i))
    \/ AckFailure \/ (\E i \in Seqs : NoticeFails(i)) \/ Crash

LEMMA NextIsActions == Next => Actions
  BY DEF Next, Actions, RelayStep, RouterStep

Inv == TypeOK /\ RelayInv /\ RouterInv /\ Accounts

LEMMA TypeInit == Init => TypeOK
  BY RelayAssumption DEF Init, TypeOK, IdleRelay, IdleRouter, RelayStates, Seqs

LEMMA InvInit == Init => Inv
<1> SUFFICES ASSUME Init PROVE Inv
  OBVIOUS
<1>1. TypeOK
  BY TypeInit
<1>2. RelayInv /\ RouterInv
  BY RelayAssumption DEF Init, RelayInv, RouterInv, Prefix, Rows, IdleRelay, IdleRouter, Busy, Settled
<1>3. Accounts
  BY RelayAssumption DEF Init, Accounts, IdleRelay
<1> QED
  BY <1>1, <1>2, <1>3 DEF Inv

(* Where the rows of the ledger are, and what the relay is at. *)
LEMMA LedgerRows ==
    ASSUME TypeOK
    PROVE  /\ Len(bus) \in Nat /\ DOMAIN bus = 1..Len(bus)
           /\ DOMAIN bus \subseteq Seqs /\ Seqs \subseteq Nat /\ Seqs \subseteq 0..MaxEvents
           /\ \A i \in DOMAIN bus : bus[i] \in ResultEvent \cup FailedEvent
           /\ ResultEvent \cap FailedEvent = {}
<1>1. bus \in Seq(ResultEvent \cup FailedEvent) /\ Len(bus) <= MaxEvents
  BY DEF TypeOK
<1>2. Len(bus) \in Nat /\ DOMAIN bus = 1..Len(bus)
  BY <1>1
<1>3. \A i \in DOMAIN bus : bus[i] \in ResultEvent \cup FailedEvent
  BY <1>1
<1>4. ResultEvent \cap FailedEvent = {}
  BY DEF ResultEvent, FailedEvent
<1> QED
  BY <1>1, <1>2, <1>3, <1>4, RelayAssumption DEF Seqs

LEMMA RelayAt ==
    ASSUME TypeOK, RelayInv, relay.pc \in Busy
    PROVE  /\ relay.at \in Seqs /\ relay.at \in DOMAIN bus
           /\ bus[relay.at] \in ResultEvent /\ relay.at > resultAck
           /\ relay.at \in relay.todo /\ relay.at \in Nat /\ resultAck \in Nat
           /\ relays[relay.at].state \notin Settled
           /\ \A j \in DOMAIN bus : bus[j] \in ResultEvent /\ j > resultAck => relay.at <= j
<1>1. relay.at \in Earliest(relay.todo) /\ Prefix(bus, relay.todo, ResultEvent, resultAck)
  BY DEF RelayInv
<1>2. resultAck \in Nat
  BY RelayAssumption DEF TypeOK
<1>3. /\ relay.at \in DOMAIN bus /\ bus[relay.at] \in ResultEvent
      /\ relay.at > resultAck /\ relay.at \in relay.todo
      /\ \A j \in DOMAIN bus : bus[j] \in ResultEvent /\ j > resultAck => relay.at <= j
  BY <1>1, <1>2, EarliestIsFirst DEF TypeOK
<1>4. relay.at \in Seqs /\ relay.at \in Nat
  BY <1>3, LedgerRows
<1>5. ~(relay.at <= resultAck)
  BY <1>2, <1>3, <1>4
<1>6. relays[relay.at].state \notin Settled
  BY <1>4, <1>5 DEF RelayInv
<1> QED
  BY <1>2, <1>3, <1>4, <1>6

LEMMA EmitStep ==
    ASSUME Inv, NEW e \in ResultEvent \cup FailedEvent, Emit(e)
    PROVE  Inv'
<1> USE RelayAssumption
<1>1. TypeOK'
  BY DEF Inv, Emit, TypeOK, results, failures
<1>2. /\ Len(bus) \in Nat /\ DOMAIN bus = 1..Len(bus)
      /\ Len(bus') = Len(bus) + 1 /\ DOMAIN bus' = 1..Len(bus) + 1
      /\ \A i \in DOMAIN bus : bus'[i] = bus[i]
  BY AppendKeeps DEF Inv, TypeOK, Emit
<1>3. resultAck \in Nat /\ failedAck \in Nat
  BY DEF Inv, TypeOK
<1>4. /\ Prefix(bus, relay.todo, ResultEvent, resultAck)'
      /\ Prefix(bus, router.todo, FailedEvent, failedAck)'
  <2>1. UNCHANGED <<relay, router, resultAck, failedAck>> /\ bus' = Append(bus, e)
    BY DEF Emit, results, failures
  <2>2. Prefix(bus, relay.todo, ResultEvent, resultAck) /\ Prefix(bus, router.todo, FailedEvent, failedAck)
    BY DEF Inv, RelayInv, RouterInv
  <2>3. bus \in Seq(ResultEvent \cup FailedEvent)
    BY DEF Inv, TypeOK
  <2>4. Prefix(Append(bus, e), relay.todo, ResultEvent, resultAck)
    BY <1>3, <2>2, <2>3, AppendKeepsPrefix
  <2>5. Prefix(Append(bus, e), router.todo, FailedEvent, failedAck)
    BY <1>3, <2>2, <2>3, AppendKeepsPrefix
  <2> QED
    BY <2>1, <2>4, <2>5 DEF Prefix, Rows
<1>5. RelayInv'
  BY <1>2, <1>3, <1>4 DEF Inv, RelayInv, Emit, results, Busy, Earliest
<1>6. RouterInv'
  BY <1>2, <1>3, <1>4 DEF Inv, RouterInv, Emit, failures, Earliest
<1>7. Accounts'
  BY <1>2 DEF Inv, Accounts, RouterInv, Emit, results, failures
<1> QED
  BY <1>1, <1>5, <1>6, <1>7 DEF Inv

------------------------------------------------------------------------------
(* The two consumers disturb each other's state only by a stop. *)
LEMMA RouterFrame ==
    ASSUME RouterInv, UNCHANGED <<bus, failures, router>>
    PROVE  RouterInv'
  BY DEF RouterInv, Prefix, Rows, Earliest, failures

LEMMA RelayFrame ==
    ASSUME RelayInv, UNCHANGED <<bus, relays, resultAck, relay>>
    PROVE  RelayInv'
  BY DEF RelayInv, Prefix, Rows, Earliest, Busy, Settled

LEMMA RouterReset ==
    ASSUME RouterInv, UNCHANGED <<bus, failedAck, routed>>, router' = IdleRouter
    PROVE  RouterInv'
  BY DEF RouterInv, Prefix, Rows, Earliest, IdleRouter

LEMMA RelayReset ==
    ASSUME RelayInv, UNCHANGED <<bus, relays, resultAck>>, relay' = IdleRelay
    PROVE  RelayInv'
  BY DEF RelayInv, Prefix, Rows, Earliest, Busy, Settled, IdleRelay

RelayRecords ==
    [pc : {"idle", "pass", "relaying", "accepted", "denied", "failed"},
     todo : SUBSET Seqs, at : 0..MaxEvents, attempt : 0..MaxCounted]

LEMMA BeginRelayStep ==
    ASSUME Inv, BeginRelayPass
    PROVE  Inv'
<1> USE RelayAssumption
<1>1. TypeOK'
  <2>1. Replay(ResultEvent, resultAck) \subseteq Seqs
    BY LedgerRows DEF Inv, Replay
  <2>2. relay' \in RelayRecords
    <3>1. PICK t \in SUBSET Seqs : relay' = [IdleRelay EXCEPT !.pc = "pass", !.todo = t]
      BY <2>1 DEF BeginRelayPass
    <3>2. relay' = [pc |-> "pass", todo |-> t, at |-> 0, attempt |-> 0]
      BY <3>1 DEF IdleRelay
    <3> QED
      BY <3>2 DEF RelayRecords
  <2> QED
    BY <2>2 DEF Inv, BeginRelayPass, TypeOK, results, failures, RelayRecords
<1>2. RelayInv'
  BY LedgerRows DEF Inv, RelayInv, BeginRelayPass, results, IdleRelay, Replay, Prefix, Rows,
                    Busy, Settled
<1>3. RouterInv'
  BY RouterFrame DEF Inv, BeginRelayPass
<1>4. Accounts'
  BY DEF Inv, Accounts, BeginRelayPass, results, failures, IdleRelay
<1> QED
  BY <1>1, <1>2, <1>3, <1>4 DEF Inv

LEMMA IdleRelayStep ==
    ASSUME Inv, EndRelayPass \/ LeaveRetryable
    PROVE  Inv'
<1> USE RelayAssumption
<1>0. relay' = IdleRelay /\ UNCHANGED <<bus, results, failures, router, stops>>
  BY DEF EndRelayPass, LeaveRetryable
<1>1. TypeOK'
  BY <1>0 DEF Inv, TypeOK, results, failures, IdleRelay
<1>2. RelayInv'
  BY <1>0, RelayReset DEF Inv, results
<1>3. RouterInv'
  BY <1>0, RouterFrame DEF Inv
<1>4. Accounts'
  BY <1>0 DEF Inv, Accounts, results, failures, IdleRelay
<1> QED
  BY <1>1, <1>2, <1>3, <1>4 DEF Inv

(* A row of the pass is unsettled, so the marker a claim resets held nothing. *)
LEMMA ClaimStep ==
    ASSUME Inv, NEW i \in Seqs, ClaimRelay(i)
    PROVE  Inv'
<1> USE RelayAssumption
<1>1. /\ Prefix(bus, relay.todo, ResultEvent, resultAck) /\ resultAck \in Nat
      /\ i \in Earliest(relay.todo) /\ bus \in Seq(ResultEvent \cup FailedEvent)
  BY DEF Inv, RelayInv, TypeOK, ClaimRelay
<1>2. i > resultAck
  BY <1>1, EarliestIsFirst
<1>3. Claimable(i) /\ i \in Nat
  BY <1>1, <1>2 DEF Inv, RelayInv, Claimable, Seqs
<1>4. NextAttempt(i) \in 0..MaxCounted
  BY DEF NextAttempt, Inv, TypeOK
<1>5. /\ relays' = [relays EXCEPT ![i] = [state |-> "attempting", attempts |-> NextAttempt(i)]]
      /\ relay' = [relay EXCEPT !.pc = "relaying", !.at = i, !.attempt = NextAttempt(i)]
      /\ UNCHANGED <<bus, resultAck, deadLetters, notices, sent, failures, router, stops>>
  BY <1>3 DEF ClaimRelay
<1>6. TypeOK'
  <2>1. relays' \in [Seqs -> [state : RelayStates, attempts : 0..MaxCounted]]
    BY <1>4, <1>5 DEF Inv, TypeOK, RelayStates
  <2>2. relay' \in RelayRecords
    BY <1>4, <1>5, LedgerRows DEF Inv, TypeOK, RelayRecords
  <2> QED
    BY <1>5, <2>1, <2>2 DEF Inv, TypeOK, RelayRecords, failures
<1>7. relay'.pc = "relaying" /\ relay'.at = i /\ relay'.todo = relay.todo
  BY <1>5 DEF Inv, TypeOK
<1>8. /\ \A k \in Seqs : k # i => relays'[k] = relays[k]
      /\ relays'[i].state = "attempting" /\ relays[i].state \notin Settled
  BY <1>3, <1>5 DEF Inv, TypeOK, Claimable
<1>9. RelayInv'
  <2>1. Prefix(bus, relay.todo, ResultEvent, resultAck)' /\ (resultAck <= Len(bus))'
    BY <1>5, <1>7 DEF Inv, RelayInv, Prefix, Rows
  <2>2. (relay.pc \in Busy => relay.at \in Earliest(relay.todo))'
    BY <1>1, <1>7 DEF Earliest
  <2>3. \A k \in Seqs : relays'[k].state \in Settled <=> relays[k].state \in Settled
    BY <1>8 DEF Settled
  <2> QED
    BY <1>5, <2>1, <2>2, <2>3 DEF Inv, RelayInv
<1>10. RouterInv'
  BY <1>5, RouterFrame DEF Inv
<1>11. Accounts'
  BY <1>5, <1>7, <1>8 DEF Inv, Accounts, Settled, failures
<1> QED
  BY <1>6, <1>9, <1>10, <1>11 DEF Inv

LEMMA RelayOneStep ==
    ASSUME Inv, RelayOne
    PROVE  Inv'
<1> USE RelayAssumption
<1>1. relay.at \in Seqs /\ relay.pc = "relaying"
  BY RelayAt DEF Inv, RelayOne, Busy
<1>2. PICK pc \in {"accepted", "denied", "failed"} :
        /\ relay' = [relay EXCEPT !.pc = pc]
        /\ sent' \in {sent, sent \cup {relay.at}}
        /\ pc = "accepted" => relay.at \in sent'
  BY DEF RelayOne
<1>3. relay'.pc = pc /\ relay'.at = relay.at /\ relay'.todo = relay.todo /\ relay' \in RelayRecords
  BY <1>2 DEF Inv, TypeOK, RelayRecords
<1>4. UNCHANGED <<bus, relays, resultAck, deadLetters, notices, failures, router, stops>>
  BY DEF RelayOne
<1>5. TypeOK'
  BY <1>1, <1>2, <1>3, <1>4 DEF Inv, TypeOK, RelayRecords, failures
<1>6. RelayInv'
  BY <1>1, <1>3, <1>4 DEF Inv, RelayInv, Prefix, Rows, Busy, Earliest
<1>7. RouterInv'
  BY <1>4, RouterFrame DEF Inv
<1>8. Accounts'
  BY <1>2, <1>3, <1>4 DEF Inv, Accounts, failures
<1> QED
  BY <1>5, <1>6, <1>7, <1>8 DEF Inv

(* The marker and the watermark move together, over the first unpassed row. *)
LEMMA FinishKeepsRelayInv ==
    ASSUME Inv, relay.pc \in Busy, NEW state \in Settled, Finish(state), UNCHANGED bus
    PROVE  /\ RelayInv'
           /\ relay'.pc = "pass" /\ relay' \in RelayRecords
           /\ resultAck' \in 0..MaxEvents
           /\ relays' \in [Seqs -> [state : RelayStates, attempts : 0..MaxCounted]]
           /\ relays'[relay.at].state = state
           /\ \A k \in Seqs : k # relay.at => relays'[k] = relays[k]
<1> USE RelayAssumption
<1>1. /\ relay.at \in Seqs /\ relay.at \in DOMAIN bus
      /\ bus[relay.at] \in ResultEvent /\ relay.at > resultAck
      /\ relay.at \in relay.todo /\ relay.at \in Nat /\ resultAck \in Nat
      /\ relays[relay.at].state \notin Settled
      /\ \A j \in DOMAIN bus : bus[j] \in ResultEvent /\ j > resultAck => relay.at <= j
  BY RelayAt DEF Inv
<1>2. /\ relay'.pc = "pass" /\ relay'.todo = relay.todo \ {relay.at}
      /\ relay' \in RelayRecords
  BY DEF Finish, Inv, TypeOK, RelayRecords
<1>3. resultAck' = relay.at /\ relay.at \in 0..MaxEvents
  BY DEF Finish, Inv, TypeOK
<1>4. /\ relays' \in [Seqs -> [state : RelayStates, attempts : 0..MaxCounted]]
      /\ relays'[relay.at].state = state
      /\ \A k \in Seqs : k # relay.at => relays'[k] = relays[k]
  BY <1>1, SMTT(40) DEF Finish, Inv, TypeOK, RelayStates, Settled
<1>5. Prefix(bus, relay.todo, ResultEvent, resultAck)'
  <2>1. /\ Prefix(bus, relay.todo, ResultEvent, resultAck)
        /\ relay.at \in Earliest(relay.todo) /\ bus \in Seq(ResultEvent \cup FailedEvent)
    BY DEF Inv, RelayInv, TypeOK
  <2>2. Prefix(bus, relay.todo \ {relay.at}, ResultEvent, relay.at)
    BY <1>1, <2>1, AckKeepsPrefix
  <2> QED
    BY <1>2, <1>3, <2>2 DEF Prefix, Rows
<1>6. (resultAck <= Len(bus))'
  BY <1>1, <1>3, LedgerRows DEF Inv
<1>7. ASSUME NEW k \in Seqs
      PROVE  (relays[k].state \in Settled <=>
                k \in DOMAIN bus /\ bus[k] \in ResultEvent /\ k <= resultAck)'
  <2>1. CASE k = relay.at
    BY <1>1, <1>3, <1>4, <2>1 DEF Settled
  <2>2. CASE k # relay.at
    <3>1. relays'[k] = relays[k] /\ k \in Nat
      BY <1>4, <2>2 DEF Seqs
    <3>2. relays[k].state \in Settled <=>
            k \in DOMAIN bus /\ bus[k] \in ResultEvent /\ k <= resultAck
      BY DEF Inv, RelayInv
    <3>3. k \in DOMAIN bus /\ bus[k] \in ResultEvent => (k <= resultAck <=> k <= relay.at)
      BY <1>1, <2>2, <3>1
    <3> QED
      BY <1>3, <3>1, <3>2, <3>3
  <2> QED
    BY <2>1, <2>2
<1>8. (relay.pc \in Busy => relay.at \in Earliest(relay.todo))'
  BY <1>2 DEF Busy
<1> QED
  BY <1>2, <1>3, <1>4, <1>5, <1>6, <1>7, <1>8 DEF RelayInv

(* A settled row is accounted for by the state its marker ends in. *)
LEMMA FinishKeepsInv ==
    ASSUME Inv, UNCHANGED <<bus, sent, failures, router, stops>>,
           \/ /\ CompleteRelay \/ SkipRelay
           \/ /\ relay.pc = "failed" /\ Addressable /\ DeadLetter
    PROVE  Inv'
<1> USE RelayAssumption
<1>0. PICK state \in Settled :
        /\ Finish(state)
        /\ state = "delivered" => relay.pc = "accepted"
        /\ state = "dead_letter" =>
             /\ Addressable
             /\ deadLetters' = deadLetters \cup {relay.at}
             /\ notices' = [notices EXCEPT ![relay.at] = @ + 1]
        /\ state # "dead_letter" => UNCHANGED <<deadLetters, notices>>
  BY DEF CompleteRelay, SkipRelay, DeadLetter, Settled
<1>1. relay.pc \in Busy
  BY DEF CompleteRelay, SkipRelay, Busy
<1>2. /\ relay.at \in Seqs /\ relay.at \in DOMAIN bus
      /\ relays[relay.at].state \notin Settled
  BY <1>1, RelayAt DEF Inv
<1>3. /\ RelayInv'
      /\ relay'.pc = "pass" /\ relay' \in RelayRecords
      /\ resultAck' \in 0..MaxEvents
      /\ relays' \in [Seqs -> [state : RelayStates, attempts : 0..MaxCounted]]
      /\ relays'[relay.at].state = state
      /\ \A k \in Seqs : k # relay.at => relays'[k] = relays[k]
  BY <1>0, <1>1, FinishKeepsRelayInv
<1>4. /\ deadLetters' \subseteq Seqs /\ notices' \in [Seqs -> Nat]
      /\ \A k \in Seqs : k # relay.at =>
           /\ notices'[k] = notices[k]
           /\ k \in deadLetters' <=> k \in deadLetters
      /\ relay.at \in deadLetters' <=> state = "dead_letter"
      /\ notices'[relay.at] = IF state = "dead_letter" THEN 1 ELSE 0
  <2>1. relay.at \notin deadLetters /\ notices[relay.at] = 0
    BY <1>2 DEF Inv, Accounts, Settled
  <2>2. deadLetters \subseteq Seqs /\ notices \in [Seqs -> Nat]
    BY DEF Inv, TypeOK
  <2>3. CASE state = "dead_letter"
    BY <1>0, <1>2, <2>1, <2>2, <2>3
  <2>4. CASE state # "dead_letter"
    BY <1>0, <1>2, <2>1, <2>2, <2>4
  <2> QED
    BY <2>3, <2>4
<1>5. TypeOK'
  BY <1>3, <1>4 DEF Inv, TypeOK, RelayRecords, failures
<1>6. RouterInv'
  BY RouterFrame DEF Inv
<1>7. Accounts'
  <2>1. \A i \in Seqs : relays'[i].state = "delivered" => i \in sent'
    BY <1>0, <1>3 DEF Inv, Accounts
  <2>2. \A i \in Seqs : relays'[i].state = "dead_letter" <=> i \in deadLetters'
    BY <1>3, <1>4 DEF Inv, Accounts
  <2>3. \A i \in deadLetters' : i \in DOMAIN bus' /\ bus'[i].surface = "chat"
    BY <1>0, <1>2, <1>4 DEF Inv, Accounts, Addressable
  <2>4. \A i \in Seqs : notices'[i] = IF i \in deadLetters' THEN 1 ELSE 0
    BY <1>4 DEF Inv, Accounts
  <2>5. \A i \in routed' : bus'[i].quiet \/ i \in told'
    BY DEF Inv, Accounts, failures
  <2> QED
    BY <1>3, <2>1, <2>2, <2>3, <2>4, <2>5 DEF Accounts
<1> QED
  BY <1>3, <1>5, <1>6, <1>7 DEF Inv

LEMMA RetryStep ==
    ASSUME Inv, relay.pc = "failed", RetryLater, UNCHANGED <<bus, sent, failures, router, stops>>
    PROVE  Inv'
<1> USE RelayAssumption
<1>1. relay.at \in Seqs /\ relays[relay.at].state \notin Settled
  BY RelayAt DEF Inv, Busy
<1>2. /\ relays' \in [Seqs -> [state : RelayStates, attempts : 0..MaxCounted]]
      /\ relays'[relay.at].state = "pending"
      /\ \A k \in Seqs : k # relay.at => relays'[k] = relays[k]
  BY <1>1 DEF RetryLater, Inv, TypeOK, RelayStates
<1>3. relay' = IdleRelay /\ UNCHANGED <<resultAck, deadLetters, notices>>
  BY DEF RetryLater
<1>4. \A k \in Seqs : relays'[k].state \in Settled <=> relays[k].state \in Settled
  BY <1>1, <1>2 DEF Settled
<1>5. TypeOK'
  BY <1>2, <1>3, SMTT(40) DEF Inv, TypeOK, IdleRelay, failures
<1>6. RelayInv'
  BY <1>3, <1>4 DEF Inv, RelayInv, Prefix, Rows, Busy, IdleRelay
<1>7. RouterInv'
  BY RouterFrame DEF Inv
<1>8. Accounts'
  BY <1>1, <1>2, <1>3 DEF Inv, Accounts, IdleRelay, Settled, failures
<1> QED
  BY <1>5, <1>6, <1>7, <1>8 DEF Inv

LEMMA FailStep ==
    ASSUME Inv, FailRelay
    PROVE  Inv'
<1>1. CASE relay.attempt < MaxAttempts
  BY <1>1, RetryStep DEF FailRelay
<1>2. CASE ~(relay.attempt < MaxAttempts)
  BY <1>2, FinishKeepsInv DEF FailRelay
<1> QED
  BY <1>1, <1>2

------------------------------------------------------------------------------
RouterRecords == [pc : {"idle", "pass", "routed"}, todo : SUBSET Seqs, at : 0..MaxEvents]

LEMMA RouterPassStep ==
    ASSUME Inv, BeginRouterPass \/ EndRouterPass
    PROVE  Inv'
<1> USE RelayAssumption
<1>0. UNCHANGED <<bus, results, relay, failures, stops>>
  BY DEF BeginRouterPass, EndRouterPass
<1>1. TypeOK'
  <2>1. Replay(FailedEvent, failedAck) \subseteq Seqs
    BY LedgerRows DEF Inv, Replay
  <2>2. router' \in RouterRecords
    <3>1. CASE BeginRouterPass
      <4>1. PICK t \in SUBSET Seqs : router' = [IdleRouter EXCEPT !.pc = "pass", !.todo = t]
        BY <2>1, <3>1 DEF BeginRouterPass
      <4>2. router' = [pc |-> "pass", todo |-> t, at |-> 0]
        BY <4>1 DEF IdleRouter
      <4> QED
        BY <4>2 DEF RouterRecords
    <3>2. CASE EndRouterPass
      BY <3>2 DEF EndRouterPass, IdleRouter, RouterRecords
    <3> QED
      BY <3>1, <3>2
  <2> QED
    BY <1>0, <2>2 DEF Inv, TypeOK, results, failures, RouterRecords
<1>2. RelayInv'
  BY <1>0, RelayFrame DEF Inv, results
<1>3. RouterInv'
  <2>1. CASE BeginRouterPass
    BY <1>0, <2>1, LedgerRows DEF Inv, RouterInv, BeginRouterPass, failures, IdleRouter, Replay,
                                  Prefix, Rows
  <2>2. CASE EndRouterPass
    BY <1>0, <2>2, RouterReset DEF Inv, EndRouterPass, failures
  <2> QED
    BY <2>1, <2>2
<1>4. Accounts'
  BY <1>0 DEF Inv, Accounts, results, failures
<1> QED
  BY <1>1, <1>2, <1>3, <1>4 DEF Inv

LEMMA RouteStep ==
    ASSUME Inv, NEW i \in Seqs, RouteFailure(i)
    PROVE  Inv'
<1> USE RelayAssumption
<1>1. /\ Prefix(bus, router.todo, FailedEvent, failedAck) /\ failedAck \in Nat
      /\ i \in Earliest(router.todo) /\ bus \in Seq(ResultEvent \cup FailedEvent)
  BY DEF Inv, RouterInv, TypeOK, RouteFailure
<1>2. i \in DOMAIN bus /\ bus[i] \in FailedEvent
  BY <1>1, EarliestIsFirst
<1>3. router'.pc = "routed" /\ router'.at = i /\ router'.todo = router.todo /\ router' \in RouterRecords
  <2>1. i \in 0..MaxEvents /\ router \in RouterRecords
    BY DEF Inv, TypeOK, RouterRecords, Seqs
  <2> QED
    BY <2>1 DEF RouteFailure, RouterRecords
<1>4. /\ routed' = routed \cup {i} /\ UNCHANGED <<bus, results, relay, failedAck, stops>>
      /\ told' \subseteq Seqs /\ told \subseteq told'
      /\ bus[i].quiet \/ i \in told'
  BY DEF Inv, TypeOK, RouteFailure
<1>5. TypeOK'
  <2>1. routed' \subseteq Seqs
    BY <1>4 DEF Inv, TypeOK
  <2> QED
    BY <1>3, <1>4, <2>1 DEF Inv, TypeOK, results, RouterRecords
<1>6. RelayInv'
  BY <1>4, RelayFrame DEF Inv, results
<1>7. RouterInv'
  <2>1. Prefix(bus, router.todo, FailedEvent, failedAck)'
    BY <1>1, <1>3, <1>4 DEF Prefix, Rows
  <2>2. (router.pc = "routed" => router.at \in Earliest(router.todo) /\ router.at \in routed)'
    BY <1>1, <1>3, <1>4 DEF Earliest
  <2>3. (\A k \in routed : k \in DOMAIN bus /\ bus[k] \in FailedEvent)'
    BY <1>2, <1>4 DEF Inv, RouterInv
  <2>4. (\A k \in DOMAIN bus : bus[k] \in FailedEvent /\ k <= failedAck => k \in routed)'
    BY <1>4 DEF Inv, RouterInv
  <2> QED
    BY <1>4, <2>1, <2>2, <2>3, <2>4 DEF Inv, RouterInv
<1>8. Accounts'
  BY <1>4 DEF Inv, Accounts, results
<1> QED
  BY <1>5, <1>6, <1>7, <1>8 DEF Inv

LEMMA RouterAt ==
    ASSUME Inv, router.pc = "routed"
    PROVE  /\ router.at \in Seqs /\ router.at \in DOMAIN bus /\ router.at \in routed
           /\ bus[router.at] \in FailedEvent /\ router.at > failedAck
           /\ router.at \in Nat /\ failedAck \in Nat
           /\ \A j \in DOMAIN bus : bus[j] \in FailedEvent /\ j > failedAck => router.at <= j
           /\ Prefix(bus, router.todo \ {router.at}, FailedEvent, router.at)
<1>1. /\ Prefix(bus, router.todo, FailedEvent, failedAck) /\ failedAck \in Nat
      /\ router.at \in Earliest(router.todo) /\ bus \in Seq(ResultEvent \cup FailedEvent)
      /\ router.at \in routed
  BY RelayAssumption DEF Inv, RouterInv, TypeOK
<1>2. /\ router.at \in DOMAIN bus /\ bus[router.at] \in FailedEvent /\ router.at > failedAck
      /\ \A j \in DOMAIN bus : bus[j] \in FailedEvent /\ j > failedAck => router.at <= j
  BY <1>1, EarliestIsFirst
<1>3. Prefix(bus, router.todo \ {router.at}, FailedEvent, router.at)
  BY <1>1, AckKeepsPrefix
<1>4. router.at \in Seqs /\ router.at \in Nat
  BY <1>2, LedgerRows DEF Inv
<1> QED
  BY <1>1, <1>2, <1>3, <1>4

LEMMA AckStep ==
    ASSUME Inv, AckFailure
    PROVE  Inv'
<1> USE RelayAssumption
<1>1. /\ router.at \in Seqs /\ router.at \in DOMAIN bus /\ router.at \in routed
      /\ bus[router.at] \in FailedEvent /\ router.at > failedAck
      /\ router.at \in Nat /\ failedAck \in Nat
      /\ \A j \in DOMAIN bus : bus[j] \in FailedEvent /\ j > failedAck => router.at <= j
      /\ Prefix(bus, router.todo \ {router.at}, FailedEvent, router.at)
  BY RouterAt DEF AckFailure
<1>2. /\ failedAck' = router.at /\ UNCHANGED <<bus, results, relay, routed, told, stops>>
      /\ router'.pc = "pass" /\ router'.todo = router.todo \ {router.at}
      /\ router' \in RouterRecords
  BY DEF AckFailure, Inv, TypeOK, RouterRecords
<1>3. TypeOK'
  BY <1>1, <1>2, LedgerRows DEF Inv, TypeOK, results, RouterRecords
<1>4. RelayInv'
  BY <1>2, RelayFrame DEF Inv, results
<1>5. RouterInv'
  <2>1. Prefix(bus, router.todo, FailedEvent, failedAck)'
    BY <1>1, <1>2 DEF Prefix, Rows
  <2>2. (failedAck <= Len(bus))'
    BY <1>1, <1>2, LedgerRows DEF Inv
  <2>3. ASSUME NEW k \in DOMAIN bus, bus[k] \in FailedEvent, k <= router.at
        PROVE  k \in routed
    <3>1. k \in Nat /\ (k > failedAck => k = router.at)
      BY <1>1, <2>3, LedgerRows DEF Inv
    <3> QED
      BY <1>1, <2>3, <3>1 DEF Inv, RouterInv
  <2> QED
    BY <1>2, <2>1, <2>2, <2>3 DEF Inv, RouterInv
<1>6. Accounts'
  BY <1>2 DEF Inv, Accounts, results
<1> QED
  BY <1>3, <1>4, <1>5, <1>6 DEF Inv

(* A stop forgets both passes and nothing that is stored. *)
LEMMA StopStep ==
    ASSUME Inv, Crash \/ \E i \in Seqs : NoticeFails(i)
    PROVE  Inv'
<1> USE RelayAssumption
<1>1. /\ relay' = IdleRelay /\ router' = IdleRouter
      /\ UNCHANGED <<bus, results, failedAck, routed>>
      /\ told \subseteq told' /\ told' \subseteq Seqs /\ stops' \in 0..MaxStops
  BY DEF Crash, NoticeFails, Inv, TypeOK, failures
<1>2. TypeOK'
  BY <1>1 DEF Inv, TypeOK, results, IdleRelay, IdleRouter
<1>3. RelayInv'
  BY <1>1, RelayReset DEF Inv, results
<1>4. RouterInv'
  BY <1>1, RouterReset DEF Inv
<1>5. Accounts'
  BY <1>1 DEF Inv, Accounts, results, IdleRelay
<1> QED
  BY <1>2, <1>3, <1>4, <1>5 DEF Inv

LEMMA InvStep == Inv /\ [Next]_vars => Inv'
<1> SUFFICES ASSUME Inv, [Next]_vars PROVE Inv'
  OBVIOUS
<1>1. CASE Actions
  BY <1>1, EmitStep, BeginRelayStep, IdleRelayStep, ClaimStep, RelayOneStep, FinishKeepsInv,
     FailStep, RouterPassStep, RouteStep, AckStep, StopStep
     DEF Actions, CompleteRelay, SkipRelay
<1>2. CASE UNCHANGED vars
  <2>1. TypeOK'
    BY <1>2 DEF Inv, TypeOK, vars
  <2>2. RelayInv' /\ RouterInv'
    BY <1>2, RelayFrame, RouterFrame DEF Inv, vars, failures
  <2>3. Accounts'
    BY <1>2 DEF Inv, Accounts, vars
  <2> QED
    BY <2>1, <2>2, <2>3 DEF Inv
<1> QED
  BY <1>1, <1>2, NextIsActions

LEMMA InvHolds == Spec => []Inv
<1>1. Init => Inv
  BY InvInit
<1>2. Inv /\ [Next]_vars => Inv'
  BY InvStep
<1> QED
  BY <1>1, <1>2, PTL DEF Spec

------------------------------------------------------------------------------
(* Every reachable state is well typed: markers, dead letters, watermarks  *)
(* and both tasks stay within their types, whatever is retried or stopped. *)
THEOREM RelayTyped == Spec => []TypeOK
<1>1. Inv => TypeOK
  BY DEF Inv
<1> QED
  BY <1>1, InvHolds, PTL

(* What either consumer has passed is accounted for: a result delivered,   *)
(* refused or dead-lettered with one notice, a failure told or quiet.      *)
THEOREM RelayAccounts == Spec => []PassedIsAccountedFor
<1>1. ASSUME Inv PROVE PassedIsAccountedFor
  <2>1. ASSUME NEW i \in DOMAIN bus, bus[i] \in ResultEvent, i <= resultAck
        PROVE  \/ relays[i].state = "delivered" /\ i \in sent
               \/ relays[i].state = "skipped"
               \/ /\ relays[i].state = "dead_letter" /\ i \in deadLetters
                  /\ notices[i] = 1 /\ bus[i].surface = "chat"
    <3>1. i \in Seqs
      BY <1>1, LedgerRows DEF Inv
    <3>2. relays[i].state \in Settled
      BY <1>1, <2>1, <3>1 DEF Inv, RelayInv
    <3> QED
      BY <1>1, <3>1, <3>2 DEF Inv, Accounts, Settled
  <2>2. ASSUME NEW i \in DOMAIN bus, bus[i] \in FailedEvent, i <= failedAck
        PROVE  bus[i].quiet \/ i \in told
    BY <1>1, <2>2 DEF Inv, RouterInv, Accounts
  <2> QED
    BY <2>1, <2>2 DEF PassedIsAccountedFor
<1> QED
  BY <1>1, InvHolds, PTL

(* A dead letter has one notice and is never claimed again. *)
THEOREM RelayDeadLetters == Spec => []DeadLetterIsFinal
<1>1. ASSUME Inv PROVE DeadLetterIsFinal
  <2>1. ASSUME relay.pc \in Busy PROVE relay.at \notin deadLetters
    BY <1>1, <2>1, RelayAt DEF Inv, Accounts, Settled
  <2> QED
    BY <1>1, <2>1 DEF Inv, Accounts, DeadLetterIsFinal, Busy
<1> QED
  BY <1>1, InvHolds, PTL

------------------------------------------------------------------------------
SettledRows == {i \in Seqs : relays[i].state \in Settled}

LEMMA ResultsInit == Init => Results!BusInit
<1> SUFFICES ASSUME Init PROVE Results!BusInit
  OBVIOUS
<1>1. \A i \in Seqs : relays[i].state = "none"
  BY DEF Init
<1>2. SettledRows = {}
  BY <1>1 DEF SettledRows, Settled
<1> QED
  BY <1>2 DEF Init, Results!BusInit, SettledRows

LEMMA ResultsFinish ==
    ASSUME Inv, relay.pc \in Busy, NEW state \in Settled, Finish(state), UNCHANGED bus
    PROVE  Results!BusNext
<1>1. /\ relay.at \in Seqs /\ relay.at \in DOMAIN bus
      /\ bus[relay.at] \in ResultEvent /\ relay.at > resultAck
      /\ \A j \in DOMAIN bus : bus[j] \in ResultEvent /\ j > resultAck => relay.at <= j
  BY RelayAt DEF Inv
<1>2. /\ relays'[relay.at].state = state
      /\ \A k \in Seqs : k # relay.at => relays'[k] = relays[k]
  BY FinishKeepsRelayInv
<1>3. SettledRows' = SettledRows \cup {relay.at}
  BY <1>1, <1>2 DEF SettledRows
<1>4. resultAck' = relay.at
  BY DEF Finish
<1>5. Results!FirstAfter(relay.at) /\ relay.at \in Results!Matching
  BY <1>1 DEF Results!FirstAfter, Results!Matching
<1>6. Results!Deliver
  BY <1>3, <1>4, <1>5 DEF Results!Deliver, SettledRows
<1> QED
  BY <1>6 DEF Results!BusNext

LEMMA ResultsStep == Inv /\ [Next]_vars => [Results!BusNext]_(Results!busVars)
<1> SUFFICES ASSUME Inv, [Next]_vars, ~ UNCHANGED Results!busVars
             PROVE  Results!BusNext
  OBVIOUS
<1>1. SettledRows = {i \in Seqs : relays[i].state \in Settled}
  BY DEF SettledRows
<1>2. UNCHANGED <<bus, relays, resultAck>> => UNCHANGED Results!busVars
  BY DEF Results!busVars
<1>3. ASSUME NEW e \in ResultEvent \cup FailedEvent, Emit(e) PROVE Results!BusNext
  BY <1>3 DEF Emit, results, Results!BusNext, Results!AppendAudit
<1>4. ASSUME NEW i \in Seqs, ClaimRelay(i) PROVE FALSE
  <2>1. /\ Prefix(bus, relay.todo, ResultEvent, resultAck) /\ resultAck \in Nat
        /\ i \in Earliest(relay.todo) /\ bus \in Seq(ResultEvent \cup FailedEvent)
    BY <1>4, RelayAssumption DEF Inv, RelayInv, TypeOK, ClaimRelay
  <2>2. i > resultAck /\ i \in Nat
    BY <2>1, EarliestIsFirst DEF Seqs
  <2>3. relays[i].state \notin Settled
    BY <2>1, <2>2 DEF Inv, RelayInv
  <2>4. \A k \in Seqs : relays'[k].state \in Settled <=> relays[k].state \in Settled
    <3>1. PICK n : relays' = [relays EXCEPT ![i] = [state |-> "attempting", attempts |-> n]]
      BY <1>4, <2>3 DEF ClaimRelay, Claimable
    <3>2. relays \in [Seqs -> [state : RelayStates, attempts : 0..MaxCounted]]
      BY DEF Inv, TypeOK
    <3> QED
      BY <2>3, <3>1, <3>2 DEF Settled
  <2>5. UNCHANGED <<bus, resultAck, SettledRows>>
    BY <1>4, <2>4 DEF ClaimRelay, SettledRows
  <2> QED
    BY <2>5 DEF SettledRows, Results!busVars
<1>5. ASSUME CompleteRelay \/ SkipRelay PROVE Results!BusNext
  BY <1>5, ResultsFinish DEF CompleteRelay, SkipRelay, Busy, Settled
<1>6. ASSUME FailRelay PROVE Results!BusNext
  <2>1. CASE relay.attempt < MaxAttempts
    <3>1. relay.at \in Seqs /\ relays[relay.at].state \notin Settled
      BY <1>6, RelayAt DEF Inv, Busy, FailRelay
    <3>2. \A k \in Seqs : relays'[k].state \in Settled <=> relays[k].state \in Settled
      BY <1>6, <2>1, <3>1 DEF FailRelay, RetryLater, Inv, TypeOK, Settled
    <3>3. UNCHANGED <<bus, resultAck, SettledRows>>
      BY <1>6, <2>1, <3>2 DEF FailRelay, RetryLater, SettledRows
    <3> QED
      BY <3>3 DEF SettledRows, Results!busVars
  <2>2. CASE ~(relay.attempt < MaxAttempts)
    BY <1>6, <2>2, ResultsFinish DEF FailRelay, DeadLetter, Busy, Settled
  <2> QED
    BY <2>1, <2>2
<1>7. ASSUME \/ BeginRelayPass \/ EndRelayPass \/ RelayOne \/ LeaveRetryable
             \/ BeginRouterPass \/ EndRouterPass \/ AckFailure \/ Crash
             \/ \E i \in Seqs : RouteFailure(i) \/ NoticeFails(i)
      PROVE  UNCHANGED <<bus, relays, resultAck>>
  BY <1>7 DEF BeginRelayPass, EndRelayPass, RelayOne, LeaveRetryable, BeginRouterPass,
              EndRouterPass, AckFailure, Crash, RouteFailure, NoticeFails, results
<1>8. CASE UNCHANGED vars
  BY <1>2, <1>8 DEF vars
<1>9. CASE Actions
  BY <1>2, <1>3, <1>4, <1>5, <1>6, <1>7, <1>9 DEF Actions
<1> QED
  BY <1>8, <1>9, NextIsActions

(* The result consumer is a durable consumer of results: it acknowledges   *)
(* in ledger order and only what is settled, for any number of reports,    *)
(* attempts and stops.                                                     *)
THEOREM RelayRefinesBus == Spec => ResultsKeepOrder
<1>1. Init => Results!BusInit
  BY ResultsInit
<1>2. Inv /\ [Next]_vars => [Results!BusNext]_(Results!busVars)
  BY ResultsStep
<1> QED
  BY <1>1, <1>2, InvHolds, PTL DEF Spec, ResultsKeepOrder, Results!BusSpec

------------------------------------------------------------------------------
LEMMA FailuresStep == Inv /\ [Next]_vars => [Failures!BusNext]_(Failures!busVars)
<1> SUFFICES ASSUME Inv, [Next]_vars, ~ UNCHANGED <<bus, failedAck, routed>>
             PROVE  Failures!BusNext
  BY DEF Failures!busVars
<1>1. ASSUME NEW e \in ResultEvent \cup FailedEvent, Emit(e) PROVE Failures!BusNext
  BY <1>1 DEF Emit, failures, Failures!BusNext, Failures!AppendAudit
<1>2. ASSUME NEW i \in Seqs, RouteFailure(i) PROVE Failures!BusNext
  <2>1. /\ Prefix(bus, router.todo, FailedEvent, failedAck) /\ failedAck \in Nat
        /\ i \in Earliest(router.todo) /\ bus \in Seq(ResultEvent \cup FailedEvent)
    BY <1>2, RelayAssumption DEF Inv, RouterInv, TypeOK, RouteFailure
  <2>2. Failures!FirstAfter(i) /\ i \in Failures!Matching
    BY <2>1, EarliestIsFirst DEF Failures!FirstAfter, Failures!Matching
  <2>3. routed' = routed \cup {i} /\ UNCHANGED <<bus, failedAck>>
    BY <1>2 DEF RouteFailure
  <2> QED
    BY <2>2, <2>3 DEF Failures!BusNext, Failures!Deliver
<1>3. ASSUME AckFailure PROVE Failures!BusNext
  <2>1. Failures!FirstAfter(router.at) /\ router.at \in routed
    BY <1>3, RouterAt DEF Failures!FirstAfter, Failures!Matching, AckFailure
  <2>2. failedAck' = router.at /\ UNCHANGED <<bus, routed>>
    BY <1>3 DEF AckFailure
  <2> QED
    BY <2>1, <2>2 DEF Failures!BusNext, Failures!SaveCheckpoint
<1>4. ASSUME \/ BeginRelayPass \/ EndRelayPass \/ RelayOne \/ LeaveRetryable
             \/ CompleteRelay \/ SkipRelay \/ FailRelay
             \/ BeginRouterPass \/ EndRouterPass \/ Crash
             \/ \E i \in Seqs : ClaimRelay(i) \/ NoticeFails(i)
      PROVE  UNCHANGED <<bus, failedAck, routed>>
  BY <1>4 DEF BeginRelayPass, EndRelayPass, RelayOne, LeaveRetryable, CompleteRelay, SkipRelay,
              FailRelay, BeginRouterPass, EndRouterPass, Crash, ClaimRelay, NoticeFails, failures
<1>5. CASE UNCHANGED vars
  BY <1>5 DEF vars
<1>6. CASE Actions
  BY <1>1, <1>2, <1>3, <1>4, <1>6 DEF Actions
<1> QED
  BY <1>5, <1>6, NextIsActions

(* So is the failure consumer, whose watermark is a second transaction: a  *)
(* stop between the two repeats the notice and loses nothing.              *)
THEOREM RouterRefinesBus == Spec => FailuresKeepOrder
<1>1. Init => Failures!BusInit
  BY DEF Init, Failures!BusInit
<1>2. Inv /\ [Next]_vars => [Failures!BusNext]_(Failures!busVars)
  BY FailuresStep
<1> QED
  BY <1>1, <1>2, InvHolds, PTL DEF Spec, FailuresKeepOrder, Failures!BusSpec

(* The relay of reports implements the durable consumer twice over.        *)
THEOREM RelayKeepsOrder == Spec => ReportsKeepOrder
  BY RelayRefinesBus, RouterRefinesBus DEF ReportsKeepOrder

(* Types, the fate of what was passed, and the finality of a dead letter.  *)
THEOREM RelayKeepsAccount == Spec => []ReportsAreAccountedFor
<1>1. TypeOK /\ PassedIsAccountedFor /\ DeadLetterIsFinal => ReportsAreAccountedFor
  BY DEF ReportsAreAccountedFor
<1> QED BY <1>1, RelayTyped, RelayAccounts, RelayDeadLetters, PTL
==============================================================================
