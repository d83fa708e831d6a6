-------------------------- MODULE WorkerDispatchProofs --------------------------
(***************************************************************************)
(* Commissions and their outcomes, for any number of handlers, workers,    *)
(* receipts, connectors and conversations and any bounds.                  *)
(*                                                                         *)
(* What keeps the handlers apart is not the admission mutex: a worker id   *)
(* is minted once, a receipt is looked up again in the transaction that    *)
(* stores it, and only a dispatched row is flipped.  A handler that holds  *)
(* its conversation may lose it only by the failure of its own worker.     *)
(***************************************************************************)
EXTENDS WorkerDispatch, FailureSurfacing, FiniteSetTheorems, TLAPS

(* A stored worker was minted, and its receipt is nobody else's. *)
RowsStand ==
    /\ \A w \in Workers : Stored(w) => w \in minted
    /\ \A v, w \in Workers :
         Stored(v) /\ Stored(w) /\ dispatch[v].receipt = dispatch[w].receipt
         /\ dispatch[v].receipt # None => v = w

Holding == {"claimed", "persisted", "running"}
Assigned == {"minted", "claimed", "persisted", "running", "exited", "failing", "noticing", "closing"}

Conversation(l) == ConversationOf[RootOf(lanes[l].parent)]

(* What a handler may rely on at each of its steps. *)
LaneStands(l) ==
    LET lane == lanes[l]
    IN  /\ lane.pc \notin Assigned => lane.worker = None
        /\ lane.pc # "idle" =>
             /\ lane.parent \in Grants /\ lane.receipt \in Receipts /\ lane.request \in Requests
             /\ lane.parent \in Workers => Stored(lane.parent)
        /\ lane.pc \in Assigned => lane.worker \in minted
        /\ lane.pc \in {"minted", "claimed"} =>
             ~Stored(lane.worker) /\ ConnectorOf[RootOf(lane.parent)] # None
        /\ lane.pc = "persisted" => lane.persisted \in Workers
        /\ lane.pc \in {"running", "exited", "failing", "noticing", "closing"} =>
             lane.worker \in Holders(lane.receipt) /\ Matches(lane.worker, lane)
        /\ lane.pc \in Holding /\ ~Terminal(lane.worker) => inFlight[Conversation(l)] = lane.worker

LanesApart ==
    \A k, l \in Lanes : lanes[k].worker = lanes[l].worker /\ lanes[k].worker # None => k = l

RepliesStand ==
    \A r \in replies : /\ r.worker \in Holders(r.receipt)
                       /\ dispatch[r.worker].parent = r.parent
                       /\ dispatch[r.worker].request = r.request

LanesStand == (\A l \in Lanes : LaneStands(l)) /\ LanesApart

WdInv == TypeOK /\ RowsStand /\ LanesStand /\ OneOutcome /\ RepliesStand

(* Every failed row was charged to its connector when it failed. *)
Failed(c, t) ==
    {v \in Workers : /\ Stored(v) /\ dispatch[v].connector = c
                     /\ dispatch[v].failedAt # None /\ dispatch[v].failedAt > t}
Charged(c, t) == {i \in DOMAIN ledger : ledger[i].connector = c /\ ledger[i].at > t}
FailuresAreCharged ==
    \A c \in Connectors, t \in Int :
        IsFiniteSet(Failed(c, t)) /\ Cardinality(Failed(c, t)) <= Cardinality(Charged(c, t))

------------------------------------------------------------------------------
(* Rows *)

(* Rows stay, keep what they were stored with, and are not reopened. *)
SameOrigin(w) ==
    /\ dispatch'[w].parent = dispatch[w].parent /\ dispatch'[w].root = dispatch[w].root
    /\ dispatch'[w].receipt = dispatch[w].receipt /\ dispatch'[w].request = dispatch[w].request
    /\ dispatch'[w].connector = dispatch[w].connector
RowsGrow == \A w \in Workers : Stored(w) => /\ Stored(w)' /\ SameOrigin(w)
                                            /\ Terminal(w) => Terminal(w)'
(* No row is added either. *)
RowsKept == RowsGrow /\ \A w \in Workers : Stored(w)' => Stored(w)

LEMMA UnchangedRowsKept == ASSUME dispatch' = dispatch PROVE RowsKept
BY DEF RowsKept, RowsGrow, SameOrigin, Stored, Terminal

LEMMA StoredIsRow == ASSUME TypeOK, NEW w \in Workers, Stored(w) PROVE dispatch[w] \in Row
BY DEF TypeOK, Stored

LEMMA RowIsStored == \A r \in Row : r # None
BY WorkerRowAssumption

LEMMA OneRowChanges ==
    ASSUME TypeOK, NEW w \in Workers, Stored(w), NEW row \in Row,
           dispatch' = [dispatch EXCEPT ![w] = row],
           row.parent = dispatch[w].parent, row.root = dispatch[w].root,
           row.receipt = dispatch[w].receipt, row.request = dispatch[w].request,
           row.connector = dispatch[w].connector,
           dispatch[w].state = "terminal" => row.state = "terminal"
    PROVE  RowsKept /\ dispatch' \in [Workers -> Row \cup {None}] /\ dispatch'[w] = row
           /\ \A v \in Workers \ {w} : dispatch'[v] = dispatch[v]
<1>1. dispatch \in [Workers -> Row \cup {None}]
  BY DEF TypeOK
<1>2. dispatch' \in [Workers -> Row \cup {None}] /\ dispatch'[w] = row
      /\ \A v \in Workers \ {w} : dispatch'[v] = dispatch[v]
  BY <1>1
<1>3. dispatch'[w] # None
  BY <1>2, RowIsStored
<1>4. RowsKept
  BY <1>2, <1>3 DEF RowsKept, RowsGrow, SameOrigin, Stored, Terminal
<1>. QED BY <1>2, <1>4

LEMMA FlipIs ==
    ASSUME TypeOK, NEW w \in Workers, Dispatched(w), NEW at \in Int \cup {None}, Flip(w, at)
    PROVE  RowsKept /\ dispatch' \in [Workers -> Row \cup {None}] /\ Terminal(w)'
           /\ (\A v \in Workers \ {w} : dispatch'[v] = dispatch[v]) /\ dispatch'[w].failedAt = at
<1> DEFINE row == [dispatch[w] EXCEPT !.state = "terminal", !.failedAt = at]
<1>1. dispatch[w] \in Row
  BY StoredIsRow DEF Dispatched
<1>2. /\ row \in Row /\ row.parent = dispatch[w].parent /\ row.root = dispatch[w].root
      /\ row.receipt = dispatch[w].receipt /\ row.request = dispatch[w].request
      /\ row.connector = dispatch[w].connector /\ row.state = "terminal" /\ row.failedAt = at
  BY <1>1 DEF Row
<1>3. dispatch' = [dispatch EXCEPT ![w] = row]
  BY DEF Flip
<1> HIDE DEF row
<1>. QED BY <1>2, <1>3, OneRowChanges, RowIsStored DEF Dispatched, Terminal, Stored

LEMMA SurfacedIs ==
    ASSUME TypeOK, NEW w \in Workers, Dispatched(w), dispatch' = [dispatch EXCEPT ![w].surfaced = TRUE]
    PROVE  RowsKept /\ dispatch' \in [Workers -> Row \cup {None}]
           /\ (\A v \in Workers : Terminal(v)' <=> Terminal(v))
           /\ (\A v \in Workers : dispatch'[v].failedAt = dispatch[v].failedAt \/ ~Stored(v))
<1> DEFINE row == [dispatch[w] EXCEPT !.surfaced = TRUE]
<1>1. dispatch[w] \in Row
  BY StoredIsRow DEF Dispatched
<1>2. /\ row \in Row /\ row.parent = dispatch[w].parent /\ row.root = dispatch[w].root
      /\ row.receipt = dispatch[w].receipt /\ row.request = dispatch[w].request
      /\ row.connector = dispatch[w].connector /\ row.state = dispatch[w].state
      /\ row.failedAt = dispatch[w].failedAt
  BY <1>1 DEF Row
<1>3. dispatch' = [dispatch EXCEPT ![w] = row]
  BY DEF TypeOK
<1> HIDE DEF row
<1>. QED BY <1>2, <1>3, OneRowChanges, RowIsStored DEF Dispatched, Terminal, Stored

(* The one event of a worker is emitted with its flip. *)
LEMMA EmitKeepsOneOutcome ==
    ASSUME TypeOK, OneOutcome, NEW w \in Workers, Dispatched(w), Terminal(w)',
           \A v \in Workers \ {w} : dispatch'[v] = dispatch[v],
           NEW kind \in {"worker.result", "worker.failed"}, Emit(kind, w)
    PROVE  OneOutcome' /\ bus' \in Seq(Event)
<1>1. /\ bus \in Seq(Event) /\ bus' = Append(bus, [kind |-> kind, worker |-> w])
      /\ [kind |-> kind, worker |-> w] \in Event
  BY DEF TypeOK, Emit, Event
<1>2. /\ bus' \in Seq(Event) /\ DOMAIN bus' = 1..(Len(bus) + 1) /\ DOMAIN bus = 1..Len(bus)
      /\ Len(bus) \in Nat
      /\ bus'[Len(bus) + 1].worker = w /\ \A i \in DOMAIN bus : bus'[i] = bus[i]
  BY <1>1
<1>3. \A i \in DOMAIN bus : bus[i].worker # w
  BY DEF OneOutcome, Dispatched, Terminal
<1>4. \A v \in Workers : Terminal(v)' <=> \E i \in DOMAIN bus' : bus'[i].worker = v
  <2>1. ASSUME NEW v \in Workers \ {w} PROVE Terminal(v)' <=> \E i \in DOMAIN bus' : bus'[i].worker = v
    <3>1. Terminal(v)' <=> \E i \in DOMAIN bus : bus[i].worker = v
      BY <2>1 DEF OneOutcome, Terminal, Stored
    <3>. QED BY <1>2, <2>1, <3>1
  <2>2. \E i \in DOMAIN bus' : bus'[i].worker = w
    BY <1>2
  <2>. QED BY <2>1, <2>2
<1>5. \A i, j \in DOMAIN bus' : bus'[i].worker = bus'[j].worker => i = j
  BY <1>2, <1>3 DEF OneOutcome
<1>. QED BY <1>2, <1>4, <1>5 DEF OneOutcome

------------------------------------------------------------------------------
(* Handlers *)

LEMMA RootStays ==
    ASSUME TypeOK, RowsGrow, NEW g \in Grants, g \in Workers => Stored(g)
    PROVE  RootOf(g)' = RootOf(g)
BY WorkerAssumption DEF RootOf, RowsGrow, SameOrigin, Grants

LEMMA RootIsMaster ==
    ASSUME TypeOK, NEW g \in Grants, g \in Workers => Stored(g)
    PROVE  RootOf(g) \in Masters
<1>1. CASE g \in Masters
  BY <1>1 DEF RootOf
<1>2. CASE g \notin Masters
  BY <1>2, StoredIsRow DEF RootOf, Grants, Row
<1>. QED BY <1>1, <1>2

(* A handler that does not move, while others do. *)
LEMMA LaneKept ==
    ASSUME TypeOK, NEW l \in Lanes, LaneStands(l), lanes'[l] = lanes[l], RowsGrow, minted \subseteq minted',
           lanes[l].pc \in {"minted", "claimed"} => ~Stored(lanes[l].worker)',
           lanes[l].pc \in Holding /\ ~Terminal(lanes[l].worker)' /\ ~Terminal(lanes[l].worker)
               => inFlight'[Conversation(l)] = inFlight[Conversation(l)]
    PROVE  LaneStands(l)'
<1> DEFINE lane == lanes[l]
<1>1. lane.pc # "idle" => RootOf(lane.parent)' = RootOf(lane.parent)
  BY RootStays DEF LaneStands
<1>2. lane.pc \in Assigned => lane.worker \in Workers
  BY DEF LaneStands, TypeOK
<1>3. lane.pc # "idle" => (lane.parent \in Workers => Stored(lane.parent)')
  BY DEF LaneStands, RowsGrow
<1>4. lane.pc \in {"running", "exited", "failing", "noticing", "closing"} =>
        lane.worker \in Holders(lane.receipt)' /\ Matches(lane.worker, lane)'
  BY DEF LaneStands, RowsGrow, SameOrigin, Holders, Matches
<1>5. lane.pc \in Holding /\ ~Terminal(lane.worker)' => inFlight'[Conversation(l)] = lane.worker
  BY <1>2 DEF LaneStands, RowsGrow, Holding, Assigned, Terminal
<1>6. lane.pc \in Holding => Conversation(l)' = Conversation(l)
  BY <1>1 DEF Conversation, Holding
<1>. QED BY <1>1, <1>3, <1>4, <1>5, <1>6 DEF LaneStands

(* A handler that is idle stands. *)
LEMMA IdleStands ==
    ASSUME NEW l \in Lanes, lanes'[l] = IdleLane PROVE LaneStands(l)'
BY DEF IdleLane, LaneStands, Assigned, Holding

LEMMA WorkerOfLane ==
    ASSUME TypeOK, NEW l \in Lanes, LaneStands(l)
    PROVE  /\ lanes[l].worker # None <=> lanes[l].pc \in Assigned
           /\ lanes[l].worker # None => lanes[l].worker \in Workers /\ lanes[l].worker \in minted
<1>1. lanes[l].pc \in Assigned => lanes[l].worker \in minted /\ minted \subseteq Workers
  BY DEF LaneStands, TypeOK
<1>. QED BY <1>1, WorkerNoneAssumption DEF LaneStands

(* One handler moves: it keeps its worker, drops it, or has a new one. *)
LEMMA OneLaneMoves ==
    ASSUME TypeOK, LanesStand, NEW l \in Lanes, NEW x \in Lane, lanes' = [lanes EXCEPT ![l] = x],
           LaneStands(l)', x.worker \in {None, lanes[l].worker} \/ x.worker \notin minted,
           RowsGrow, minted \subseteq minted',
           \A w \in Workers : Stored(w)' => Stored(w) \/ w = lanes[l].worker,
           \A k \in Lanes \ {l} :
               lanes[k].pc \in Holding /\ ~Terminal(lanes[k].worker)' /\ ~Terminal(lanes[k].worker)
                   => inFlight'[Conversation(k)] = inFlight[Conversation(k)]
    PROVE  lanes' \in [Lanes -> Lane] /\ LanesStand'
<1>1. lanes' \in [Lanes -> Lane] /\ lanes'[l] = x /\ \A k \in Lanes \ {l} : lanes'[k] = lanes[k]
  BY DEF TypeOK
<1>2. ASSUME NEW k \in Lanes \ {l} PROVE LaneStands(k)'
  <2>1. LaneStands(k) /\ lanes'[k] = lanes[k]
    BY <1>1 DEF LanesStand
  <2>2. lanes[k].pc \in {"minted", "claimed"} => ~Stored(lanes[k].worker)'
    <3>1. lanes[k].pc \in {"minted", "claimed"} => ~Stored(lanes[k].worker) /\ lanes[k].worker # None
                                                   /\ lanes[k].worker \in Workers
      BY <2>1, WorkerOfLane DEF LaneStands, Assigned
    <3>2. lanes[k].worker # None => lanes[k].worker # lanes[l].worker
      BY DEF LanesStand, LanesApart
    <3>. QED BY <3>1, <3>2
  <2>. QED BY <2>1, <2>2, LaneKept
<1>3. LanesApart'
  <2>1. ASSUME NEW k \in Lanes \ {l}, lanes[k].worker # None PROVE lanes[k].worker # x.worker
    <3>1. lanes[k].worker \in minted
      BY <2>1, WorkerOfLane DEF LanesStand
    <3>2. lanes[k].worker # lanes[l].worker
      BY <2>1 DEF LanesStand, LanesApart
    <3>. QED BY <2>1, <3>1, <3>2
  <2>2. \A j, k \in Lanes \ {l} : lanes[j].worker = lanes[k].worker /\ lanes[j].worker # None => j = k
    BY DEF LanesStand, LanesApart
  <2>. QED BY <1>1, <2>1, <2>2 DEF LanesApart
<1>. QED BY <1>1, <1>2, <1>3 DEF LanesStand

(* Releasing a worker's claim takes it from nobody else. *)
LEMMA ReleaseIs ==
    ASSUME TypeOK, NEW w \in Workers, inFlight' = Release(w)
    PROVE  /\ inFlight' \in [Conversations -> Workers \cup {None}]
           /\ \A c \in Conversations : inFlight[c] # w => inFlight'[c] = inFlight[c]
BY DEF TypeOK, Release

LEMMA ConversationIs ==
    ASSUME TypeOK, NEW l \in Lanes, LaneStands(l), lanes[l].pc # "idle"
    PROVE  RootOf(lanes[l].parent) \in Masters /\ Conversation(l) \in Conversations
BY RootIsMaster, WorkerAssumption DEF LaneStands, Conversation

(* The handler returns. *)
LEMMA ReturnStands ==
    ASSUME TypeOK, LanesStand, NEW l \in Lanes, Return(l), RowsKept, minted' = minted
    PROVE  /\ lanes' \in [Lanes -> Lane] /\ LanesStand'
           /\ inFlight' \in [Conversations -> Workers \cup {None}]
           /\ admission' \in Lanes \cup {None}
<1>1. IdleLane \in Lane
  BY DEF IdleLane, Lane
<1>2. lanes' = [lanes EXCEPT ![l] = IdleLane] /\ LaneStands(l)'
  BY IdleStands DEF Return, TypeOK
<1>3. inFlight' = inFlight \/ (lanes[l].worker \in Workers /\ inFlight' = Release(lanes[l].worker))
  BY WorkerOfLane DEF Return, LanesStand, Assigned
<1>4. inFlight' \in [Conversations -> Workers \cup {None}]
  BY <1>3, ReleaseIs DEF TypeOK
<1>5. ASSUME NEW k \in Lanes \ {l}, lanes[k].pc \in Holding, ~Terminal(lanes[k].worker)
      PROVE  inFlight'[Conversation(k)] = inFlight[Conversation(k)]
  <2>1. LaneStands(k) /\ lanes[k].worker # None
    BY <1>5, WorkerOfLane DEF LanesStand, Holding, Assigned
  <2>2. inFlight[Conversation(k)] = lanes[k].worker /\ lanes[k].worker # lanes[l].worker
    BY <1>5, <2>1 DEF LaneStands, LanesStand, LanesApart
  <2>3. Conversation(k) \in Conversations
    BY <1>5, <2>1, ConversationIs DEF Holding
  <2>. QED BY <1>3, <2>2, <2>3, ReleaseIs
<1>6. IdleLane.worker = None
  BY DEF IdleLane
<1>7. lanes' \in [Lanes -> Lane] /\ LanesStand'
  BY <1>1, <1>2, <1>5, <1>6, OneLaneMoves DEF RowsKept
<1>. QED BY <1>4, <1>7 DEF Return, TypeOK

(* Neither the rows nor the bus change. *)
LEMMA TablesStand ==
    ASSUME RowsStand, OneOutcome, RepliesStand, dispatch' = dispatch, bus' = bus, minted \subseteq minted',
           \A r \in replies' : r \in replies \/ /\ r.worker \in Holders(r.receipt)
                                                 /\ dispatch[r.worker].parent = r.parent
                                                 /\ dispatch[r.worker].request = r.request
    PROVE  RowsStand' /\ OneOutcome' /\ RepliesStand'
<1>1. RowsStand'
  BY DEF RowsStand, Stored
<1>2. OneOutcome'
  BY DEF OneOutcome, Terminal, Stored
<1>3. RepliesStand'
  BY DEF RepliesStand, Holders, Stored
<1>. QED BY <1>1, <1>2, <1>3

(* A handler that keeps its worker, or has none, moves to x; no table it shares moves. *)
LEMMA QuietMove ==
    ASSUME TypeOK, LanesStand, NEW l \in Lanes, NEW x \in Lane, lanes' = [lanes EXCEPT ![l] = x],
           LaneStands(l)', x.worker \in {None, lanes[l].worker} \/ x.worker \notin minted,
           dispatch' = dispatch, inFlight' = inFlight, minted \subseteq minted'
    PROVE  lanes' \in [Lanes -> Lane] /\ LanesStand'
BY OneLaneMoves, UnchangedRowsKept DEF RowsKept, Stored

LEMMA AuthenticateStands ==
    ASSUME WdInv, NEW l \in Lanes, NEW g \in Grants, NEW receipt \in Receipts, NEW request \in Requests,
           Authenticate(l, g, receipt, request)
    PROVE  WdInv'
<1> DEFINE x == [IdleLane EXCEPT !.pc = "authenticated", !.parent = g, !.receipt = receipt, !.request = request]
<1>1. UNCHANGED <<clock, tables, minted, admission, replies, shells, calls, found>>
      /\ lanes' = [lanes EXCEPT ![l] = x] /\ (g \in Workers => Stored(g))
  BY DEF Authenticate, Dispatched
<1>2. x \in Lane /\ x.worker = None /\ x.pc = "authenticated" /\ x.parent = g /\ x.receipt = receipt
      /\ x.request = request
  BY DEF IdleLane, Lane
<1> HIDE DEF x
<1>3. lanes'[l] = x
  BY <1>1 DEF WdInv, TypeOK
<1>4. LaneStands(l)'
  BY <1>1, <1>2, <1>3 DEF LaneStands, Assigned, Holding, Stored, tables
<1>5. lanes' \in [Lanes -> Lane] /\ LanesStand'
  BY <1>1, <1>2, <1>4, QuietMove DEF WdInv, tables
<1>6. RowsStand' /\ OneOutcome' /\ RepliesStand'
  BY <1>1, TablesStand DEF WdInv, tables
<1>7. TypeOK'
  BY <1>1, <1>5 DEF WdInv, TypeOK, clock, tables
<1>. QED BY <1>5, <1>6, <1>7 DEF WdInv

(* A handler returns, and answers at most with a worker its receipt resolves to. *)
LEMMA ReturningStands ==
    ASSUME WdInv, NEW l \in Lanes, lanes[l].pc # "idle", Return(l),
           UNCHANGED <<clock, dispatch, ledger, notices, bus, minted, shells, calls, found>>,
           \/ replies' = replies
           \/ \E w \in Holders(lanes[l].receipt) :
                Matches(w, lanes[l]) /\ replies' = replies \cup {Answer(lanes[l], w)}
    PROVE  WdInv'
<1> DEFINE lane == lanes[l]
<1>0. lane \in Lane /\ LaneStands(l)
  BY DEF WdInv, LanesStand, TypeOK
<1>1. /\ lanes' \in [Lanes -> Lane] /\ LanesStand'
      /\ inFlight' \in [Conversations -> Workers \cup {None}] /\ admission' \in Lanes \cup {None}
  BY <1>0, ReturnStands, UnchangedRowsKept DEF WdInv
<1>2. ASSUME NEW w \in Holders(lane.receipt), Matches(w, lane)
      PROVE  /\ Answer(lane, w) \in Reply /\ Answer(lane, w).worker \in Holders(Answer(lane, w).receipt)
             /\ dispatch[Answer(lane, w).worker].parent = Answer(lane, w).parent
             /\ dispatch[Answer(lane, w).worker].request = Answer(lane, w).request
  BY <1>0, <1>2 DEF Answer, Reply, Matches, LaneStands, Holders
<1>3. replies' \subseteq Reply
  BY <1>2 DEF WdInv, TypeOK
<1>4. RowsStand' /\ OneOutcome' /\ RepliesStand'
  BY <1>2, TablesStand DEF WdInv
<1>5. TypeOK'
  BY <1>1, <1>3 DEF WdInv, TypeOK, clock
<1>. QED BY <1>1, <1>4, <1>5 DEF WdInv

LEMMA ReceiptCheckStands ==
    ASSUME WdInv, NEW l \in Lanes, ReceiptCheck(l)
    PROVE  WdInv'
<1> DEFINE lane == lanes[l]
<1>0. /\ UNCHANGED <<clock, dispatch, ledger, notices, bus, minted, shells, calls, found>>
      /\ lane.pc = "authenticated" /\ lane \in Lane /\ LaneStands(l)
  BY DEF ReceiptCheck, WdInv, LanesStand, TypeOK
<1>1. ASSUME Return(l), \/ replies' = replies
                         \/ \E w \in Holders(lane.receipt) : Matches(w, lane) /\ replies' = replies \cup {Answer(lane, w)}
      PROVE  WdInv'
  BY <1>0, <1>1, ReturningStands
<1>2. ASSUME lanes' = [lanes EXCEPT ![l].pc = "fresh"], UNCHANGED <<inFlight, admission, replies>>
      PROVE  WdInv'
  <2> DEFINE x == [lane EXCEPT !.pc = "fresh"]
  <2>1. lanes' = [lanes EXCEPT ![l] = x]
    BY <1>2
  <2>2. /\ x \in Lane /\ x.pc = "fresh" /\ x.worker = lane.worker /\ x.parent = lane.parent
        /\ x.receipt = lane.receipt /\ x.request = lane.request
    BY <1>0 DEF Lane
  <2> HIDE DEF x
  <2>3. lanes'[l] = x
    BY <2>1 DEF WdInv, TypeOK
  <2>4. LaneStands(l)'
    BY <1>0, <2>2, <2>3 DEF LaneStands, Assigned, Holding, Stored
  <2>5. lanes' \in [Lanes -> Lane] /\ LanesStand'
    BY <1>0, <1>2, <2>1, <2>2, <2>4, QuietMove DEF WdInv
  <2>6. RowsStand' /\ OneOutcome' /\ RepliesStand'
    BY <1>0, <1>2, TablesStand DEF WdInv
  <2>7. TypeOK'
    BY <1>0, <1>2, <2>5 DEF WdInv, TypeOK, clock
  <2>. QED BY <2>5, <2>6, <2>7 DEF WdInv
<1>. QED BY <1>1, <1>2 DEF ReceiptCheck

LEMMA AdmitStands ==
    ASSUME WdInv, NEW l \in Lanes, NEW w \in Workers, Admit(l, w)
    PROVE  WdInv'
<1> DEFINE lane == lanes[l]
           x == [lane EXCEPT !.pc = "minted", !.worker = w]
<1>0. /\ UNCHANGED <<clock, tables, replies, shells, calls, found>> /\ minted' = minted \cup {w}
      /\ admission' = l /\ w \notin minted /\ lane.pc = "fresh" /\ lane \in Lane /\ LaneStands(l)
      /\ ConnectorOf[RootOf(lane.parent)] # None
  BY DEF Admit, WdInv, LanesStand, TypeOK
<1>1. lanes' = [lanes EXCEPT ![l] = x]
  BY DEF Admit
<1>2. /\ x \in Lane /\ x.pc = "minted" /\ x.worker = w /\ x.parent = lane.parent
      /\ x.receipt = lane.receipt /\ x.request = lane.request
  BY <1>0 DEF Lane
<1> HIDE DEF x
<1>3. lanes'[l] = x
  BY <1>1 DEF WdInv, TypeOK
<1>4. ~Stored(w)
  BY <1>0 DEF WdInv, RowsStand
<1>5. LaneStands(l)'
  BY <1>0, <1>2, <1>3, <1>4 DEF LaneStands, Assigned, Holding, Stored, RootOf, tables
<1>6. lanes' \in [Lanes -> Lane] /\ LanesStand'
  BY <1>0, <1>1, <1>2, <1>5, QuietMove DEF WdInv, tables
<1>7. RowsStand' /\ OneOutcome' /\ RepliesStand'
  BY <1>0, TablesStand DEF WdInv, tables
<1>8. TypeOK'
  BY <1>0, <1>6 DEF WdInv, TypeOK, clock, tables
<1>. QED BY <1>6, <1>7, <1>8 DEF WdInv

LEMMA ClaimStands ==
    ASSUME WdInv, NEW l \in Lanes, ClaimConversation(l)
    PROVE  WdInv'
<1> DEFINE lane == lanes[l]
           c == ConversationOf[RootOf(lane.parent)]
           x == [lane EXCEPT !.pc = "claimed"]
<1>0. /\ UNCHANGED <<clock, dispatch, ledger, notices, bus, minted, replies, shells, calls, found>>
      /\ lane.pc = "minted" /\ lane \in Lane /\ LaneStands(l)
  BY DEF ClaimConversation, WdInv, LanesStand, TypeOK
<1>1. CASE inFlight[c] # None
  BY <1>0, <1>1, ReturningStands DEF ClaimConversation
<1>2. CASE inFlight[c] = None
  <2>1. /\ inFlight' = [inFlight EXCEPT ![c] = lane.worker] /\ lanes' = [lanes EXCEPT ![l] = x]
        /\ admission' = admission
    BY <1>2 DEF ClaimConversation
  <2>2. /\ x \in Lane /\ x.pc = "claimed" /\ x.worker = lane.worker /\ x.parent = lane.parent
        /\ x.receipt = lane.receipt /\ x.request = lane.request
    BY <1>0 DEF Lane
  <2> HIDE DEF x
  <2>3. c \in Conversations /\ Conversation(l) = c /\ lane.worker \in Workers
    BY <1>0, ConversationIs, WorkerOfLane DEF WdInv, Conversation, Assigned
  <2>4. inFlight' \in [Conversations -> Workers \cup {None}] /\ inFlight'[c] = lane.worker
    BY <2>1, <2>3 DEF WdInv, TypeOK
  <2>5. lanes'[l] = x
    BY <2>1 DEF WdInv, TypeOK
  <2>6. LaneStands(l)'
    <3>1. lane.parent \in Grants /\ (lane.parent \in Workers => Stored(lane.parent)) /\ ~Stored(lane.worker)
          /\ ConnectorOf[RootOf(lane.parent)] # None /\ lane.receipt \in Receipts /\ lane.request \in Requests
          /\ lane.worker \in minted
      BY <1>0 DEF LaneStands, Assigned
    <3>2. Conversation(l)' = c /\ RootOf(lane.parent)' = RootOf(lane.parent)
      BY <1>0, <2>2, <2>5 DEF Conversation, RootOf
    <3>. QED BY <1>0, <2>2, <2>4, <2>5, <3>1, <3>2 DEF LaneStands, Assigned, Holding, Stored
  <2>7. ASSUME NEW k \in Lanes \ {l}, lanes[k].pc \in Holding, ~Terminal(lanes[k].worker)
        PROVE  inFlight'[Conversation(k)] = inFlight[Conversation(k)]
    <3>1. LaneStands(k) /\ lanes[k].worker # None /\ Conversation(k) \in Conversations
      BY <2>7, WorkerOfLane, ConversationIs DEF WdInv, LanesStand, Holding, Assigned
    <3>2. inFlight[Conversation(k)] = lanes[k].worker
      BY <2>7, <3>1 DEF LaneStands
    <3>3. Conversation(k) # c
      BY <1>2, <3>1, <3>2
    <3>. QED BY <2>1, <2>3, <3>1, <3>3 DEF WdInv, TypeOK
  <2>8. lanes' \in [Lanes -> Lane] /\ LanesStand'
    BY <1>0, <2>1, <2>2, <2>6, <2>7, OneLaneMoves, UnchangedRowsKept DEF WdInv, RowsKept
  <2>9. RowsStand' /\ OneOutcome' /\ RepliesStand'
    BY <1>0, TablesStand DEF WdInv
  <2>10. TypeOK'
    BY <1>0, <2>1, <2>4, <2>8 DEF WdInv, TypeOK, clock
  <2>. QED BY <2>8, <2>9, <2>10 DEF WdInv
<1>. QED BY <1>1, <1>2

LEMMA EndingStands ==
    ASSUME WdInv, NEW l \in Lanes, RefuseAdmission(l) \/ CallerDisconnects(l) \/ FinishCommission(l)
    PROVE  WdInv'
<1>1. /\ Return(l) /\ UNCHANGED <<clock, dispatch, ledger, notices, bus, minted, shells, calls, found>>
      /\ lanes[l].pc # "idle"
  BY DEF RefuseAdmission, CallerDisconnects, FinishCommission
<1>2. CASE RefuseAdmission(l) \/ CallerDisconnects(l)
  BY <1>1, <1>2, ReturningStands DEF RefuseAdmission, CallerDisconnects
<1>3. CASE FinishCommission(l)
  <2>1. lanes[l].worker \in Holders(lanes[l].receipt) /\ Matches(lanes[l].worker, lanes[l])
    BY <1>3 DEF FinishCommission, WdInv, LanesStand, LaneStands
  <2>. QED BY <1>1, <1>3, <2>1, ReturningStands DEF FinishCommission
<1>. QED BY <1>2, <1>3

LEMMA InspectStands ==
    ASSUME WdInv, NEW l \in Lanes, InspectExit(l)
    PROVE  WdInv'
<1> DEFINE lane == lanes[l]
           pc == IF Terminal(lane.worker) THEN "closing" ELSE "failing"
           x == [lane EXCEPT !.pc = pc]
<1>0. /\ UNCHANGED <<clock, tables, minted, admission, replies, shells, calls, found>>
      /\ lane.pc = "exited" /\ lane \in Lane /\ LaneStands(l) /\ pc \in {"failing", "closing"}
  BY DEF InspectExit, WdInv, LanesStand, TypeOK
<1>1. lanes' = [lanes EXCEPT ![l] = x]
  BY DEF InspectExit
<1> HIDE DEF pc
<1>2. /\ x \in Lane /\ x.pc \in {"failing", "closing"} /\ x.worker = lane.worker /\ x.parent = lane.parent
      /\ x.receipt = lane.receipt /\ x.request = lane.request
  BY <1>0 DEF Lane
<1> HIDE DEF x
<1>3. lanes'[l] = x
  BY <1>1 DEF WdInv, TypeOK
<1>4. LaneStands(l)'
  BY <1>0, <1>2, <1>3 DEF LaneStands, Assigned, Holding, Stored, Holders, Matches, tables
<1>5. lanes' \in [Lanes -> Lane] /\ LanesStand'
  BY <1>0, <1>1, <1>2, <1>4, QuietMove DEF WdInv, tables
<1>6. RowsStand' /\ OneOutcome' /\ RepliesStand'
  BY <1>0, TablesStand DEF WdInv, tables
<1>7. TypeOK'
  BY <1>0, <1>5 DEF WdInv, TypeOK, clock, tables
<1>. QED BY <1>5, <1>6, <1>7 DEF WdInv

(* The one transaction that adds a row: its receipt is nobody's, and the worker id is this
   handler's alone. *)
LEMMA NewRowIs ==
    ASSUME WdInv, NEW l \in Lanes, NEW lane, lane = lanes[l], lane.pc = "claimed",
           Holders(lane.receipt) = {}, dispatch' = [dispatch EXCEPT ![lane.worker] = NewRow(lane)],
           minted' = minted, bus' = bus, replies' = replies
    PROVE  /\ dispatch' \in [Workers -> Row \cup {None}] /\ RowsGrow /\ lane.worker \in Workers
           /\ dispatch'[lane.worker] = NewRow(lane) /\ ~Stored(lane.worker)
           /\ Stored(lane.worker)' /\ ~Terminal(lane.worker)'
           /\ \A w \in Workers : Stored(w)' => Stored(w) \/ w = lane.worker
           /\ RowsStand' /\ OneOutcome' /\ RepliesStand'
<1> DEFINE me == lane.worker
<1>1. LaneStands(l) /\ lane \in Lane /\ me \in Workers /\ me \in minted /\ ~Stored(me) /\ TypeOK
  BY WorkerOfLane DEF WdInv, LanesStand, LaneStands, TypeOK, Assigned
<1>2. /\ lane.parent \in Grants /\ (lane.parent \in Workers => Stored(lane.parent))
      /\ lane.receipt \in Receipts /\ lane.request \in Requests
  BY <1>1 DEF LaneStands
<1>3. NewRow(lane) \in Row /\ NewRow(lane).state = "dispatched" /\ NewRow(lane).receipt = lane.receipt
  <2>1. RootOf(lane.parent) \in Masters
    BY <1>1, <1>2, RootIsMaster
  <2>2. ConnectorOf[RootOf(lane.parent)] \in Connectors \cup {None} /\ now \in Int
    BY <1>1, <2>1, WorkerAssumption DEF TypeOK
  <2>. QED BY <1>2, <2>1, <2>2 DEF NewRow, Row
<1>4. /\ dispatch' \in [Workers -> Row \cup {None}] /\ dispatch'[me] = NewRow(lane)
      /\ \A w \in Workers \ {me} : dispatch'[w] = dispatch[w]
  BY <1>1, <1>3 DEF TypeOK
<1>5. Stored(me)' /\ ~Terminal(me)' /\ ~Terminal(me)
  BY <1>1, <1>3, <1>4, RowIsStored DEF Stored, Terminal
<1>6. RowsGrow
  BY <1>1, <1>4 DEF RowsGrow, SameOrigin, Stored, Terminal
<1>7. \A w \in Workers : Stored(w)' => Stored(w) \/ w = me
  BY <1>4 DEF Stored
<1>8. RowsStand'
  <2>1. \A w \in Workers : Stored(w)' => w \in minted'
    BY <1>1, <1>7 DEF WdInv, RowsStand
  <2>2. \A w \in Workers \ {me} : Stored(w)' => dispatch'[w].receipt # lane.receipt
    BY <1>4 DEF Holders, Stored
  <2>3. ASSUME NEW v \in Workers, NEW w \in Workers, Stored(v)', Stored(w)',
               dispatch'[v].receipt = dispatch'[w].receipt, dispatch'[v].receipt # None
        PROVE  v = w
    BY <1>3, <1>4, <2>2, <2>3 DEF WdInv, RowsStand, Stored
  <2>. QED BY <2>1, <2>3 DEF RowsStand
<1>9. OneOutcome'
  <2>1. \A w \in Workers : Terminal(w)' <=> Terminal(w)
    BY <1>4, <1>5 DEF Terminal, Stored
  <2>. QED BY <2>1 DEF WdInv, OneOutcome
<1>10. RepliesStand'
  BY <1>6 DEF WdInv, RepliesStand, RowsGrow, SameOrigin, Holders
<1>. QED BY <1>1, <1>4, <1>5, <1>6, <1>7, <1>8, <1>9, <1>10

LEMMA RecordCommissionedStands ==
    ASSUME WdInv, NEW l \in Lanes, RecordWorkerCommissioned(l)
    PROVE  WdInv'
<1> DEFINE lane == lanes[l]
<1>0. /\ UNCHANGED <<clock, ledger, notices, bus, minted, replies, shells, calls, found>>
      /\ lane.pc = "claimed" /\ lane \in Lane /\ LaneStands(l)
  BY DEF RecordWorkerCommissioned, WdInv, LanesStand, TypeOK
<1>a. /\ lane.parent \in Grants /\ (lane.parent \in Workers => Stored(lane.parent))
      /\ lane.receipt \in Receipts /\ lane.request \in Requests /\ lane.worker \in minted
      /\ lane.worker \in Workers /\ ~Stored(lane.worker) /\ inFlight[Conversation(l)] = lane.worker
  BY <1>0, WorkerOfLane DEF WdInv, LaneStands, Assigned, Holding, Terminal
<1>1. CASE Return(l) /\ dispatch' = dispatch
  BY <1>0, <1>1, ReturningStands
<1>b. ASSUME NEW w \in Workers, lanes' = [lanes EXCEPT ![l].pc = "persisted", ![l].persisted = w],
             inFlight' = inFlight, RowsGrow
      PROVE  \E x \in Lane : /\ lanes' = [lanes EXCEPT ![l] = x] /\ x.worker = lane.worker /\ LaneStands(l)'
  <2> DEFINE x == [lane EXCEPT !.pc = "persisted", !.persisted = w]
  <2>1. lanes' = [lanes EXCEPT ![l] = x] /\ lanes'[l] = x
    BY <1>b DEF WdInv, TypeOK
  <2>2. /\ x \in Lane /\ x.pc = "persisted" /\ x.worker = lane.worker /\ x.parent = lane.parent
        /\ x.receipt = lane.receipt /\ x.request = lane.request /\ x.persisted = w
    BY <1>0 DEF Lane
  <2> HIDE DEF x
  <2>3. PICK g \in Grants : g = lane.parent
    BY <1>a
  <2>4. RootOf(g)' = RootOf(g) /\ (g \in Workers => Stored(g)')
    BY <1>a, <1>b, <2>3, RootStays DEF WdInv, RowsGrow
  <2>5. Conversation(l)' = Conversation(l)
    BY <2>1, <2>2, <2>3, <2>4 DEF Conversation
  <2>6. LaneStands(l)'
    BY <1>0, <1>a, <1>b, <2>1, <2>2, <2>3, <2>4, <2>5 DEF LaneStands, Assigned, Holding
  <2>. QED BY <2>1, <2>2, <2>6
<1>2. ASSUME NEW w \in Holders(lane.receipt), lanes' = [lanes EXCEPT ![l].pc = "persisted", ![l].persisted = w],
             UNCHANGED <<dispatch, inFlight, admission>>
      PROVE  WdInv'
  <2>1. PICK x \in Lane : lanes' = [lanes EXCEPT ![l] = x] /\ x.worker = lane.worker /\ LaneStands(l)'
    BY <1>2, <1>b, UnchangedRowsKept DEF Holders, RowsKept
  <2>2. lanes' \in [Lanes -> Lane] /\ LanesStand'
    BY <1>0, <1>2, <2>1, QuietMove DEF WdInv
  <2>3. RowsStand' /\ OneOutcome' /\ RepliesStand'
    BY <1>0, <1>2, TablesStand DEF WdInv
  <2>4. TypeOK'
    BY <1>0, <1>2, <2>2 DEF WdInv, TypeOK, clock
  <2>. QED BY <2>2, <2>3, <2>4 DEF WdInv
<1>3. ASSUME Holders(lane.receipt) = {}, dispatch' = [dispatch EXCEPT ![lane.worker] = NewRow(lane)],
             lanes' = [lanes EXCEPT ![l].pc = "persisted", ![l].persisted = lane.worker],
             UNCHANGED <<inFlight, admission>>
      PROVE  WdInv'
  <2>1. /\ dispatch' \in [Workers -> Row \cup {None}] /\ RowsGrow
        /\ \A w \in Workers : Stored(w)' => Stored(w) \/ w = lane.worker
        /\ RowsStand' /\ OneOutcome' /\ RepliesStand'
    BY <1>0, <1>3, NewRowIs, Zenon
  <2>2. PICK x \in Lane : lanes' = [lanes EXCEPT ![l] = x] /\ x.worker = lane.worker /\ LaneStands(l)'
    BY <1>3, <1>a, <1>b, <2>1
  <2>3. lanes' \in [Lanes -> Lane] /\ LanesStand'
    BY <1>0, <1>3, <2>1, <2>2, OneLaneMoves DEF WdInv
  <2>4. TypeOK'
    BY <1>0, <1>3, <2>1, <2>3 DEF WdInv, TypeOK, clock
  <2>. QED BY <2>1, <2>3, <2>4 DEF WdInv
<1>. QED BY <1>1, <1>2, <1>3 DEF RecordWorkerCommissioned

LEMMA ResolveStands ==
    ASSUME WdInv, NEW l \in Lanes, ResolveReceipt(l)
    PROVE  WdInv'
<1> DEFINE lane == lanes[l]
           mine == lane.persisted \in Holders(lane.receipt) /\ Matches(lane.persisted, lane)
<1>0. /\ UNCHANGED <<clock, dispatch, ledger, notices, bus, minted, calls, found>>
      /\ lane.pc = "persisted" /\ lane \in Lane /\ LaneStands(l)
  BY DEF ResolveReceipt, WdInv, LanesStand, TypeOK
<1>a. /\ lane.parent \in Grants /\ (lane.parent \in Workers => Stored(lane.parent))
      /\ lane.receipt \in Receipts /\ lane.request \in Requests /\ lane.worker \in minted
      /\ lane.worker \in Workers
      /\ ~Terminal(lane.worker) => inFlight[Conversation(l)] = lane.worker
  BY <1>0, WorkerOfLane DEF WdInv, LaneStands, Assigned, Holding
<1>1. CASE /\ mine /\ lane.persisted = lane.worker /\ admission' = None
           /\ lanes' = [lanes EXCEPT ![l].pc = "running"]
           /\ shells' = [shells EXCEPT ![lane.worker] = "running"]
           /\ UNCHANGED <<inFlight, replies>>
  <2> DEFINE x == [lane EXCEPT !.pc = "running"]
  <2>1. lanes' = [lanes EXCEPT ![l] = x]
    BY <1>1
  <2>2. /\ x \in Lane /\ x.pc = "running" /\ x.worker = lane.worker /\ x.parent = lane.parent
        /\ x.receipt = lane.receipt /\ x.request = lane.request
    BY <1>0 DEF Lane
  <2> HIDE DEF x
  <2>3. lanes'[l] = x
    BY <2>1 DEF WdInv, TypeOK
  <2>4. Conversation(l)' = Conversation(l)
    BY <1>0, <2>2, <2>3 DEF Conversation, RootOf
  <2>5. LaneStands(l)'
    <3>1. lane.worker \in Holders(lane.receipt) /\ Matches(lane.worker, lane)
      BY <1>1
    <3>. QED BY <1>0, <1>a, <1>1, <2>2, <2>3, <2>4, <3>1
             DEF LaneStands, Assigned, Holding, Stored, Terminal, Holders, Matches
  <2>6. lanes' \in [Lanes -> Lane] /\ LanesStand'
    BY <1>0, <1>1, <2>1, <2>2, <2>5, QuietMove DEF WdInv
  <2>7. RowsStand' /\ OneOutcome' /\ RepliesStand'
    BY <1>0, <1>1, TablesStand DEF WdInv
  <2>8. TypeOK'
    BY <1>0, <1>a, <1>1, <2>6 DEF WdInv, TypeOK, clock
  <2>. QED BY <2>6, <2>7, <2>8 DEF WdInv
<1>2. CASE /\ mine /\ Return(l) /\ replies' = replies \cup {Answer(lane, lane.persisted)}
           /\ UNCHANGED shells
  BY <1>0, <1>2, ReturningStands
<1>3. CASE Return(l) /\ UNCHANGED <<shells, replies>>
  BY <1>0, <1>3, ReturningStands
<1>. QED BY <1>1, <1>2, <1>3 DEF ResolveReceipt

------------------------------------------------------------------------------
(* Outcomes *)

(* A settled row or none: the call changes nothing but itself; a dispatched one is flipped
   and said, and a failure is charged and frees the conversation of its own worker. *)
LEMMA OutcomeIs ==
    ASSUME WdInv, NEW w \in Workers,
           (RecordWorkerResult(w) /\ UNCHANGED <<ledger, inFlight>>) \/ RecordWorkerFailed(w)
    PROVE  /\ RowsKept /\ dispatch' \in [Workers -> Row \cup {None}]
           /\ OneOutcome' /\ bus' \in Seq(Event)
           /\ ledger' \in Seq([connector : Connectors, at : Int])
           /\ inFlight' = inFlight \/ (inFlight' = Release(w) /\ Terminal(w)')
<1>0. TypeOK /\ OneOutcome /\ now \in Int
  BY DEF WdInv, TypeOK
<1>1. CASE ~Dispatched(w)
  <2>1. UNCHANGED <<dispatch, bus, ledger, inFlight>>
    BY <1>1 DEF RecordWorkerResult, RecordWorkerFailed
  <2>2. OneOutcome'
    BY <1>0, <2>1 DEF OneOutcome, Terminal, Stored
  <2>. QED BY <1>0, <2>1, <2>2, UnchangedRowsKept DEF TypeOK
<1>2. CASE Dispatched(w)
  <2>1. dispatch[w] \in Row
    BY <1>0, <1>2, StoredIsRow DEF Dispatched
  <2>2. PICK at \in Int \cup {None}, kind \in {"worker.result", "worker.failed"} : Flip(w, at) /\ Emit(kind, w)
    <3>1. dispatch[w].failedAt \in Int \cup {None}
      BY <2>1 DEF Row
    <3>2. (Flip(w, dispatch[w].failedAt) /\ Emit("worker.result", w))
            \/ (Flip(w, now) /\ Emit("worker.failed", w))
      BY <1>2 DEF RecordWorkerResult, RecordWorkerFailed
    <3>. QED BY <1>0, <3>1, <3>2, Zenon
  <2>3. /\ RowsKept /\ dispatch' \in [Workers -> Row \cup {None}] /\ Terminal(w)'
        /\ \A v \in Workers \ {w} : dispatch'[v] = dispatch[v]
    BY <1>0, <1>2, <2>2, FlipIs
  <2>4. OneOutcome' /\ bus' \in Seq(Event)
    BY <1>0, <1>2, <2>2, <2>3, EmitKeepsOneOutcome
  <2>5. ledger' = ledger \/ (/\ dispatch[w].connector # None
                             /\ ledger' = Append(ledger, [connector |-> dispatch[w].connector, at |-> now]))
    BY <1>2 DEF RecordWorkerResult, RecordWorkerFailed
  <2>6. ledger' \in Seq([connector : Connectors, at : Int])
    <3>1. /\ ledger \in Seq([connector : Connectors, at : Int])
          /\ dispatch[w].connector \in Connectors \cup {None}
      BY <1>0, <2>1 DEF TypeOK, Row
    <3>2. dispatch[w].connector # None =>
            [connector |-> dispatch[w].connector, at |-> now] \in [connector : Connectors, at : Int]
      BY <1>0, <3>1
    <3> DEFINE charge == [connector |-> dispatch[w].connector, at |-> now]
    <3> HIDE DEF charge
    <3>3. ledger' = ledger \/ (dispatch[w].connector # None /\ ledger' = Append(ledger, charge))
      BY <2>5 DEF charge
    <3> DEFINE Charges == [connector : Connectors, at : Int]
    <3>4. (dispatch[w].connector # None => charge \in Charges) /\ ledger \in Seq(Charges)
      BY <3>1, <3>2 DEF charge
    <3> HIDE DEF Charges
    <3>5. ledger' \in Seq(Charges)
      BY <3>3, <3>4
    <3>. QED BY <3>5 DEF Charges
  <2>7. inFlight' = inFlight \/ inFlight' = Release(w)
    BY <1>2 DEF RecordWorkerResult, RecordWorkerFailed
  <2>. QED BY <2>3, <2>4, <2>6, <2>7
<1>. QED BY <1>1, <1>2

LEMMA KeptRowsStand ==
    ASSUME RowsStand, RepliesStand, RowsKept, minted' = minted,
           replies' = replies
    PROVE  RowsStand' /\ RepliesStand'
<1>1. RowsStand'
  BY DEF RowsStand, RowsKept, RowsGrow, SameOrigin
<1>2. RepliesStand'
  BY DEF RepliesStand, RowsKept, RowsGrow, SameOrigin, Holders
<1>. QED BY <1>1, <1>2

(* Handlers stand where one worker has lost its claim with its row. *)
LEMMA ClaimLostStands ==
    ASSUME TypeOK, NEW w \in Workers, inFlight' = inFlight \/ (inFlight' = Release(w) /\ Terminal(w)'),
           NEW k \in Lanes, LaneStands(k), lanes[k].pc \in Holding,
           NEW me \in Workers, me = lanes[k].worker, ~Terminal(me), ~Terminal(me)'
    PROVE  inFlight'[Conversation(k)] = inFlight[Conversation(k)]
<1>1. inFlight[Conversation(k)] = me /\ Conversation(k) \in Conversations
  BY ConversationIs DEF LaneStands, Holding
<1>2. me # w \/ inFlight' = inFlight
  OBVIOUS
<1>. QED BY <1>1, <1>2, ReleaseIs

LEMMA ReportStands ==
    ASSUME WdInv, NEW w \in Workers, HandleReportResult(w) \/ HandleWorkerFailed(w)
    PROVE  WdInv'
<1>0. /\ UNCHANGED <<clock, notices, handlers, shells, found>> /\ calls' \subseteq calls
      /\ (RecordWorkerResult(w) /\ UNCHANGED <<ledger, inFlight>>) \/ RecordWorkerFailed(w)
  BY DEF HandleReportResult, HandleWorkerFailed
<1>1. /\ RowsKept /\ dispatch' \in [Workers -> Row \cup {None}]
      /\ OneOutcome' /\ bus' \in Seq(Event)
      /\ ledger' \in Seq([connector : Connectors, at : Int])
      /\ inFlight' = inFlight \/ (inFlight' = Release(w) /\ Terminal(w)')
  BY <1>0, OutcomeIs
<1>2. RowsStand' /\ RepliesStand'
  BY <1>0, <1>1, KeptRowsStand DEF WdInv, handlers
<1>3. ASSUME NEW k \in Lanes PROVE LaneStands(k)'
  <2>1. LaneStands(k) /\ lanes' = lanes /\ minted' = minted /\ TypeOK
    BY <1>0 DEF WdInv, LanesStand, handlers
  <2>2. lanes[k].pc \in Assigned => lanes[k].worker \in Workers
    BY <2>1, WorkerOfLane
  <2>3. lanes[k].pc \in {"minted", "claimed"} => ~Stored(lanes[k].worker)'
    BY <1>1, <2>1, <2>2 DEF LaneStands, RowsKept, Assigned
  <2>4. lanes[k].pc \in Holding /\ ~Terminal(lanes[k].worker)' /\ ~Terminal(lanes[k].worker)
          => inFlight'[Conversation(k)] = inFlight[Conversation(k)]
    BY <1>1, <2>1, <2>2, ClaimLostStands DEF Holding, Assigned
  <2>. QED BY <1>1, <2>1, <2>3, <2>4, LaneKept DEF RowsKept
<1>4. LanesStand' /\ lanes' \in [Lanes -> Lane]
  BY <1>0, <1>3 DEF WdInv, LanesStand, LanesApart, TypeOK, handlers
<1>5. inFlight' \in [Conversations -> Workers \cup {None}]
  BY <1>1, ReleaseIs DEF WdInv, TypeOK
<1>6. TypeOK'
  BY <1>0, <1>1, <1>5 DEF WdInv, TypeOK, clock, handlers
<1>. QED BY <1>1, <1>2, <1>4, <1>6 DEF WdInv

(* The supervisor of a worker that left, with its own claim still to drop. *)
LEMMA SuperviseStands ==
    ASSUME WdInv, NEW l \in Lanes, SuperviseFailure(l)
    PROVE  WdInv'
<1> DEFINE lane == lanes[l]
<1>0. /\ UNCHANGED <<clock, notices, minted, replies, shells, calls, found>>
      /\ lane.pc = "failing" /\ lane \in Lane /\ LaneStands(l) /\ TypeOK
  BY DEF SuperviseFailure, WdInv, LanesStand, TypeOK
<1>1. PICK w \in Workers : w = lane.worker
  BY <1>0, WorkerOfLane DEF Assigned
<1>2. CASE Return(l) /\ UNCHANGED <<dispatch, ledger, bus>>
  BY <1>0, <1>2, ReturningStands
<1>3. ASSUME RecordWorkerFailed(w), UNCHANGED admission,
             NEW pc \in {"noticing", "closing"}, lanes' = [lanes EXCEPT ![l].pc = pc]
      PROVE  WdInv'
  <2>1. /\ RowsKept /\ dispatch' \in [Workers -> Row \cup {None}]
        /\ OneOutcome' /\ bus' \in Seq(Event)
        /\ ledger' \in Seq([connector : Connectors, at : Int])
        /\ inFlight' = inFlight \/ (inFlight' = Release(w) /\ Terminal(w)')
    BY <1>3, OutcomeIs
  <2>2. RowsStand' /\ RepliesStand'
    BY <1>0, <2>1, KeptRowsStand DEF WdInv
  <2>3. PICK x : x = [lane EXCEPT !.pc = pc] /\ lanes' = [lanes EXCEPT ![l] = x]
    BY <1>3
  <2>4. /\ x \in Lane /\ x.pc = pc /\ x.worker = lane.worker /\ x.parent = lane.parent
        /\ x.receipt = lane.receipt /\ x.request = lane.request
    BY <1>0, <2>3 DEF Lane
  <2>5. lanes'[l] = x
    BY <2>3 DEF WdInv, TypeOK
  <2>6. LaneStands(l)'
    <3>1. w \in Holders(lane.receipt) /\ Matches(w, lane) /\ w \in minted
      BY <1>0, <1>1 DEF LaneStands, Assigned
    <3>2. w \in Holders(x.receipt)' /\ Matches(w, x)'
      BY <1>1, <2>1, <2>4, <3>1 DEF RowsKept, RowsGrow, SameOrigin, Holders, Matches
    <3>3. PICK g \in Grants : g = lane.parent /\ (g \in Workers => Stored(g))
      BY <1>0 DEF LaneStands
    <3>4. g \in Workers => Stored(g)'
      BY <2>1, <3>3 DEF RowsKept, RowsGrow
    <3>. QED BY <1>0, <1>1, <1>3, <2>4, <2>5, <3>1, <3>2, <3>3, <3>4
             DEF LaneStands, Assigned, Holding, Holders, Matches
  <2>7. ASSUME NEW k \in Lanes \ {l}, lanes[k].pc \in Holding,
               ~Terminal(lanes[k].worker), ~Terminal(lanes[k].worker)'
        PROVE  inFlight'[Conversation(k)] = inFlight[Conversation(k)]
    <3>1. PICK me \in Workers : me = lanes[k].worker
      BY <1>0, <2>7, WorkerOfLane DEF WdInv, LanesStand, Holding, Assigned
    <3>2. lanes'[k] = lanes[k]
      BY <2>3 DEF WdInv, TypeOK
    <3>3. ~Terminal(me) /\ LaneStands(k)
      BY <2>7, <3>1 DEF WdInv, LanesStand
    <3>4. ~Terminal(me)'
      BY <2>7, <3>1, <3>2 DEF Terminal, Stored
    <3>. QED BY <1>0, <2>1, <2>7, <3>1, <3>3, <3>4, ClaimLostStands
  <2>8. lanes' \in [Lanes -> Lane] /\ LanesStand'
    BY <1>0, <2>1, <2>3, <2>4, <2>6, <2>7, OneLaneMoves DEF WdInv, RowsKept
  <2>9. inFlight' \in [Conversations -> Workers \cup {None}]
    BY <2>1, ReleaseIs DEF WdInv, TypeOK
  <2>10. TypeOK'
    BY <1>0, <1>3, <2>1, <2>8, <2>9 DEF WdInv, TypeOK, clock
  <2>. QED BY <2>1, <2>2, <2>8, <2>10 DEF WdInv
<1>. QED BY <1>1, <1>2, <1>3 DEF SuperviseFailure

(* A shell leaves: of the handlers, the one that waits for it wakes. *)
LEMMA ShellExitStands ==
    ASSUME WdInv, NEW w \in Workers, NEW status \in {"ok", "error"}, ShellExits(w, status)
    PROVE  WdInv'
<1> DEFINE Left(l) == [lanes[l] EXCEPT !.status = status, !.pc = IF status = "ok" THEN "exited" ELSE "failing"]
           pc == IF status = "ok" THEN "exited" ELSE "failing"
<1>a. /\ lanes' = [l \in Lanes |-> IF lanes[l].pc = "running" /\ lanes[l].worker = w THEN Left(l) ELSE lanes[l]]
      /\ shells' = [shells EXCEPT ![w] = "exited"]
  BY Zenon DEF ShellExits
<1>0. UNCHANGED <<clock, tables, minted, admission, replies, calls, found>> /\ TypeOK
  BY Zenon DEF ShellExits, WdInv
<1>b. ASSUME NEW l \in Lanes, lanes[l] \in Lane
      PROVE  /\ Left(l) \in Lane /\ Left(l).pc \in {"exited", "failing"} /\ Left(l).worker = lanes[l].worker
             /\ Left(l).parent = lanes[l].parent /\ Left(l).receipt = lanes[l].receipt
             /\ Left(l).request = lanes[l].request
  <2>1. pc \in {"exited", "failing"} /\ Left(l) = [lanes[l] EXCEPT !.status = status, !.pc = pc]
    OBVIOUS
  <2> HIDE DEF pc
  <2>. QED BY <1>b, <2>1 DEF Lane
<1> HIDE DEF Left
<1>1. RowsStand' /\ OneOutcome' /\ RepliesStand'
  BY <1>0, TablesStand DEF WdInv, tables
<1>2. ASSUME NEW l \in Lanes
      PROVE  /\ lanes'[l] \in Lane /\ lanes'[l].worker = lanes[l].worker
             /\ LaneStands(l)'
  <2>1. LaneStands(l) /\ lanes[l] \in Lane
    BY DEF WdInv, LanesStand, TypeOK
  <2>2. CASE lanes'[l] = lanes[l]
    <3>1. LaneStands(l)'
      BY <1>0, <2>1, <2>2, LaneKept, UnchangedRowsKept DEF RowsKept, LaneStands, tables, Stored
    <3>. QED BY <2>1, <2>2, <3>1
  <2>3. CASE lanes'[l] # lanes[l]
    <3> DEFINE x == Left(l)
    <3>1. lanes[l].pc = "running" /\ lanes'[l] = x
      BY <1>a, <2>3
    <3>2. /\ x \in Lane /\ x.pc \in {"exited", "failing"} /\ x.worker = lanes[l].worker
          /\ x.parent = lanes[l].parent /\ x.receipt = lanes[l].receipt /\ x.request = lanes[l].request
      BY <1>b, <2>1
    <3> HIDE DEF x
    <3>3. LaneStands(l)'
      BY <1>0, <2>1, <3>1, <3>2 DEF LaneStands, Assigned, Holding, Stored, Holders, Matches, tables
    <3>. QED BY <3>1, <3>2, <3>3
  <2>. QED BY <2>2, <2>3
<1>3. lanes' \in [Lanes -> Lane]
  <2>1. \E f : f = lanes' /\ f = [l \in Lanes |-> f[l]]
    BY <1>a, Zenon
  <2>. QED BY <1>2, <2>1
<1>4. LanesStand'
  BY <1>2 DEF WdInv, LanesStand, LanesApart
<1>5. shells' \in [Workers -> {"none", "running", "exited"}]
  BY <1>a DEF WdInv, TypeOK
<1>6. TypeOK'
  BY <1>0, <1>3, <1>5 DEF TypeOK, clock, tables
<1>. QED BY <1>1, <1>4, <1>6 DEF WdInv

(* The handlers keep still. *)
LEMMA StillLanesStand ==
    ASSUME TypeOK, LanesStand, RowsKept, lanes' = lanes, minted' = minted, inFlight' = inFlight
    PROVE  LanesStand'
<1>1. ASSUME NEW k \in Lanes PROVE LaneStands(k)'
  <2>1. LaneStands(k) /\ (lanes[k].pc \in Assigned => lanes[k].worker \in Workers)
    BY WorkerOfLane DEF LanesStand
  <2>2. lanes[k].pc \in {"minted", "claimed"} => ~Stored(lanes[k].worker)'
    BY <2>1 DEF LaneStands, RowsKept, Assigned
  <2>. QED BY <2>1, <2>2, LaneKept DEF RowsKept
<1>. QED BY <1>1 DEF LanesStand, LanesApart

LEMMA SweepsStand ==
    ASSUME WdInv, BootSweep \/ WatchdogSweep \/ (\E w \in Workers, kind \in {"worker.result", "worker.failed"} : WorkerCalls(w, kind))
                  \/ (\E s \in {"boot", "watchdog"}, w \in Workers : SkipStrandedWorker(s, w))
    PROVE  WdInv'
<1>1. UNCHANGED <<now, booted, stops, tables, handlers, shells>>
  BY DEF BootSweep, WatchdogSweep, WorkerCalls, SkipStrandedWorker, clock
<1>2. LanesStand' /\ RowsStand' /\ OneOutcome' /\ RepliesStand'
  BY <1>1, UnchangedRowsKept, StillLanesStand, TablesStand DEF WdInv, tables, handlers
<1>3. swept' \in BOOLEAN /\ calls' \subseteq Event /\ found' \in [{"boot", "watchdog"} -> SUBSET Workers]
  <2>0. swept \in BOOLEAN /\ calls \subseteq Event /\ found \in [{"boot", "watchdog"} -> SUBSET Workers]
    BY DEF WdInv, TypeOK
  <2>1. CASE BootSweep
    BY <2>0, <2>1 DEF BootSweep
  <2>2. CASE WatchdogSweep
    BY <2>0, <2>2 DEF WatchdogSweep, clock
  <2>3. ASSUME NEW w \in Workers, NEW kind \in {"worker.result", "worker.failed"}, WorkerCalls(w, kind)
        PROVE  swept' = swept /\ calls' \subseteq Event /\ found' = found
    BY <2>0, <2>3 DEF WorkerCalls, clock, Event
  <2>4. ASSUME NEW s \in {"boot", "watchdog"}, NEW w \in Workers, SkipStrandedWorker(s, w)
        PROVE  swept' = swept /\ calls' = calls /\ found' \in [{"boot", "watchdog"} -> SUBSET Workers]
    BY <2>0, <2>4 DEF SkipStrandedWorker, clock
  <2>. QED BY <2>0, <2>1, <2>2, <2>3, <2>4
<1>4. TypeOK'
  BY <1>1, <1>3 DEF WdInv, TypeOK, tables, handlers
<1>. QED BY <1>2, <1>4 DEF WdInv

LEMMA SurfaceStands ==
    ASSUME WdInv, NEW s \in {"boot", "watchdog"}, NEW w \in Workers, SurfaceStrandedWorker(s, w)
    PROVE  WdInv'
<1>1. /\ UNCHANGED <<clock, ledger, inFlight, bus, handlers, shells, calls>>
      /\ found' = [found EXCEPT ![s] = @ \ {w}]
      /\ \/ Dispatched(w) /\ notices' = [notices EXCEPT ![w] = @ + 1] /\ dispatch' = [dispatch EXCEPT ![w].surfaced = TRUE]
         \/ UNCHANGED <<notices, dispatch>>
  BY DEF SurfaceStrandedWorker, StillStranded
<1>2. /\ RowsKept /\ dispatch' \in [Workers -> Row \cup {None}]
      /\ \A v \in Workers : Terminal(v)' <=> Terminal(v)
  <2>1. CASE dispatch' = dispatch
    BY <2>1, UnchangedRowsKept DEF WdInv, TypeOK, Terminal, Stored
  <2>2. CASE Dispatched(w) /\ dispatch' = [dispatch EXCEPT ![w].surfaced = TRUE]
    BY <2>2, SurfacedIs DEF WdInv
  <2>. QED BY <1>1, <2>1, <2>2
<1>3. notices' \in [Workers -> Nat] /\ found' \in [{"boot", "watchdog"} -> SUBSET Workers]
  <2>1. notices \in [Workers -> Nat] /\ found \in [{"boot", "watchdog"} -> SUBSET Workers]
    BY DEF WdInv, TypeOK
  <2>2. notices' \in [Workers -> Nat]
    BY <1>1, <2>1
  <2>. QED BY <1>1, <2>1, <2>2
<1>4. OneOutcome'
  BY <1>1, <1>2 DEF WdInv, OneOutcome
<1>5. RowsStand' /\ RepliesStand'
  BY <1>1, <1>2, KeptRowsStand DEF WdInv, handlers
<1>6. LanesStand'
  BY <1>1, <1>2, StillLanesStand DEF WdInv, handlers
<1>7. TypeOK'
  BY <1>1, <1>2, <1>3 DEF WdInv, TypeOK, clock, handlers
<1>. QED BY <1>4, <1>5, <1>6, <1>7 DEF WdInv

LEMMA TickStands == ASSUME WdInv, Tick PROVE WdInv'
<1>1. /\ UNCHANGED <<booted, stops, swept, tables, handlers, shells, calls, found>>
      /\ now' = now + 1 /\ now < MaxTime
  BY DEF Tick
<1>2. LanesStand' /\ RowsStand' /\ OneOutcome' /\ RepliesStand'
  BY <1>1, UnchangedRowsKept, StillLanesStand, TablesStand DEF WdInv, tables, handlers
<1>3. now' \in 0..MaxTime
  BY <1>1, WorkerAssumption DEF WdInv, TypeOK
<1>4. TypeOK'
  BY <1>1, <1>3 DEF WdInv, TypeOK, tables, handlers
<1>. QED BY <1>2, <1>4 DEF WdInv

(* No handler survives the kernel, so none is owed a conversation. *)
LEMMA RestartStands ==
    ASSUME WdInv, Crash \/ KernelExits
    PROVE  WdInv'
<1>1. /\ UNCHANGED <<now, dispatch, ledger, notices, bus, minted, shells, replies>>
      /\ stops < MaxStops /\ stops' = stops + 1 /\ booted' = now /\ swept' = FALSE
      /\ lanes' = [l \in Lanes |-> IdleLane]
      /\ admission' = None /\ calls' = {} /\ found' = [s \in {"boot", "watchdog"} |-> {}]
  BY DEF Crash, KernelExits, Restart
<1>2. RowsStand' /\ OneOutcome' /\ RepliesStand'
  BY <1>1, TablesStand DEF WdInv
<1>3. LanesStand'
  <2>1. \A l \in Lanes : LaneStands(l)'
    BY <1>1, IdleStands
  <2>2. LanesApart'
    BY <1>1 DEF LanesApart, IdleLane
  <2>. QED BY <2>1, <2>2 DEF LanesStand
<1>4. inFlight' \in [Conversations -> Workers \cup {None}]
  BY DEF Crash, KernelExits, WdInv, TypeOK
<1>5. lanes' \in [Lanes -> Lane]
  BY <1>1 DEF IdleLane, Lane
<1>6. stops' \in 0..MaxStops
  BY <1>1, WorkerAssumption DEF WdInv, TypeOK
<1>7. TypeOK'
  BY <1>1, <1>4, <1>5, <1>6 DEF WdInv, TypeOK
<1>. QED BY <1>2, <1>3, <1>7 DEF WdInv

(* A store of an earlier release may hold rows without a receipt. *)
LEMMA WdInit == Init => WdInv
<1> SUFFICES ASSUME Init PROVE WdInv
  OBVIOUS
<1>1. PICK old \in SUBSET Legacy :
        /\ minted = old
        /\ dispatch = [w \in Workers |-> IF w \in old THEN LegacyRow ELSE None]
        /\ shells = [w \in Workers |-> IF w \in old THEN "running" ELSE "none"]
  BY DEF Init
<1>2. LegacyRow \in Row /\ LegacyRow.state = "dispatched" /\ LegacyRow.receipt = None
  BY WorkerAssumption DEF LegacyRow, Row, Grants
<1>3. old \subseteq Workers
  BY WorkerAssumption
<1>4. dispatch \in [Workers -> Row \cup {None}] /\ \A w \in Workers : ~Terminal(w)
  BY <1>1, <1>2 DEF Terminal, Stored
<1>5. TypeOK
  <2>a. now \in 0..MaxTime /\ booted \in 0..MaxTime /\ stops \in 0..MaxStops
    <3>1. now = 0 /\ booted = 0 /\ stops = 0
      BY Zenon DEF Init
    <3>. QED BY <3>1, WorkerAssumption
  <2>b. swept \in BOOLEAN
    BY Zenon DEF Init
  <2>1. /\ inFlight \in [Conversations -> Workers \cup {None}] /\ notices \in [Workers -> Nat]
        /\ admission \in Lanes \cup {None} /\ calls \subseteq Event /\ replies \subseteq Reply
        /\ found \in [{"boot", "watchdog"} -> SUBSET Workers]
    BY Zenon DEF Init
  <2>2. ledger \in Seq([connector : Connectors, at : Int]) /\ bus \in Seq(Event)
    BY DEF Init
  <2>3. lanes \in [Lanes -> Lane]
    BY DEF Init, IdleLane, Lane
  <2>4. minted \subseteq Workers /\ shells \in [Workers -> {"none", "running", "exited"}]
    BY <1>1, <1>3
  <2>. QED BY <1>4, <2>a, <2>b, <2>1, <2>2, <2>3, <2>4 DEF TypeOK
<1>6. RowsStand
  BY <1>1, <1>2 DEF RowsStand, Stored
<1>7. LanesStand
  BY DEF Init, LanesStand, LaneStands, LanesApart, IdleLane, Assigned, Holding
<1>8. OneOutcome /\ RepliesStand
  BY <1>4 DEF Init, OneOutcome, RepliesStand
<1>. QED BY <1>5, <1>6, <1>7, <1>8 DEF WdInv

LEMMA WdStep == WdInv /\ [Next]_vars => WdInv'
<1> SUFFICES ASSUME WdInv, [Next]_vars PROVE WdInv'
  OBVIOUS
<1>1. ASSUME NEW l \in Lanes, LaneStep(l) PROVE WdInv'
  <2>1. CASE ReceiptCheck(l)
    BY <2>1, ReceiptCheckStands
  <2>2. CASE \E w \in Workers : Admit(l, w)
    BY <2>2, AdmitStands
  <2>3. CASE RefuseAdmission(l)
    BY <2>3, EndingStands
  <2>4. CASE ClaimConversation(l)
    BY <2>4, ClaimStands
  <2>5. CASE RecordWorkerCommissioned(l)
    BY <2>5, RecordCommissionedStands
  <2>6. CASE ResolveReceipt(l)
    BY <2>6, ResolveStands
  <2>7. CASE InspectExit(l)
    BY <2>7, InspectStands
  <2>8. CASE SuperviseFailure(l)
    BY <2>8, SuperviseStands
  <2>9. CASE FinishCommission(l)
    BY <2>9, EndingStands
  <2>. QED BY <1>1, <2>1, <2>2, <2>3, <2>4, <2>5, <2>6, <2>7, <2>8, <2>9 DEF LaneStep
<1>2. CASE \E l \in Lanes, g \in Grants, rc \in Receipts, rq \in Requests : Authenticate(l, g, rc, rq)
  BY <1>2, AuthenticateStands
<1>3. CASE \E l \in Lanes : CallerDisconnects(l)
  BY <1>3, EndingStands
<1>4. CASE \E w \in Workers : HandleReportResult(w) \/ HandleWorkerFailed(w)
  BY <1>4, ReportStands
<1>5. CASE \E w \in Workers, status \in {"ok", "error"} : ShellExits(w, status)
  BY <1>5, ShellExitStands
<1>6. CASE \E s \in {"boot", "watchdog"}, w \in Workers : SurfaceStrandedWorker(s, w)
  BY <1>6, SurfaceStands
<1>7. CASE vars' = vars
  <2>1. UNCHANGED <<now, booted, stops, swept, minted, dispatch, ledger, inFlight, notices, bus, admission,
                    lanes, shells, calls, found, replies>>
    BY <1>7 DEF vars
  <2>2. LanesStand' /\ RowsStand' /\ OneOutcome' /\ RepliesStand'
    BY <2>1, UnchangedRowsKept, StillLanesStand, TablesStand DEF WdInv
  <2>. QED BY <2>1, <2>2 DEF WdInv, TypeOK
<1>. QED BY <1>1, <1>2, <1>3, <1>4, <1>5, <1>6, <1>7, SweepsStand, TickStands, RestartStands DEF Next

(* A commission is answered once.  Two answers to one receipt name the one row that holds
   it, and so one worker; the row says whose it is and for what. *)
LEMMA WdInvAnswersOnce == WdInv => OneAnswer
<1> SUFFICES ASSUME WdInv PROVE OneAnswer
  OBVIOUS
<1>1. ASSUME NEW r \in replies, NEW q \in replies, r.receipt = q.receipt PROVE r = q
  <2>1. r \in Reply /\ q \in Reply
    BY DEF WdInv, TypeOK
  <2>2. r.worker \in Holders(r.receipt) /\ q.worker \in Holders(q.receipt)
    BY DEF WdInv, RepliesStand
  <2>3. r.receipt # None
    BY <2>1, WorkerNoneAssumption DEF Reply
  <2>4. r.worker = q.worker
    BY <1>1, <2>2, <2>3 DEF WdInv, RowsStand, Holders
  <2>5. r.parent = q.parent /\ r.request = q.request
    BY <2>4 DEF WdInv, RepliesStand
  <2>. QED BY <1>1, <2>1, <2>4, <2>5 DEF Reply
<1>. QED BY <1>1 DEF WdInv, OneAnswer, ReceiptAnswersOneCommission, RepliesStand

LEMMA WdInvSupervisesOne == WdInv => OneSupervisedPerConversation
<1> SUFFICES ASSUME WdInv, NEW l \in Lanes, lanes[l].pc = "running", Dispatched(lanes[l].worker)
             PROVE  /\ inFlight[ConversationOf[RootOf(lanes[l].parent)]] = lanes[l].worker
                    /\ \A k \in Lanes \ {l} : lanes[k].worker # lanes[l].worker
  BY DEF OneSupervisedPerConversation
<1>1. LaneStands(l) /\ LanesApart /\ lanes[l].worker # None
  BY WorkerOfLane DEF WdInv, LanesStand, Assigned
<1>2. ~Terminal(lanes[l].worker)
  BY DEF Dispatched, Terminal
<1>. QED BY <1>1, <1>2 DEF LaneStands, Holding, Conversation, LanesApart

(* A retried commission is answered with its first worker and a receipt never with another's
   (execute_worker_commission, commission_persistence.rs); a worker that reports, fails or
   is given up by its supervisor settles once, with one event (record_worker_result,
   record_worker_failed). *)
THEOREM CommissionAnsweredOnce == Spec => []OneAnswer
<1>1. Spec => []WdInv
  BY WdInit, WdStep, PTL DEF Spec
<1>. QED BY <1>1, WdInvAnswersOnce, PTL

(* The handler that waits for an unsettled worker holds the claim of its conversation and is
   the only handler of that worker (ConversationClaimGuard, release_conversation_in_flight):
   no late cleanup, failure report or dropped handler of another worker takes it. *)
THEOREM ClaimHeldWhileSupervised == Spec => []OneSupervisedPerConversation
<1>1. Spec => []WdInv
  BY WdInit, WdStep, PTL DEF Spec
<1>. QED BY <1>1, WdInvSupervisesOne, PTL

------------------------------------------------------------------------------
(* Bounds on commissions *)

Charges == [connector : Connectors, at : Int]

LEMMA EntriesAreFinite ==
    ASSUME NEW s \in Seq(Charges), NEW T \in SUBSET DOMAIN s
    PROVE  IsFiniteSet(T)
<1>1. Len(s) \in Int /\ DOMAIN s = 1..Len(s)
  OBVIOUS
<1>2. IsFiniteSet(1..Len(s))
  BY <1>1, FS_Interval
<1>. QED BY <1>1, <1>2, FS_Subset

(* No row fails, and the ledger is left alone. *)
LEMMA FailuresKept ==
    ASSUME TypeOK, FailuresAreCharged, ledger' = ledger,
           \A v \in Workers : Stored(v)' =>
               \/ dispatch'[v].failedAt = None
               \/ /\ Stored(v) /\ dispatch'[v].connector = dispatch[v].connector
                  /\ dispatch'[v].failedAt = dispatch[v].failedAt
    PROVE  FailuresAreCharged'
<1> SUFFICES ASSUME NEW c \in Connectors, NEW t \in Int
             PROVE  IsFiniteSet(Failed(c, t)') /\ Cardinality(Failed(c, t)') <= Cardinality(Charged(c, t)')
  BY DEF FailuresAreCharged
<1>1. Failed(c, t)' \in SUBSET Failed(c, t)
  BY DEF Failed
<1>2. Charged(c, t)' = Charged(c, t)
  BY DEF Charged
<1>3. IsFiniteSet(Failed(c, t)) /\ Cardinality(Failed(c, t)) <= Cardinality(Charged(c, t))
  BY DEF FailuresAreCharged
<1>4. IsFiniteSet(Failed(c, t)') /\ Cardinality(Failed(c, t)') <= Cardinality(Failed(c, t))
  BY <1>1, <1>3, FS_Subset
<1>5. ledger \in Seq(Charges)
  BY DEF TypeOK, Charges
<1>6. IsFiniteSet(Charged(c, t))
  <2>1. Charged(c, t) \in SUBSET DOMAIN ledger
    BY DEF Charged
  <2>. QED BY <1>5, <2>1, EntriesAreFinite
<1>7. /\ Cardinality(Failed(c, t)') \in Nat /\ Cardinality(Failed(c, t)) \in Nat
      /\ Cardinality(Charged(c, t)) \in Nat
  BY <1>3, <1>4, <1>6, FS_CardinalityType
<1> DEFINE a == Cardinality(Failed(c, t)')
           b == Cardinality(Failed(c, t))
           d == Cardinality(Charged(c, t))
<1>8. a <= b /\ b <= d /\ a \in Nat /\ b \in Nat /\ d \in Nat
  BY <1>3, <1>4, <1>7
<1> HIDE DEF a, b, d
<1>9. a <= d
  BY <1>8
<1>. QED BY <1>2, <1>4, <1>9 DEF a, d

(* A row that fails is charged in the same transaction. *)
LEMMA FailureIsCharged ==
    ASSUME WdInv, FailuresAreCharged, NEW w \in Workers, Dispatched(w), RecordWorkerFailed(w)
    PROVE  FailuresAreCharged'
<1> SUFFICES ASSUME NEW c \in Connectors, NEW t \in Int
             PROVE  IsFiniteSet(Failed(c, t)') /\ Cardinality(Failed(c, t)') <= Cardinality(Charged(c, t)')
  BY DEF FailuresAreCharged
<1> DEFINE own == dispatch[w].connector
<1>1. /\ dispatch[w] \in Row /\ own \in Connectors \cup {None} /\ now \in Int /\ ledger \in Seq(Charges)
      /\ c # None
  BY StoredIsRow, WorkerNoneAssumption DEF WdInv, TypeOK, Dispatched, Row, Charges
<1>2. /\ RowsKept /\ dispatch'[w].failedAt = now
      /\ \A v \in Workers \ {w} : dispatch'[v] = dispatch[v]
  <2>1. Flip(w, now)
    BY DEF RecordWorkerFailed
  <2>. QED BY <1>1, <2>1, FlipIs DEF WdInv
<1>3. /\ dispatch'[w].connector = own
      /\ Failed(c, t)' \subseteq Failed(c, t) \cup (IF c = own /\ now > t THEN {w} ELSE {})
  <2>1. dispatch'[w].connector = own
    BY <1>2 DEF RowsKept, RowsGrow, SameOrigin, Dispatched
  <2>. QED BY <1>2, <2>1 DEF Failed, Stored
<1>4. IsFiniteSet(Failed(c, t)) /\ Cardinality(Failed(c, t)) <= Cardinality(Charged(c, t))
  BY DEF FailuresAreCharged
<1>5. IsFiniteSet(Charged(c, t)) /\ Cardinality(Charged(c, t)) \in Nat /\ Cardinality(Failed(c, t)) \in Nat
  <2>1. Charged(c, t) \in SUBSET DOMAIN ledger
    BY DEF Charged
  <2>. QED BY <1>1, <1>4, <2>1, EntriesAreFinite, FS_CardinalityType
<1>6. CASE c # own \/ ~(now > t)
  <2>1. Failed(c, t)' \in SUBSET Failed(c, t)
    BY <1>3, <1>6
  <2>2. IsFiniteSet(Failed(c, t)') /\ Cardinality(Failed(c, t)') <= Cardinality(Failed(c, t))
    BY <1>4, <2>1, FS_Subset
  <2>3. Charged(c, t)' = Charged(c, t)
    <3>1. CASE ledger' = ledger
      BY <3>1 DEF Charged
    <3>2. CASE ledger' = Append(ledger, [connector |-> own, at |-> now])
      <4>1. /\ DOMAIN ledger' = DOMAIN ledger \cup {Len(ledger) + 1}
            /\ ledger'[Len(ledger) + 1] = [connector |-> own, at |-> now]
            /\ \A i \in DOMAIN ledger : ledger'[i] = ledger[i]
        BY <1>1, <3>2
      <4>2. ~(ledger'[Len(ledger) + 1].connector = c /\ ledger'[Len(ledger) + 1].at > t)
        BY <1>6, <4>1
      <4>. QED BY <4>1, <4>2 DEF Charged
    <3>. QED BY <3>1, <3>2 DEF RecordWorkerFailed
  <2>. QED BY <1>4, <2>2, <2>3, FS_CardinalityType, <1>5
<1>7. CASE c = own /\ now > t
  <2>1. ledger' = Append(ledger, [connector |-> own, at |-> now])
    BY <1>1, <1>7 DEF RecordWorkerFailed
  <2>2. /\ DOMAIN ledger' = DOMAIN ledger \cup {Len(ledger) + 1} /\ Len(ledger) + 1 \notin DOMAIN ledger
        /\ ledger'[Len(ledger) + 1] = [connector |-> own, at |-> now]
        /\ \A i \in DOMAIN ledger : ledger'[i] = ledger[i]
    BY <1>1, <2>1
  <2>3. ledger'[Len(ledger) + 1].connector = c /\ ledger'[Len(ledger) + 1].at > t
    BY <1>7, <2>2
  <2>4. Charged(c, t)' = Charged(c, t) \cup {Len(ledger) + 1} /\ Len(ledger) + 1 \notin Charged(c, t)
    BY <2>2, <2>3 DEF Charged
  <2>5. Cardinality(Charged(c, t)') = Cardinality(Charged(c, t)) + 1
    BY <1>5, <2>4, FS_AddElement
  <2>6. Failed(c, t)' \in SUBSET (Failed(c, t) \cup {w})
    BY <1>3, <1>7
  <2>7. IsFiniteSet(Failed(c, t) \cup {w}) /\ Cardinality(Failed(c, t) \cup {w}) <= Cardinality(Failed(c, t)) + 1
        /\ Cardinality(Failed(c, t) \cup {w}) \in Nat
    <3> DEFINE F == Failed(c, t)
    <3>1. IsFiniteSet(F) /\ Cardinality(F) \in Nat
      BY <1>4, <1>5
    <3> HIDE DEF F
    <3>2. IsFiniteSet(F \cup {w}) /\ Cardinality(F \cup {w}) = IF w \in F THEN Cardinality(F) ELSE Cardinality(F) + 1
      BY <3>1, FS_AddElement
    <3>3. IsFiniteSet(F \cup {w}) /\ Cardinality(F \cup {w}) <= Cardinality(F) + 1 /\ Cardinality(F \cup {w}) \in Nat
      BY <3>1, <3>2
    <3>. QED BY <3>3 DEF F
  <2>8. IsFiniteSet(Failed(c, t)') /\ Cardinality(Failed(c, t)') <= Cardinality(Failed(c, t) \cup {w})
        /\ Cardinality(Failed(c, t)') \in Nat
    BY <2>6, <2>7, FS_Subset, FS_CardinalityType
  <2>. QED BY <1>4, <1>5, <2>5, <2>7, <2>8
<1>. QED BY <1>6, <1>7

(* Of the steps, one stores a row and two flip one. *)
LEMMA StepsOfRows ==
    ASSUME WdInv, [Next]_vars
    PROVE  \/ dispatch' = dispatch /\ ledger' = ledger
           \/ \E w \in Workers : SurfaceStrandedWorker("boot", w) \/ SurfaceStrandedWorker("watchdog", w)
           \/ \E w \in Workers : RecordWorkerResult(w) /\ ledger' = ledger
           \/ \E w \in Workers : RecordWorkerFailed(w)
           \/ \E l \in Lanes : /\ lanes[l].pc = "claimed" /\ MayStore(lanes[l]) /\ ledger' = ledger
                               /\ dispatch' = [dispatch EXCEPT ![lanes[l].worker] = NewRow(lanes[l])]
<1>1. CASE vars' = vars
  BY <1>1 DEF vars
<1>2. ASSUME NEW l \in Lanes, LaneStep(l) PROVE
           \/ dispatch' = dispatch /\ ledger' = ledger
           \/ \E w \in Workers : RecordWorkerFailed(w)
           \/ /\ lanes[l].pc = "claimed" /\ MayStore(lanes[l]) /\ ledger' = ledger
              /\ dispatch' = [dispatch EXCEPT ![lanes[l].worker] = NewRow(lanes[l])]
  <2>1. CASE SuperviseFailure(l)
    <3>1. lanes[l].worker \in Workers
      BY <2>1, WorkerOfLane DEF SuperviseFailure, WdInv, LanesStand, Assigned
    <3>. QED BY <2>1, <3>1 DEF SuperviseFailure
  <2>2. CASE RecordWorkerCommissioned(l)
    BY <2>2 DEF RecordWorkerCommissioned
  <2>3. CASE ReceiptCheck(l) \/ (\E w \in Workers : Admit(l, w)) \/ RefuseAdmission(l) \/ ClaimConversation(l)
    BY <2>3 DEF ReceiptCheck, Admit, RefuseAdmission, ClaimConversation, tables
  <2>4. CASE ResolveReceipt(l) \/ InspectExit(l) \/ FinishCommission(l)
    BY <2>4 DEF ResolveReceipt, InspectExit, FinishCommission, tables
  <2>. QED BY <1>2, <2>1, <2>2, <2>3, <2>4 DEF LaneStep
<1>3. CASE \E l \in Lanes, g \in Grants, rc \in Receipts, rq \in Requests : Authenticate(l, g, rc, rq)
  BY <1>3 DEF Authenticate, tables
<1>4. CASE \E l \in Lanes : CallerDisconnects(l)
  BY <1>4 DEF CallerDisconnects
<1>5. CASE \E w \in Workers : HandleReportResult(w)
  BY <1>5 DEF HandleReportResult
<1>6. CASE \E w \in Workers : HandleWorkerFailed(w)
  BY <1>6 DEF HandleWorkerFailed
<1>7. CASE \E w \in Workers, status \in {"ok", "error"} : ShellExits(w, status)
  <2>1. UNCHANGED tables
    BY <1>7, Zenon DEF ShellExits
  <2>. QED BY <2>1 DEF tables
<1>8. CASE \/ BootSweep \/ WatchdogSweep \/ Tick \/ Crash \/ KernelExits
           \/ \E w \in Workers, kind \in {"worker.result", "worker.failed"} : WorkerCalls(w, kind)
           \/ \E s \in {"boot", "watchdog"}, w \in Workers : SkipStrandedWorker(s, w)
  BY <1>8 DEF BootSweep, WatchdogSweep, Tick, Crash, KernelExits, Restart, WorkerCalls, SkipStrandedWorker, tables
<1>. QED BY <1>1, <1>2, <1>3, <1>4, <1>5, <1>6, <1>7, <1>8, Zenon DEF Next

LEMMA ChargesStep == WdInv /\ FailuresAreCharged /\ [Next]_vars => FailuresAreCharged'
<1> SUFFICES ASSUME WdInv, FailuresAreCharged, [Next]_vars PROVE FailuresAreCharged'
  OBVIOUS
<1>0. TypeOK
  BY DEF WdInv
<1>1. CASE dispatch' = dispatch /\ ledger' = ledger
  BY <1>1, <1>0, FailuresKept DEF Stored
<1>2. ASSUME NEW w \in Workers, NEW s \in {"boot", "watchdog"}, SurfaceStrandedWorker(s, w) PROVE FailuresAreCharged'
  <2>1. /\ ledger' = ledger
        /\ dispatch' = dispatch \/ (Dispatched(w) /\ dispatch' = [dispatch EXCEPT ![w].surfaced = TRUE])
    BY <1>2 DEF SurfaceStrandedWorker, StillStranded
  <2>2. CASE Dispatched(w) /\ dispatch' = [dispatch EXCEPT ![w].surfaced = TRUE]
    <3>1. RowsKept /\ \A v \in Workers : dispatch'[v].failedAt = dispatch[v].failedAt \/ ~Stored(v)
      BY <1>0, <2>2, SurfacedIs
    <3>. QED BY <2>1, <3>1, <1>0, FailuresKept DEF RowsKept, RowsGrow, SameOrigin
  <2>. QED BY <1>1, <2>1, <2>2
<1>3. ASSUME NEW w \in Workers, RecordWorkerResult(w), ledger' = ledger PROVE FailuresAreCharged'
  <2>1. CASE ~Dispatched(w)
    BY <1>1, <1>3, <2>1 DEF RecordWorkerResult
  <2>2. CASE Dispatched(w)
    <3>1. dispatch[w].failedAt \in Int \cup {None} /\ Flip(w, dispatch[w].failedAt)
      BY <1>0, <1>3, <2>2, StoredIsRow DEF RecordWorkerResult, Dispatched, Row
    <3>2. RowsKept /\ \A v \in Workers : dispatch'[v].failedAt = dispatch[v].failedAt
      BY <1>0, <2>2, <3>1, FlipIs
    <3>. QED BY <1>3, <3>2, <1>0, FailuresKept DEF RowsKept, RowsGrow, SameOrigin
  <2>. QED BY <2>1, <2>2
<1>4. ASSUME NEW w \in Workers, RecordWorkerFailed(w) PROVE FailuresAreCharged'
  <2>1. CASE ~Dispatched(w)
    BY <1>1, <1>4, <2>1 DEF RecordWorkerFailed
  <2>. QED BY <1>4, <2>1, FailureIsCharged
<1>5. ASSUME NEW l \in Lanes, lanes[l].pc = "claimed", ledger' = ledger,
             dispatch' = [dispatch EXCEPT ![lanes[l].worker] = NewRow(lanes[l])]
      PROVE  FailuresAreCharged'
  <2>1. NewRow(lanes[l]).failedAt = None /\ lanes[l].worker \in Workers
    BY <1>0, <1>5, WorkerOfLane DEF NewRow, WdInv, LanesStand, Assigned
  <2>2. \A v \in Workers : dispatch'[v] = dispatch[v] \/ dispatch'[v] = NewRow(lanes[l])
    BY <1>0, <1>5, <2>1 DEF TypeOK
  <2>. QED BY <1>5, <2>1, <2>2, <1>0, FailuresKept DEF Stored
<1>. QED BY <1>1, <1>2, <1>3, <1>4, <1>5, StepsOfRows, Zenon

LEMMA RowsComeFromCommissions ==
    ASSUME WdInv, [Next]_vars, NEW w \in Workers, ~Stored(w), dispatch'[w] # None
    PROVE  \E l \in Lanes : lanes[l].pc = "claimed" /\ MayStore(lanes[l]) /\ dispatch'[w] = NewRow(lanes[l])
<1>0. TypeOK /\ Stored(w)'
  BY DEF WdInv, Stored
<1>1. ~RowsKept
  BY <1>0 DEF RowsKept
<1>2. dispatch' # dispatch
  BY <1>1, UnchangedRowsKept
<1>3. ASSUME NEW v \in Workers PROVE ~SurfaceStrandedWorker("boot", v) /\ ~SurfaceStrandedWorker("watchdog", v)
  BY <1>0, <1>1, <1>2, SurfacedIs DEF SurfaceStrandedWorker, StillStranded
<1>4. ASSUME NEW v \in Workers, RecordWorkerResult(v) \/ RecordWorkerFailed(v) PROVE FALSE
  <2>1. PICK at \in Int \cup {None} : Dispatched(v) /\ Flip(v, at)
    <3>1. now \in Int /\ (Dispatched(v) => dispatch[v].failedAt \in Int \cup {None})
      BY <1>0, StoredIsRow DEF Dispatched, Row, TypeOK
    <3>2. Dispatched(v) /\ (Flip(v, dispatch[v].failedAt) \/ Flip(v, now))
      BY <1>2, <1>4 DEF RecordWorkerResult, RecordWorkerFailed
    <3>. QED BY <3>1, <3>2
  <2>. QED BY <1>0, <1>1, <2>1, FlipIs
<1>5. PICK l \in Lanes : /\ lanes[l].pc = "claimed" /\ MayStore(lanes[l])
                         /\ dispatch' = [dispatch EXCEPT ![lanes[l].worker] = NewRow(lanes[l])]
  BY <1>2, <1>3, <1>4, StepsOfRows, Zenon
<1>6. dispatch'[w] = NewRow(lanes[l])
  BY <1>0, <1>2, <1>5 DEF TypeOK, Stored
<1>. QED BY <1>5, <1>6

(* What a step that stores a worker is bounded by. *)
LEMMA StoredWithinBounds ==
    ASSUME WdInv, FailuresAreCharged, [Next]_vars, NEW w \in Workers, ~Stored(w), dispatch'[w] # None
    PROVE  /\ dispatch'[w].parent \in Workers => Dispatched(dispatch'[w].parent)
           /\ Cardinality(Failed(dispatch'[w].connector, now - Window)) < Limit
<1>1. PICK l \in Lanes : lanes[l].pc = "claimed" /\ MayStore(lanes[l]) /\ dispatch'[w] = NewRow(lanes[l])
  BY RowsComeFromCommissions
<1> DEFINE lane == lanes[l]
           c == ConnectorOf[RootOf(lane.parent)]
<1>2. /\ dispatch'[w].parent = lane.parent /\ dispatch'[w].connector = c
  BY <1>1 DEF NewRow
<1>3. /\ lane.parent \in Grants /\ (lane.parent \in Workers => Stored(lane.parent)) /\ c # None
  BY <1>1 DEF WdInv, LanesStand, LaneStands, Assigned
<1>4. lane.parent \in Workers => Dispatched(lane.parent)
  <2>1. lane.parent \in Workers => Stored(lane.parent) /\ ~Terminal(lane.parent) /\ dispatch[lane.parent] \in Row
    BY <1>1, <1>3, StoredIsRow DEF MayStore, WdInv
  <2>. QED BY <2>1 DEF Dispatched, Terminal, Row
<1>5. c \in Connectors /\ now - Window \in Int
  <2>1. RootOf(lane.parent) \in Masters
    BY <1>3, RootIsMaster DEF WdInv
  <2>. QED BY <1>3, <2>1, WorkerAssumption DEF WdInv, TypeOK
<1>6. Cardinality(Charged(c, now - Window)) < Limit
  BY <1>1 DEF MayStore, RecentFailures, Charged
<1>7. Cardinality(Failed(c, now - Window)) < Limit
  <2>1. /\ IsFiniteSet(Failed(c, now - Window)) /\ IsFiniteSet(Charged(c, now - Window))
        /\ Cardinality(Failed(c, now - Window)) <= Cardinality(Charged(c, now - Window))
    <3>1. ledger \in Seq(Charges)
      BY DEF WdInv, TypeOK, Charges
    <3>2. IsFiniteSet(Charged(c, now - Window))
      <4>1. Charged(c, now - Window) \in SUBSET DOMAIN ledger
        BY DEF Charged
      <4>. QED BY <3>1, <4>1, EntriesAreFinite
    <3>. QED BY <1>5, <3>2 DEF FailuresAreCharged
  <2>2. Cardinality(Failed(c, now - Window)) \in Nat /\ Cardinality(Charged(c, now - Window)) \in Nat
    BY <2>1, FS_CardinalityType
  <2>. QED BY <1>6, <2>1, <2>2, WorkerAssumption
<1>. QED BY <1>2, <1>4, <1>7

LEMMA ChargesInit == Init => FailuresAreCharged
<1> SUFFICES ASSUME Init, NEW c \in Connectors, NEW t \in Int
             PROVE  IsFiniteSet(Failed(c, t)) /\ Cardinality(Failed(c, t)) <= Cardinality(Charged(c, t))
  BY DEF FailuresAreCharged
<1>1. Failed(c, t) = {}
  BY DEF Init, Failed, Stored, LegacyRow
<1>2. Charged(c, t) = {}
  BY DEF Init, Charged
<1>. QED BY <1>1, <1>2, FS_EmptySet

(* A settled worker commissions nobody, though it was settled after its request passed
   authentication, and no worker is stored for a connector whose failed rows reach the cap
   (record_worker_commissioned reads parent and ledger again in its own transaction). *)
THEOREM CommissionsStayBounded == Spec => CommissionsAreBounded
<1> DEFINE Parents(w) == /\ ~Stored(w) /\ dispatch'[w] # None /\ dispatch'[w].parent \in Workers
                         => Dispatched(dispatch'[w].parent)
           Cap(w) == ~Stored(w) /\ dispatch'[w] # None =>
                       Cardinality({v \in Workers :
                           /\ Stored(v) /\ dispatch[v].connector = dispatch'[w].connector
                           /\ dispatch[v].failedAt # None
                           /\ dispatch[v].failedAt > now - Window}) < Limit
<1>1. Spec => [](WdInv /\ FailuresAreCharged)
  <2>1. Init => WdInv /\ FailuresAreCharged
    BY WdInit, ChargesInit
  <2>2. (WdInv /\ FailuresAreCharged) /\ [Next]_vars => (WdInv /\ FailuresAreCharged)'
    BY WdStep, ChargesStep
  <2>. QED BY <2>1, <2>2, PTL DEF Spec
<1>2. WdInv /\ FailuresAreCharged /\ [Next]_vars =>
        [\A w \in Workers : Parents(w)]_vars /\ [\A w \in Workers : Cap(w)]_vars
  BY StoredWithinBounds DEF Failed
<1>. QED BY <1>1, <1>2, PTL DEF Spec, CommissionsAreBounded, TerminalCommissionsNothing, CapCountsEveryFailure

------------------------------------------------------------------------------
(* Stranded workers *)

(* Only the sweeps' last step writes notices. *)
LEMMA NoticesStay ==
    ASSUME [Next]_vars
    PROVE  \/ notices' = notices
           \/ \E s \in {"boot", "watchdog"}, w \in Workers : SurfaceStrandedWorker(s, w)
<1>1. CASE vars' = vars
  BY <1>1 DEF vars
<1>2. CASE \E l \in Lanes : LaneStep(l)
  <2>. PICK l \in Lanes : LaneStep(l)
    BY <1>2
  <2>1. CASE SuperviseFailure(l) \/ RecordWorkerCommissioned(l)
    BY <2>1 DEF SuperviseFailure, RecordWorkerCommissioned
  <2>2. CASE ReceiptCheck(l) \/ (\E w \in Workers : Admit(l, w)) \/ RefuseAdmission(l) \/ ClaimConversation(l)
    BY <2>2 DEF ReceiptCheck, Admit, RefuseAdmission, ClaimConversation, tables
  <2>3. CASE ResolveReceipt(l) \/ InspectExit(l) \/ FinishCommission(l)
    BY <2>3 DEF ResolveReceipt, InspectExit, FinishCommission, tables
  <2>. QED BY <2>1, <2>2, <2>3 DEF LaneStep
<1>3. CASE \E l \in Lanes, g \in Grants, rc \in Receipts, rq \in Requests : Authenticate(l, g, rc, rq)
  BY <1>3 DEF Authenticate, tables
<1>4. CASE \E l \in Lanes : CallerDisconnects(l)
  BY <1>4 DEF CallerDisconnects
<1>5. CASE \E w \in Workers : HandleReportResult(w) \/ HandleWorkerFailed(w)
  BY <1>5 DEF HandleReportResult, HandleWorkerFailed
<1>6. CASE \E w \in Workers, status \in {"ok", "error"} : ShellExits(w, status)
  <2>1. UNCHANGED tables
    BY <1>6, Zenon DEF ShellExits
  <2>. QED BY <2>1 DEF tables
<1>7. CASE \/ BootSweep \/ WatchdogSweep \/ Tick \/ Crash \/ KernelExits
           \/ \E w \in Workers, kind \in {"worker.result", "worker.failed"} : WorkerCalls(w, kind)
           \/ \E s \in {"boot", "watchdog"}, w \in Workers : SkipStrandedWorker(s, w)
  BY <1>7 DEF BootSweep, WatchdogSweep, Tick, Crash, KernelExits, Restart, WorkerCalls, SkipStrandedWorker, tables
<1>. QED BY <1>1, <1>2, <1>3, <1>4, <1>5, <1>6, <1>7, Zenon DEF Next

(* A row is marked by that step alone; a row just stored is unmarked. *)
LEMMA MarksStay ==
    ASSUME WdInv, [Next]_vars, NEW w \in Workers,
           \A s \in {"boot", "watchdog"}, v \in Workers : ~SurfaceStrandedWorker(s, v)
    PROVE  Stored(w)' /\ dispatch'[w].surfaced <=> Stored(w) /\ dispatch[w].surfaced
<1>0. dispatch \in [Workers -> Row \cup {None}] /\ \A r \in Row : r # None
  BY RowIsStored DEF WdInv, TypeOK
<1>1. CASE dispatch' = dispatch
  BY <1>1 DEF Stored
<1>2. ASSUME NEW v \in Workers, RecordWorkerResult(v) \/ RecordWorkerFailed(v), dispatch' # dispatch
      PROVE  Stored(w)' /\ dispatch'[w].surfaced <=> Stored(w) /\ dispatch[w].surfaced
  <2>1. PICK at : Dispatched(v) /\ Flip(v, at)
    BY <1>2 DEF RecordWorkerResult, RecordWorkerFailed
  <2>2. dispatch[v] \in Row
    BY <1>0, <2>1 DEF Dispatched, Stored
  <2>3. dispatch'[w] = dispatch[w] \/ (w = v /\ dispatch'[w] = [dispatch[v] EXCEPT !.state = "terminal", !.failedAt = at])
    BY <1>0, <2>1 DEF Flip
  <2>4. [dispatch[v] EXCEPT !.state = "terminal", !.failedAt = at].surfaced = dispatch[v].surfaced
    BY <2>2 DEF Row
  <2>5. Stored(v)'
    <3>1. now \in Int /\ dispatch[v].failedAt \in Int \cup {None}
      BY <2>2 DEF WdInv, TypeOK, Row
    <3>2. \E t \in Int \cup {None} : Flip(v, t)
      BY <1>2, <3>1 DEF RecordWorkerResult, RecordWorkerFailed
    <3>. QED BY <2>1, <3>2, FlipIs DEF Terminal, WdInv
  <2>6. CASE dispatch'[w] = dispatch[w]
    BY <2>6 DEF Stored
  <2>7. CASE w = v /\ dispatch'[w].surfaced = dispatch[v].surfaced
    BY <2>1, <2>5, <2>7 DEF Dispatched
  <2>. QED BY <2>3, <2>4, <2>6, <2>7
<1>3. ASSUME NEW l \in Lanes, lanes[l].pc = "claimed",
             dispatch' = [dispatch EXCEPT ![lanes[l].worker] = NewRow(lanes[l])]
      PROVE  Stored(w)' /\ dispatch'[w].surfaced <=> Stored(w) /\ dispatch[w].surfaced
  <2>1. ~Stored(lanes[l].worker)
    BY <1>3 DEF WdInv, LanesStand, LaneStands
  <2>2. dispatch'[w] = dispatch[w] \/ (w = lanes[l].worker /\ dispatch'[w] = NewRow(lanes[l]))
    BY <1>0, <1>3
  <2>3. ~NewRow(lanes[l]).surfaced
    BY DEF NewRow
  <2>. QED BY <2>1, <2>2, <2>3 DEF Stored
<1>. QED BY <1>1, <1>2, <1>3, StepsOfRows, Zenon

LEMMA NoticesStep == WdInv /\ StrandedNoticeOnce /\ [Next]_vars => StrandedNoticeOnce'
<1>. SUFFICES ASSUME WdInv, StrandedNoticeOnce, [Next]_vars,
                     NEW w \in Workers
              PROVE  notices'[w] = IF Stored(w)' /\ dispatch'[w].surfaced THEN 1 ELSE 0
  BY DEF StrandedNoticeOnce
<1>0. notices[w] = IF Stored(w) /\ dispatch[w].surfaced THEN 1 ELSE 0
  BY DEF StrandedNoticeOnce
<1>1. CASE \A s \in {"boot", "watchdog"}, v \in Workers : ~SurfaceStrandedWorker(s, v)
  BY <1>0, <1>1, NoticesStay, MarksStay
<1>2. ASSUME NEW s \in {"boot", "watchdog"}, NEW v \in Workers, SurfaceStrandedWorker(s, v)
      PROVE  notices'[w] = IF Stored(w)' /\ dispatch'[w].surfaced THEN 1 ELSE 0
  <2>0. notices \in [Workers -> Nat] /\ dispatch \in [Workers -> Row \cup {None}]
    BY DEF WdInv, TypeOK
  <2>1. CASE ~StillStranded(v)
    BY <1>0, <1>2, <2>1 DEF SurfaceStrandedWorker, Stored
  <2>2. CASE StillStranded(v) /\ w # v
    BY <1>0, <1>2, <2>0, <2>2 DEF SurfaceStrandedWorker, Stored
  <2>3. CASE StillStranded(v) /\ w = v
    <3>1. Stored(w) /\ ~dispatch[w].surfaced /\ dispatch[w] \in Row
      BY <2>0, <2>3 DEF StillStranded, Dispatched, Stored
    <3>2. notices[w] = 0 /\ notices' = [notices EXCEPT ![w] = @ + 1]
          /\ dispatch' = [dispatch EXCEPT ![w].surfaced = TRUE]
      BY <1>0, <1>2, <2>3, <3>1 DEF SurfaceStrandedWorker
    <3>3. notices'[w] = 1
      BY <2>0, <3>2
    <3>4. dispatch'[w] = [dispatch[w] EXCEPT !.surfaced = TRUE]
      BY <2>0, <3>2
    <3>5. dispatch'[w] \in Row /\ dispatch'[w].surfaced
      BY <3>1, <3>4 DEF Row
    <3>. QED BY <3>3, <3>5, RowIsStored DEF Stored
  <2>. QED BY <2>1, <2>2, <2>3
<1>. QED BY <1>1, <1>2

(* The owner has one notice of a worker exactly when its row is marked as shown, though
   the boot sweep and the watchdog list it independently (surface_stranded_worker commits
   notice and mark together, and looks at the row again). *)
THEOREM StrandedShownOnce == Spec => []StrandedNoticeOnce
<1>1. Init => WdInv /\ StrandedNoticeOnce
  <2>1. Init => StrandedNoticeOnce
    BY DEF Init, StrandedNoticeOnce, Stored, LegacyRow
  <2>. QED BY <2>1, WdInit
<1>2. (WdInv /\ StrandedNoticeOnce) /\ [Next]_vars => (WdInv /\ StrandedNoticeOnce)'
  BY WdStep, NoticesStep
<1>. QED BY <1>1, <1>2, PTL DEF Spec

-----------------------------------------------------------------------------
(***************************************************************************)
(* Surfacing of failures, for any number of messages, callers and items.   *)
(*                                                                         *)
(* Nothing locks a message against the retry driver.  What keeps a receipt *)
(* true is that a message has one caller until its outcome is recorded,    *)
(* that only the record of a failed sending makes a dead letter, and that  *)
(* only its completion, or a sent outcome, writes the notification.        *)
(***************************************************************************)

MsgType ==
    [kind : {"escalation", "immediate", "digest", "detail", "over"},
     shows : SUBSET ItemIds, landed : BOOLEAN, notified : {0, 1}, told : BOOLEAN,
     escalated : BOOLEAN, ready : BOOLEAN,
     outcome : {"none", "sent", "skipped", "send_failed", "unrecorded", "persist_failed"},
     row : {"none", "pending", "in_progress", "resolved"}]

CallType ==
    [pc : {"send", "record", "bury", "unrecorded", "persist_failed", "after"}, m : MsgIds]

FsTyped ==
    /\ fsMsgs \in [MsgIds -> MsgType \cup {NoMsg}]
    /\ fsItems \in [ItemIds -> {"none", "open", "resolved"}]
    /\ fsCalls \in [Callers -> {Rest} \cup CallType]
    /\ fsRetry \in {Rest} \cup [pc : {"send", "reschedule", "complete"}, m : MsgIds]

(* The messages are numbered without a gap. *)
Numbered == \E k \in Nat : Sent = 1..k

(* What a message says of itself agrees: it has a dead letter if sending failed, and
   the log has "notified" of a message that was sent or whose dead letter is done. *)
MsgStands(m) ==
    /\ m.row = "none" <=> m.outcome # "send_failed"
    /\ m.notified = 1 <=> m.outcome = "sent" \/ m.row = "resolved"
    /\ m.notified = 1 => m.landed
    /\ m.escalated => m.outcome = "sent"
    /\ m.outcome = "persist_failed" => m.told
MsgsStand == \A m \in Sent : MsgStands(fsMsgs[m])

(* A message has one caller until he has its outcome. *)
CallsStand ==
    \A c \in Callers : fsCalls[c] # Rest =>
        /\ fsCalls[c].m \in Sent
        /\ fsCalls[c].pc # "after" => fsMsgs[fsCalls[c].m].outcome = "none"
        /\ fsCalls[c].pc = "record" => fsMsgs[fsCalls[c].m].landed
        /\ \A d \in Callers \ {c} : fsCalls[d] # Rest => fsCalls[d].m # fsCalls[c].m

(* The row the loop has claimed is in progress. *)
RetryStands ==
    fsRetry # Rest =>
        /\ fsRetry.m \in Sent /\ fsMsgs[fsRetry.m].row = "in_progress"
        /\ fsRetry.pc = "complete" => fsMsgs[fsRetry.m].landed

FsInv == FsTyped /\ Numbered /\ MsgsStand /\ CallsStand /\ RetryStands /\ ResolvedWereShown

-----------------------------------------------------------------------------
LEMMA NoMsgIsNone == NoMsg \notin MsgType
<1>. \A r \in MsgType : r.kind # "none"
  BY DEF MsgType
<1>. NoMsg.kind = "none"
  BY DEF NoMsg
<1>. QED OBVIOUS

LEMMA SentAre ==
    ASSUME FsTyped, NEW m \in Sent
    PROVE  m \in MsgIds /\ fsMsgs[m] \in MsgType
BY DEF FsTyped, Sent

LEMMA CallIs ==
    ASSUME FsInv, NEW c \in Callers, fsCalls[c].pc # "idle"
    PROVE  /\ fsCalls[c] # Rest /\ fsCalls[c].m \in Sent
           /\ fsCalls[c] \in CallType
BY DEF FsInv, FsTyped, CallsStand, Rest

LEMMA RetryIs ==
    ASSUME FsInv, fsRetry.pc # "idle"
    PROVE  /\ fsRetry # Rest /\ fsRetry.m \in Sent /\ fsMsgs[fsRetry.m].row = "in_progress"
           /\ fsRetry \in [pc : {"send", "reschedule", "complete"}, m : MsgIds]
BY DEF FsInv, FsTyped, RetryStands, Rest

(* One message is written: the others, their number and what they show stay. *)
LEMMA OneWritten ==
    ASSUME FsInv, NEW n \in Sent, NEW r \in MsgType, fsMsgs' = [fsMsgs EXCEPT ![n] = r],
           MsgStands(r), r.shows = fsMsgs[n].shows, fsMsgs[n].landed => r.landed
    PROVE  /\ fsMsgs' \in [MsgIds -> MsgType \cup {NoMsg}]
           /\ Sent' = Sent /\ Numbered' /\ MsgsStand'
           /\ fsMsgs'[n] = r /\ \A m \in Sent \ {n} : fsMsgs'[m] = fsMsgs[m]
           /\ \A m \in Sent : fsMsgs'[m].shows = fsMsgs[m].shows
                              /\ (fsMsgs[m].landed => fsMsgs'[m].landed)
<1>1. n \in MsgIds /\ fsMsgs \in [MsgIds -> MsgType \cup {NoMsg}]
  BY SentAre DEF FsInv, FsTyped
<1>2. fsMsgs' \in [MsgIds -> MsgType \cup {NoMsg}] /\ fsMsgs'[n] = r
      /\ \A m \in MsgIds \ {n} : fsMsgs'[m] = fsMsgs[m]
  BY <1>1
<1>3. Sent' = Sent
  BY <1>1, <1>2, NoMsgIsNone DEF Sent
<1>4. Numbered'
  BY <1>3 DEF Numbered, FsInv
<1>5. MsgsStand'
  <2>1. ASSUME NEW m \in Sent PROVE MsgStands(fsMsgs'[m])
    <3>1. CASE m = n
      BY <1>2, <3>1
    <3>2. CASE m # n
      <4>1. fsMsgs'[m] = fsMsgs[m]
        BY <1>2, <3>2 DEF Sent
      <4>. QED BY <4>1 DEF FsInv, MsgsStand
    <3>. QED BY <3>1, <3>2
  <2>. QED BY <1>3, <2>1 DEF MsgsStand
<1>. QED BY <1>2, <1>3, <1>4, <1>5 DEF Sent

(* No item is resolved by the step, and no message gone. *)
LEMMA ShownStay ==
    ASSUME FsInv, \A m \in Sent : m \in Sent' /\ fsMsgs'[m].shows = fsMsgs[m].shows
                                  /\ (fsMsgs[m].landed => fsMsgs'[m].landed),
           \A i \in ItemIds : fsItems'[i] = "resolved" => fsItems[i] = "resolved"
    PROVE  ResolvedWereShown'
BY DEF FsInv, ResolvedWereShown

LEMMA ItemsTyped ==
    ASSUME FsTyped
    PROVE  /\ WithItem \in [ItemIds -> {"none", "open", "resolved"}]
           /\ \A i \in ItemIds : WithItem[i] = "resolved" => fsItems[i] = "resolved"
           /\ \A S : Resolved(S) \in [ItemIds -> {"none", "open", "resolved"}]
           /\ \A S : \A i \in ItemIds : Resolved(S)[i] = "resolved" => i \in S \/ fsItems[i] = "resolved"
<1>1. fsItems \in [ItemIds -> {"none", "open", "resolved"}]
  BY DEF FsTyped
<1>2. WithItem \in [ItemIds -> {"none", "open", "resolved"}]
      /\ \A i \in ItemIds : WithItem[i] = "resolved" => fsItems[i] = "resolved"
  BY <1>1 DEF WithItem
<1>. QED BY <1>1, <1>2 DEF Resolved

LEMMA SurfacingStarts ==
    ASSUME FsInit
    PROVE  FsInv
<1>1. Sent = {}
  BY DEF FsInit, Sent
<1>2. Sent = 1..0
  BY <1>1
<1>3. FsTyped
  BY DEF FsInit, FsTyped
<1>4. ResolvedWereShown
  BY DEF FsInit, ResolvedWereShown
<1>. QED BY <1>1, <1>2, <1>3, <1>4 DEF FsInit, FsInv, Numbered, MsgsStand, CallsStand, RetryStands

(* A step of caller c writes his message n as r and leaves him at call. *)
LEMMA CallerWrites ==
    ASSUME FsInv, NEW c \in Callers, fsCalls[c].pc # "idle", NEW n, n = fsCalls[c].m,
           NEW r \in MsgType, NEW call \in {Rest} \cup CallType,
           fsMsgs' = [fsMsgs EXCEPT ![n] = r], MsgStands(r),
           r.shows = fsMsgs[n].shows, fsMsgs[n].landed => r.landed,
           r.row = "in_progress" <=> fsMsgs[n].row = "in_progress",
           fsCalls' = [fsCalls EXCEPT ![c] = call],
           call # Rest => /\ call.m = n
                          /\ call.pc # "after" => r.outcome = "none"
                          /\ call.pc = "record" => r.landed,
           UNCHANGED fsRetry,
           fsItems' \in [ItemIds -> {"none", "open", "resolved"}],
           \A i \in ItemIds : fsItems'[i] = "resolved" => fsItems[i] = "resolved" \/ (i \in r.shows /\ r.landed)
    PROVE  FsInv'
<1>1. n \in Sent /\ fsCalls[c] \in CallType /\ fsCalls[c] # Rest
  BY CallIs
<1>2. /\ fsMsgs' \in [MsgIds -> MsgType \cup {NoMsg}]
      /\ Sent' = Sent /\ Numbered' /\ MsgsStand'
      /\ fsMsgs'[n] = r /\ \A m \in Sent \ {n} : fsMsgs'[m] = fsMsgs[m]
      /\ \A m \in Sent : fsMsgs'[m].shows = fsMsgs[m].shows
                         /\ (fsMsgs[m].landed => fsMsgs'[m].landed)
  BY <1>1, OneWritten
<1>3. /\ fsCalls'[c] = call /\ \A d \in Callers \ {c} : fsCalls'[d] = fsCalls[d]
      /\ fsCalls' \in [Callers -> {Rest} \cup CallType]
  BY <1>1 DEF FsInv, FsTyped
<1>4. FsTyped'
  BY <1>2, <1>3 DEF FsInv, FsTyped
<1>5. CallsStand'
  <2>. SUFFICES ASSUME NEW d \in Callers, fsCalls'[d] # Rest
                PROVE  /\ fsCalls'[d].m \in Sent
                       /\ fsCalls'[d].pc # "after" => fsMsgs'[fsCalls'[d].m].outcome = "none"
                       /\ fsCalls'[d].pc = "record" => fsMsgs'[fsCalls'[d].m].landed
                       /\ \A e \in Callers \ {d} : fsCalls'[e] # Rest => fsCalls'[e].m # fsCalls'[d].m
    BY <1>2 DEF CallsStand
  <2>1. CASE d = c
    <3>1. ASSUME NEW e \in Callers \ {c}, fsCalls'[e] # Rest PROVE fsCalls'[e].m # n
      BY <1>3, <3>1, CallIs DEF FsInv, CallsStand
    <3>. QED BY <1>1, <1>2, <1>3, <2>1, <3>1
  <2>2. CASE d # c
    <3>1. fsCalls'[d] = fsCalls[d] /\ fsCalls[d] # Rest /\ fsCalls[d].m # n /\ fsCalls[d].m \in Sent
      BY <1>3, <2>2, CallIs DEF FsInv, CallsStand
    <3>2. fsMsgs'[fsCalls[d].m] = fsMsgs[fsCalls[d].m]
      BY <1>2, <3>1
    <3>3. \A e \in Callers \ {d} : fsCalls'[e] # Rest => fsCalls'[e].m # fsCalls[d].m
      BY <1>3, <2>2, <3>1 DEF FsInv, CallsStand
    <3>. QED BY <3>1, <3>2, <3>3 DEF FsInv, CallsStand
  <2>. QED BY <2>1, <2>2
<1>6. RetryStands'
  <2>1. CASE fsRetry = Rest
    BY <2>1 DEF RetryStands
  <2>2. CASE fsRetry # Rest
    BY <1>1, <1>2, <2>2 DEF FsInv, RetryStands
  <2>. QED BY <2>1, <2>2
<1>7. ResolvedWereShown'
  <2>. SUFFICES ASSUME NEW i \in ItemIds, fsItems'[i] = "resolved"
                PROVE  \E m \in Sent : fsMsgs'[m].landed /\ i \in fsMsgs'[m].shows
    BY <1>2 DEF ResolvedWereShown
  <2>1. CASE i \in r.shows /\ r.landed
    BY <1>1, <1>2, <2>1
  <2>2. CASE fsItems[i] = "resolved"
    BY <1>2, <2>2 DEF FsInv, ResolvedWereShown
  <2>. QED BY <2>1, <2>2
<1>. QED BY <1>2, <1>4, <1>5, <1>6, <1>7 DEF FsInv

LEMMA CallerStands ==
    ASSUME FsInv, NEW c \in Callers,
           CallerStep(c) \/ Skip(c) \/ RecordFails(c) \/ Conclude(c, FALSE)
    PROVE  FsInv'
<1>. DEFINE n == fsCalls[c].m
            Call(pc) == [pc |-> pc, m |-> n]
<1>0. \A S : Resolved(S) \in [ItemIds -> {"none", "open", "resolved"}]
  BY ItemsTyped DEF FsInv
<1>9. fsItems \in [ItemIds -> {"none", "open", "resolved"}]
  BY DEF FsInv, FsTyped
<1>8. fsCalls[c].pc # "idle" => n \in Sent /\ n \in MsgIds /\ fsMsgs[n] \in MsgType /\ MsgStands(fsMsgs[n])
                    /\ (fsCalls[c].pc # "after" => fsMsgs[n].outcome = "none")
                    /\ (fsCalls[c].pc = "record" => fsMsgs[n].landed)
                    /\ fsMsgs \in [MsgIds -> MsgType \cup {NoMsg}]
                    /\ fsCalls[c] \in CallType
  BY CallIs, SentAre DEF FsInv, FsTyped, MsgsStand, CallsStand
<1>7. ASSUME NEW pc PROVE fsCalls[c] \in CallType =>
                        [fsCalls EXCEPT ![c].pc = pc] = [fsCalls EXCEPT ![c] = Call(pc)]
  <2>. SUFFICES ASSUME fsCalls[c] \in CallType
                PROVE  [fsCalls[c] EXCEPT !.pc = pc] = Call(pc)
    OBVIOUS
  <2>. QED BY DEF CallType
<1>10. \A pc \in {"send", "record", "bury", "unrecorded", "persist_failed", "after"} :
          n \in MsgIds => Call(pc) \in CallType /\ Call(pc).m = n /\ Call(pc).pc = pc
  BY DEF CallType
<1>. HIDE DEF Call
<1>1. ASSUME NEW landed \in BOOLEAN, NEW ok \in BOOLEAN, Send(c, landed, ok) PROVE FsInv'
  <2>. DEFINE r == [fsMsgs[n] EXCEPT !.landed = @ \/ landed]
              pc == IF ok THEN "record" ELSE "bury"
  <2>1. fsCalls[c].pc = "send" /\ (ok => landed)
    BY <1>1 DEF Send, Answers
  <2>2. r \in MsgType /\ MsgStands(r) /\ r.shows = fsMsgs[n].shows /\ (fsMsgs[n].landed => r.landed)
        /\ r.row = fsMsgs[n].row /\ r.outcome = "none" /\ (ok => r.landed)
    BY <1>8, <2>1 DEF MsgType, MsgStands
  <2>3. fsMsgs' = [fsMsgs EXCEPT ![n] = r] /\ fsCalls' = [fsCalls EXCEPT ![c] = Call(pc)]
        /\ UNCHANGED <<fsItems, fsRetry>>
    BY <1>1, <1>7, <1>8, <2>1 DEF Send
  <2>. HIDE DEF r
  <2>. QED BY <1>8, <1>9, <1>10, <2>1, <2>2, <2>3, CallerWrites
<1>2. CASE RecordSuccess(c)
  <2>. DEFINE r == [fsMsgs[n] EXCEPT !.notified = @ + 1, !.outcome = "sent"]
  <2>1. fsCalls[c].pc = "record"
    BY <1>2 DEF RecordSuccess
  <2>5. fsMsgs[n].notified = 0 /\ fsMsgs[n].row = "none"
    BY <1>8, <2>1 DEF MsgType, MsgStands
  <2>2. r \in MsgType /\ MsgStands(r) /\ r.shows = fsMsgs[n].shows /\ (fsMsgs[n].landed => r.landed)
        /\ r.row = fsMsgs[n].row /\ r.landed
    <3>1. r.notified = 1 /\ r.outcome = "sent" /\ r.row = "none" /\ r.landed
      BY <1>8, <2>1, <2>5 DEF MsgType
    <3>2. r \in MsgType
      <4>1. r = [fsMsgs[n] EXCEPT !.notified = 1, !.outcome = "sent"]
        BY <2>5
      <4>. QED BY <1>8, <2>1, <4>1 DEF MsgType
    <3>3. r.shows = fsMsgs[n].shows /\ r.escalated = fsMsgs[n].escalated
      BY <1>8 DEF MsgType
    <3>. HIDE DEF r
    <3>. QED BY <1>8, <2>5, <3>1, <3>2, <3>3 DEF MsgStands
  <2>3. fsMsgs' = [fsMsgs EXCEPT ![n] = r] /\ fsCalls' = [fsCalls EXCEPT ![c] = Call("after")]
        /\ fsItems' = Resolved(fsMsgs[n].shows) /\ UNCHANGED fsRetry
    BY <1>2, <1>7, <1>8, <2>1 DEF RecordSuccess
  <2>4. \A i \in ItemIds : fsItems'[i] = "resolved" => fsItems[i] = "resolved" \/ (i \in r.shows /\ r.landed)
    BY <2>2, <2>3 DEF Resolved
  <2>6. Call("after") \in CallType /\ Call("after").m = n /\ Call("after").pc = "after"
        /\ fsItems' \in [ItemIds -> {"none", "open", "resolved"}] /\ fsCalls[c].pc # "idle"
    BY <1>0, <1>8, <1>10, <2>1, <2>3
  <2>. HIDE DEF r
  <2>. QED BY <2>2, <2>3, <2>4, <2>6, CallerWrites
<1>3. CASE RecordFailure(c)
  <2>. DEFINE r == [fsMsgs[n] EXCEPT !.row = "pending", !.ready = TRUE, !.outcome = "send_failed"]
  <2>1. fsCalls[c].pc = "bury"
    BY <1>3 DEF RecordFailure
  <2>2. r \in MsgType /\ MsgStands(r) /\ r.shows = fsMsgs[n].shows /\ (fsMsgs[n].landed => r.landed)
        /\ r.row # "in_progress" /\ fsMsgs[n].row # "in_progress"
    BY <1>8, <2>1 DEF MsgType, MsgStands
  <2>3. fsMsgs' = [fsMsgs EXCEPT ![n] = r] /\ fsCalls' = [fsCalls EXCEPT ![c] = Call("after")]
        /\ UNCHANGED <<fsItems, fsRetry>>
    BY <1>3, <1>7, <1>8, <2>1 DEF RecordFailure
  <2>. HIDE DEF r
  <2>. QED BY <1>8, <1>9, <1>10, <2>1, <2>2, <2>3, CallerWrites
<1>4. CASE TellDigest(c)
  <2>. DEFINE r == [fsMsgs[n] EXCEPT !.outcome = fsCalls[c].pc, !.told = TRUE]
  <2>1. fsCalls[c].pc \in {"unrecorded", "persist_failed"}
    BY <1>4 DEF TellDigest
  <2>2. r \in MsgType /\ MsgStands(r) /\ r.shows = fsMsgs[n].shows /\ (fsMsgs[n].landed => r.landed)
        /\ r.row = fsMsgs[n].row
    BY <1>8, <2>1 DEF MsgType, MsgStands
  <2>3. fsMsgs' = [fsMsgs EXCEPT ![n] = r] /\ fsCalls' = [fsCalls EXCEPT ![c] = Call("after")]
        /\ fsItems' = WithItem /\ UNCHANGED fsRetry
    BY <1>4, <1>7, <1>8, <2>1 DEF TellDigest
  <2>4. fsItems' \in [ItemIds -> {"none", "open", "resolved"}]
        /\ \A i \in ItemIds : fsItems'[i] = "resolved" => fsItems[i] = "resolved"
    BY <2>3, ItemsTyped DEF FsInv
  <2>6. Call("after") \in CallType /\ Call("after").m = n /\ Call("after").pc = "after"
        /\ fsCalls[c].pc # "idle"
    BY <1>8, <1>10, <2>1
  <2>. HIDE DEF r
  <2>. QED BY <2>2, <2>3, <2>4, <2>6, CallerWrites
<1>5. CASE Skip(c)
  <2>. DEFINE r == [fsMsgs[n] EXCEPT !.outcome = "skipped"]
  <2>1. fsCalls[c].pc = "send"
    BY <1>5 DEF Skip
  <2>2. r \in MsgType /\ MsgStands(r) /\ r.shows = fsMsgs[n].shows /\ (fsMsgs[n].landed => r.landed)
        /\ r.row = fsMsgs[n].row
    BY <1>8, <2>1 DEF MsgType, MsgStands
  <2>3. fsMsgs' = [fsMsgs EXCEPT ![n] = r] /\ fsCalls' = [fsCalls EXCEPT ![c] = Call("after")]
        /\ UNCHANGED <<fsItems, fsRetry>>
    BY <1>5, <1>7, <1>8, <2>1 DEF Skip, Set
  <2>. HIDE DEF r
  <2>. QED BY <1>8, <1>9, <1>10, <2>1, <2>2, <2>3, CallerWrites
<1>6. CASE RecordFails(c)
  <2>. DEFINE pc == IF fsCalls[c].pc = "record" THEN "unrecorded" ELSE "persist_failed"
  <2>1. fsCalls[c].pc \in {"record", "bury"}
    BY <1>6 DEF RecordFails
  <2>2. fsMsgs' = [fsMsgs EXCEPT ![n] = fsMsgs[n]] /\ fsCalls' = [fsCalls EXCEPT ![c] = Call(pc)]
        /\ UNCHANGED <<fsItems, fsRetry>>
    BY <1>6, <1>7, <1>8, <2>1 DEF RecordFails
  <2>. QED BY <1>8, <1>9, <1>10, <2>1, <2>2, CallerWrites
<1>11. ASSUME NEW written \in BOOLEAN, Conclude(c, written) PROVE FsInv'
  <2>. DEFINE tells == fsMsgs[n].kind = "immediate" /\ ~Delivered(n) /\ written
              r == [fsMsgs[n] EXCEPT !.kind = "over", !.told = @ \/ tells,
                        !.escalated = fsMsgs[n].kind = "escalation" /\ Delivered(n) /\ written]
  <2>1. fsCalls[c].pc = "after"
    BY <1>11 DEF Conclude
  <2>5. Delivered(n) \in BOOLEAN /\ (Delivered(n) => fsMsgs[n].outcome = "sent")
    BY DEF Delivered
  <2>2. r \in MsgType /\ MsgStands(r) /\ r.shows = fsMsgs[n].shows /\ (fsMsgs[n].landed => r.landed)
        /\ r.row = fsMsgs[n].row
    <3>1. r.notified = fsMsgs[n].notified /\ r.outcome = fsMsgs[n].outcome /\ r.row = fsMsgs[n].row
          /\ r.landed = fsMsgs[n].landed /\ r.shows = fsMsgs[n].shows
          /\ (fsMsgs[n].told => r.told) /\ (r.escalated => Delivered(n))
      BY <1>8, <2>1 DEF MsgType
    <3>2. r \in MsgType
      BY <1>8, <2>1, <2>5, <1>11 DEF MsgType
    <3>. HIDE DEF r
    <3>. QED BY <1>8, <2>1, <2>5, <3>1, <3>2 DEF MsgStands
  <2>3. fsMsgs' = [fsMsgs EXCEPT ![n] = r] /\ fsCalls' = [fsCalls EXCEPT ![c] = Rest]
        /\ fsItems' = (IF tells THEN WithItem ELSE fsItems) /\ UNCHANGED fsRetry
    BY <1>8, <1>11, <2>1 DEF Conclude
  <2>4. fsItems' \in [ItemIds -> {"none", "open", "resolved"}]
        /\ \A i \in ItemIds : fsItems'[i] = "resolved" => fsItems[i] = "resolved"
    BY <1>9, <2>3, ItemsTyped DEF FsInv
  <2>. HIDE DEF r
  <2>. QED BY <1>8, <2>1, <2>2, <2>3, <2>4, CallerWrites
<1>. QED BY <1>1, <1>2, <1>3, <1>4, <1>5, <1>6, <1>11 DEF CallerStep

(* The retry loop, or the clock, writes message n as r. *)
LEMMA LoopWrites ==
    ASSUME FsInv, NEW n \in Sent, NEW r \in MsgType, fsMsgs' = [fsMsgs EXCEPT ![n] = r],
           MsgStands(r), r.shows = fsMsgs[n].shows, fsMsgs[n].landed => r.landed,
           r.outcome = fsMsgs[n].outcome, UNCHANGED fsCalls,
           fsRetry' \in {Rest} \cup [pc : {"send", "reschedule", "complete"}, m : MsgIds],
           \/ fsRetry' = fsRetry /\ r.row = fsMsgs[n].row
           \/ fsRetry' # Rest => /\ fsRetry'.m = n /\ r.row = "in_progress"
                                 /\ fsRetry'.pc = "complete" => r.landed,
           fsItems' \in [ItemIds -> {"none", "open", "resolved"}],
           \A i \in ItemIds : fsItems'[i] = "resolved" => fsItems[i] = "resolved" \/ (i \in r.shows /\ r.landed)
    PROVE  FsInv'
<1>1. /\ fsMsgs' \in [MsgIds -> MsgType \cup {NoMsg}]
      /\ Sent' = Sent /\ Numbered' /\ MsgsStand'
      /\ fsMsgs'[n] = r /\ \A m \in Sent \ {n} : fsMsgs'[m] = fsMsgs[m]
      /\ \A m \in Sent : fsMsgs'[m].shows = fsMsgs[m].shows
                         /\ (fsMsgs[m].landed => fsMsgs'[m].landed)
  BY OneWritten
<1>2. \A m \in Sent : fsMsgs'[m].outcome = fsMsgs[m].outcome
  BY <1>1
<1>3. FsTyped'
  BY <1>1 DEF FsInv, FsTyped
<1>4. CallsStand'
  BY <1>1, <1>2 DEF FsInv, CallsStand
<1>5. RetryStands'
  <2>1. CASE fsRetry' = fsRetry /\ r.row = fsMsgs[n].row
    BY <1>1, <2>1 DEF FsInv, RetryStands
  <2>2. CASE fsRetry' # Rest => /\ fsRetry'.m = n /\ r.row = "in_progress"
                                /\ fsRetry'.pc = "complete" => r.landed
    BY <1>1, <2>2 DEF RetryStands
  <2>. QED BY <2>1, <2>2
<1>6. ResolvedWereShown'
  <2>. SUFFICES ASSUME NEW i \in ItemIds, fsItems'[i] = "resolved"
                PROVE  \E m \in Sent : fsMsgs'[m].landed /\ i \in fsMsgs'[m].shows
    BY <1>1 DEF ResolvedWereShown
  <2>1. CASE i \in r.shows /\ r.landed
    BY <1>1, <2>1
  <2>2. CASE fsItems[i] = "resolved"
    BY <1>1, <2>2 DEF FsInv, ResolvedWereShown
  <2>. QED BY <2>1, <2>2
<1>. QED BY <1>1, <1>3, <1>4, <1>5, <1>6 DEF FsInv

LEMMA NothingWritten ==
    ASSUME FsInv, UNCHANGED fsMsgs,
           fsItems' \in [ItemIds -> {"none", "open", "resolved"}],
           \A i \in ItemIds : fsItems'[i] = "resolved" => fsItems[i] = "resolved",
           fsCalls' = fsCalls \/ fsCalls' = [c \in Callers |-> Rest],
           \/ fsRetry' \in {fsRetry, Rest}
           \/ fsRetry.pc = "send" /\ fsRetry' = [fsRetry EXCEPT !.pc = "reschedule"]
    PROVE  FsInv'
<1>1. Sent' = Sent /\ MsgsStand' /\ Numbered'
  BY DEF FsInv, Sent, MsgsStand, Numbered
<1>2. CallsStand' /\ fsCalls' \in [Callers -> {Rest} \cup CallType]
  BY <1>1 DEF FsInv, CallsStand, FsTyped
<1>3. RetryStands' /\ fsRetry' \in {Rest} \cup [pc : {"send", "reschedule", "complete"}, m : MsgIds]
  <2>1. CASE fsRetry' \in {fsRetry, Rest}
    BY <1>1, <2>1 DEF FsInv, RetryStands, FsTyped
  <2>2. CASE fsRetry.pc = "send" /\ fsRetry' = [fsRetry EXCEPT !.pc = "reschedule"]
    <3>1. fsRetry \in [pc : {"send", "reschedule", "complete"}, m : MsgIds]
          /\ fsRetry.m \in Sent /\ fsMsgs[fsRetry.m].row = "in_progress"
      BY <2>2, RetryIs
    <3>2. fsRetry' \in [pc : {"send", "reschedule", "complete"}, m : MsgIds]
          /\ fsRetry'.m = fsRetry.m /\ fsRetry'.pc = "reschedule"
      BY <2>2, <3>1
    <3>. QED BY <1>1, <3>1, <3>2 DEF RetryStands
  <2>. QED BY <2>1, <2>2
<1>4. ResolvedWereShown'
  BY <1>1, ShownStay
<1>. QED BY <1>1, <1>2, <1>3, <1>4 DEF FsInv, FsTyped

LEMMA LoopStands ==
    ASSUME FsInv,
           \/ \E m \in MsgIds : TimePasses(m) \/ Claim(m)
           \/ Complete \/ Reschedule
           \/ \E landed, ok \in BOOLEAN : Resend(landed, ok)
    PROVE  FsInv'
<1>1. fsItems \in [ItemIds -> {"none", "open", "resolved"}] /\ fsMsgs \in [MsgIds -> MsgType \cup {NoMsg}]
      /\ \A S : Resolved(S) \in [ItemIds -> {"none", "open", "resolved"}]
  BY ItemsTyped DEF FsInv, FsTyped
<1>2. \A m \in Sent : m \in MsgIds /\ fsMsgs[m] \in MsgType /\ MsgStands(fsMsgs[m])
  BY SentAre DEF FsInv, MsgsStand
<1>3. fsRetry \in {Rest} \cup [pc : {"send", "reschedule", "complete"}, m : MsgIds]
  BY DEF FsInv, FsTyped
<1>4. ASSUME NEW n \in MsgIds, TimePasses(n) PROVE FsInv'
  <2>. DEFINE r == [fsMsgs[n] EXCEPT !.ready = TRUE]
  <2>1. n \in Sent
    BY <1>4 DEF TimePasses, Sent
  <2>2. r \in MsgType /\ MsgStands(r) /\ r.shows = fsMsgs[n].shows /\ r.landed = fsMsgs[n].landed
        /\ r.outcome = fsMsgs[n].outcome /\ r.row = fsMsgs[n].row
    BY <1>2, <2>1 DEF MsgType, MsgStands
  <2>3. fsMsgs' = [fsMsgs EXCEPT ![n] = r] /\ UNCHANGED <<fsItems, fsCalls, fsRetry>>
    BY <1>4 DEF TimePasses, Set
  <2>. HIDE DEF r
  <2>. QED BY <1>1, <1>3, <2>1, <2>2, <2>3, LoopWrites
<1>5. ASSUME NEW n \in MsgIds, Claim(n) PROVE FsInv'
  <2>. DEFINE r == [fsMsgs[n] EXCEPT !.row = "in_progress", !.ready = FALSE]
  <2>1. n \in Sent /\ fsMsgs[n].row \in {"pending", "in_progress"}
    BY <1>5 DEF Claim, Sent
  <2>2. r \in MsgType /\ MsgStands(r) /\ r.shows = fsMsgs[n].shows /\ r.landed = fsMsgs[n].landed
        /\ r.outcome = fsMsgs[n].outcome /\ r.row = "in_progress"
    BY <1>2, <2>1 DEF MsgType, MsgStands
  <2>3. fsMsgs' = [fsMsgs EXCEPT ![n] = r] /\ UNCHANGED <<fsItems, fsCalls>>
        /\ fsRetry' = [pc |-> "send", m |-> n]
    BY <1>1, <1>5, <2>1 DEF Claim
  <2>. HIDE DEF r
  <2>. QED BY <1>1, <2>1, <2>2, <2>3, LoopWrites
<1>6. ASSUME NEW landed \in BOOLEAN, NEW ok \in BOOLEAN, Resend(landed, ok) PROVE FsInv'
  <2>. DEFINE n == fsRetry.m
              r == [fsMsgs[n] EXCEPT !.landed = @ \/ landed]
  <2>1. /\ n \in Sent /\ fsMsgs[n].row = "in_progress" /\ (ok => landed)
        /\ fsRetry \in [pc : {"send", "reschedule", "complete"}, m : MsgIds]
    BY <1>6, RetryIs DEF Resend, Answers
  <2>2. r \in MsgType /\ MsgStands(r) /\ r.shows = fsMsgs[n].shows /\ (fsMsgs[n].landed => r.landed)
        /\ r.outcome = fsMsgs[n].outcome /\ r.row = "in_progress" /\ (ok => r.landed)
    BY <1>2, <2>1 DEF MsgType, MsgStands
  <2>3. fsMsgs' = [fsMsgs EXCEPT ![n] = r] /\ UNCHANGED <<fsItems, fsCalls>>
        /\ fsRetry' = [fsRetry EXCEPT !.pc = IF ok THEN "complete" ELSE "reschedule"]
    BY <1>6 DEF Resend
  <2>4. fsRetry' \in [pc : {"send", "reschedule", "complete"}, m : MsgIds] /\ fsRetry'.m = n
        /\ (fsRetry'.pc = "complete" => ok)
    BY <2>1, <2>3
  <2>. HIDE DEF r
  <2>. QED BY <1>1, <2>1, <2>2, <2>3, <2>4, LoopWrites
<1>7. CASE Complete
  <2>. DEFINE n == fsRetry.m
              r == [fsMsgs[n] EXCEPT !.row = "resolved", !.notified = 1]
  <2>1. n \in Sent /\ fsMsgs[n].row = "in_progress" /\ fsRetry # Rest /\ fsRetry.pc = "complete"
    BY <1>7, RetryIs DEF Complete
  <2>2. fsMsgs[n].landed /\ fsMsgs[n].notified = 0
    BY <1>2, <2>1 DEF FsInv, RetryStands, MsgStands, MsgType
  <2>3. r \in MsgType /\ MsgStands(r) /\ r.shows = fsMsgs[n].shows /\ r.landed
        /\ r.outcome = fsMsgs[n].outcome
    <3>1. r.notified = 1 /\ r.row = "resolved" /\ r.shows = fsMsgs[n].shows /\ r.landed
          /\ r.outcome = fsMsgs[n].outcome /\ r.escalated = fsMsgs[n].escalated
          /\ r.told = fsMsgs[n].told
      BY <1>2, <2>1, <2>2 DEF MsgType
    <3>2. r \in MsgType
      <4>1. fsMsgs[n] \in MsgType
        BY <1>2, <2>1
      <4>. QED BY <4>1 DEF MsgType
    <3>. HIDE DEF r
    <3>. QED BY <1>2, <2>1, <3>1, <3>2 DEF MsgStands
  <2>4. fsMsgs' = [fsMsgs EXCEPT ![n] = r] /\ UNCHANGED fsCalls
        /\ fsItems' = Resolved(fsMsgs[n].shows) /\ fsRetry' = Rest
    <3>1. /\ fsMsgs' = [fsMsgs EXCEPT ![n].row = "resolved", ![n].notified = @ + 1]
          /\ UNCHANGED fsCalls /\ fsItems' = Resolved(fsMsgs[n].shows) /\ fsRetry' = Rest
      BY <1>7 DEF Complete
    <3>2. fsMsgs[n] \in MsgType /\ n \in DOMAIN fsMsgs
      BY <1>1, <1>2, <2>1
    <3>3. fsMsgs' = [fsMsgs EXCEPT ![n] = r]
      <4>. DEFINE g == [fsMsgs EXCEPT ![n].row = "resolved"]
      <4>1. fsMsgs' = [g EXCEPT ![n].notified = @ + 1]
        BY <3>1
      <4>2. n \in DOMAIN g /\ g[n] = [fsMsgs[n] EXCEPT !.row = "resolved"] /\ g[n].notified = 0
        BY <2>2, <3>2 DEF MsgType
      <4>3. [g[n] EXCEPT !.notified = @ + 1] = r
        <5>1. g[n].notified + 1 = 1
          BY <4>2
        <5>2. [g[n] EXCEPT !.notified = @ + 1] = [g[n] EXCEPT !.notified = 1]
          BY <5>1
        <5>3. [g[n] EXCEPT !.notified = 1] = r
          BY <4>2
        <5>. QED BY <5>2, <5>3
      <4>4. fsMsgs' = [g EXCEPT ![n] = r]
        BY <4>1, <4>2, <4>3
      <4>. HIDE DEF r
      <4>. QED BY <4>4
    <3>. QED BY <3>1, <3>3
  <2>5. \A i \in ItemIds : fsItems'[i] = "resolved" => fsItems[i] = "resolved" \/ (i \in r.shows /\ r.landed)
    BY <2>3, <2>4 DEF Resolved
  <2>6. fsItems' \in [ItemIds -> {"none", "open", "resolved"}]
    BY <1>1, <2>4
  <2>. HIDE DEF r
  <2>. QED BY <2>1, <2>3, <2>4, <2>5, <2>6, LoopWrites
<1>8. CASE Reschedule
  <2>. DEFINE n == fsRetry.m
              r == [fsMsgs[n] EXCEPT !.row = "pending"]
  <2>1. n \in Sent /\ fsMsgs[n].row = "in_progress"
    BY <1>8, RetryIs DEF Reschedule
  <2>2. r \in MsgType /\ MsgStands(r) /\ r.shows = fsMsgs[n].shows /\ r.landed = fsMsgs[n].landed
        /\ r.outcome = fsMsgs[n].outcome
    BY <1>2, <2>1 DEF MsgType, MsgStands
  <2>3. fsMsgs' = [fsMsgs EXCEPT ![n] = r] /\ UNCHANGED <<fsItems, fsCalls>> /\ fsRetry' = Rest
    BY <1>8 DEF Reschedule, Set
  <2>. HIDE DEF r
  <2>. QED BY <1>1, <2>1, <2>2, <2>3, LoopWrites
<1>. QED BY <1>4, <1>5, <1>6, <1>7, <1>8

LEMMA NotifyStands ==
    ASSUME FsInv, NEW c \in Callers, NEW kind \in {"escalation", "immediate", "digest", "detail"},
           Notify(c, kind)
    PROVE  FsInv'
<1>. DEFINE shows == IF kind = "digest" THEN Page ELSE {}
            r == NewMsg(kind, shows)
<1>1. PICK n \in MsgIds : /\ n = Cardinality(Sent) + 1
                          /\ fsMsgs' = [fsMsgs EXCEPT ![n] = r]
                          /\ fsCalls' = [fsCalls EXCEPT ![c] = [pc |-> "send", m |-> n]]
  BY DEF Notify
<1>2. PICK k \in Nat : Sent = 1..k
  BY DEF FsInv, Numbered
<1>3. n = k + 1
  <2>1. Cardinality(1..k) = k
    BY FS_Interval
  <2>. QED BY <1>1, <1>2, <2>1
<1>4. n \notin Sent /\ Sent \cup {n} = 1..(k + 1)
  BY <1>2, <1>3
<1>5. r \in MsgType /\ MsgStands(r) /\ r.outcome = "none"
  <2>1. shows \in SUBSET ItemIds
    BY DEF Page, Open
  <2>. HIDE DEF shows
  <2>. QED BY <2>1 DEF NewMsg, MsgType, MsgStands
<1>. HIDE DEF r
<1>6. /\ fsMsgs \in [MsgIds -> MsgType \cup {NoMsg}]
      /\ fsMsgs' \in [MsgIds -> MsgType \cup {NoMsg}] /\ fsMsgs'[n] = r
      /\ \A m \in MsgIds \ {n} : fsMsgs'[m] = fsMsgs[m]
  BY <1>1, <1>5 DEF FsInv, FsTyped
<1>7. Sent' = Sent \cup {n} /\ \A m \in Sent : fsMsgs'[m] = fsMsgs[m]
  BY <1>4, <1>5, <1>6, NoMsgIsNone DEF Sent
<1>8. Numbered'
  BY <1>4, <1>7 DEF Numbered
<1>9. MsgsStand'
  BY <1>5, <1>6, <1>7 DEF FsInv, MsgsStand
<1>10. /\ fsCalls[c] = Rest /\ fsCalls'[c] = [pc |-> "send", m |-> n]
       /\ fsCalls' \in [Callers -> {Rest} \cup CallType]
       /\ \A d \in Callers \ {c} : fsCalls'[d] = fsCalls[d]
  BY <1>1 DEF Notify, FsInv, FsTyped, CallType
<1>11. CallsStand'
  <2>1. \A d \in Callers \ {c} : fsCalls'[d] # Rest => fsCalls'[d].m \in Sent /\ fsCalls'[d].m # n
    BY <1>4, <1>10 DEF FsInv, CallsStand
  <2>. SUFFICES ASSUME NEW d \in Callers, fsCalls'[d] # Rest
                PROVE  /\ fsCalls'[d].m \in Sent'
                       /\ fsCalls'[d].pc # "after" => fsMsgs'[fsCalls'[d].m].outcome = "none"
                       /\ fsCalls'[d].pc = "record" => fsMsgs'[fsCalls'[d].m].landed
                       /\ \A e \in Callers \ {d} : fsCalls'[e] # Rest => fsCalls'[e].m # fsCalls'[d].m
    BY DEF CallsStand
  <2>2. CASE d = c
    BY <1>5, <1>6, <1>7, <1>10, <2>1, <2>2
  <2>3. CASE d # c
    BY <1>4, <1>6, <1>7, <1>10, <2>1, <2>3 DEF FsInv, CallsStand
  <2>. QED BY <2>2, <2>3
<1>12. UNCHANGED fsRetry /\ RetryStands'
  BY <1>7 DEF Notify, FsInv, RetryStands
<1>13. /\ fsItems' \in [ItemIds -> {"none", "open", "resolved"}]
       /\ \A i \in ItemIds : fsItems'[i] = "resolved" => fsItems[i] = "resolved"
  <2>1. fsItems' = fsItems \/ fsItems' = WithItem
    BY DEF Notify
  <2>. QED BY <2>1, ItemsTyped DEF FsInv, FsTyped
<1>14. ResolvedWereShown'
  BY <1>7, <1>13, ShownStay
<1>. QED BY <1>6, <1>8, <1>9, <1>10, <1>11, <1>12, <1>13, <1>14 DEF FsInv, FsTyped

LEMMA SurfacingGoesOn ==
    ASSUME FsInv, [FsNext]_fsVars
    PROVE  FsInv'
<1>1. fsItems \in [ItemIds -> {"none", "open", "resolved"}]
  BY DEF FsInv, FsTyped
<1>2. CASE Batch \/ Unreadable
  <2>1. UNCHANGED <<fsMsgs, fsCalls>> /\ fsItems' = WithItem
    BY <1>2 DEF Batch, Unreadable
  <2>2. \/ fsRetry' = fsRetry
        \/ fsRetry.pc = "send" /\ fsRetry' = [fsRetry EXCEPT !.pc = "reschedule"]
    BY <1>2 DEF Batch, Unreadable
  <2>. QED BY <2>1, <2>2, ItemsTyped, NothingWritten DEF FsInv
<1>3. CASE SpendingStopped \/ RetryFails \/ FsCrash \/ UNCHANGED fsVars
  <2>1. UNCHANGED <<fsMsgs, fsItems>> /\ fsRetry' \in {fsRetry, Rest}
        /\ (fsCalls' = fsCalls \/ fsCalls' = [c \in Callers |-> Rest])
    BY <1>3 DEF SpendingStopped, RetryFails, FsCrash, fsVars
  <2>. QED BY <1>1, <2>1, NothingWritten
<1>4. CASE \E c \in Callers, kind \in {"escalation", "immediate", "digest", "detail"} : Notify(c, kind)
  BY <1>4, NotifyStands
<1>5. CASE \E c \in Callers : CallerStep(c) \/ Skip(c) \/ RecordFails(c) \/ Conclude(c, FALSE)
  BY <1>5, CallerStands
<1>6. CASE \/ \E m \in MsgIds : TimePasses(m) \/ Claim(m)
           \/ Complete \/ Reschedule
           \/ \E landed, ok \in BOOLEAN : Resend(landed, ok)
  BY <1>6, LoopStands
<1>. QED BY <1>2, <1>3, <1>4, <1>5, <1>6 DEF FsNext

(* Whatever a message meets, what the digest drops was shown, what the log claims is
   true, and no failure is lost in silence: for any number of callers, messages,
   items and faults. *)
THEOREM FailuresSurface == FsSpec => [](ResolvedWereShown /\ ReceiptsAreTrue /\ FailuresAreKept)
<1>1. FsInv => ResolvedWereShown /\ ReceiptsAreTrue /\ FailuresAreKept
  <2>. SUFFICES ASSUME FsInv PROVE ReceiptsAreTrue /\ FailuresAreKept
    BY DEF FsInv
  <2>1. \A m \in Sent : fsMsgs[m] \in MsgType /\ MsgStands(fsMsgs[m])
    BY SentAre DEF FsInv, MsgsStand
  <2>2. \A m \in Sent : fsMsgs[m].notified \in {0, 1}
    BY <2>1 DEF MsgType
  <2>3. \A m \in Sent : fsMsgs[m].notified <= 1
    BY <2>2
  <2>. QED BY <2>1, <2>3 DEF ReceiptsAreTrue, FailuresAreKept, MsgStands
<1>. QED BY <1>1, SurfacingStarts, SurfacingGoesOn, PTL DEF FsSpec
=============================================================================
