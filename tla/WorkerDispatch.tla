---------------------------- MODULE WorkerDispatch ----------------------------
(***************************************************************************)
(* Commissioning and supervising workers.  A master, or a worker, asks for *)
(* a worker under a receipt of its own choosing; the handler admits the    *)
(* request, claims the conversation, stores the dispatch row, starts a     *)
(* sandboxed shell and waits for it.  The worker answers over HTTP with a  *)
(* result or a failure; the handler records a failure when the shell       *)
(* leaves without an answer; a sweep tells the owner of rows that nobody   *)
(* settles.                                                                *)
(*                                                                         *)
(* A lane is one commission handler.  Every store call is one transaction, *)
(* so one step.  Shells are processes of their own: they outlive a handler *)
(* that is dropped and a kernel that stops.  A grant carries the route and *)
(* the thread of its root, so a worker shares its master's connector and   *)
(* conversation.  Best-effort notices of an exhausted cap are left out.    *)
(***************************************************************************)
EXTENDS Integers, Sequences, FiniteSets

CONSTANTS
    Lanes,         \* commission handlers that may run at once
    Masters,       \* grants composed for a message
    Workers,       \* worker grant ids; bound on the commissions
    Legacy,        \* workers that may have been stored before rows named a connector
    LegacyMaster,  \* the master of those
    Receipts, Requests, Connectors, Conversations,
    ConnectorOf, ConversationOf, \* of a master's route and thread
    Telegram,      \* masters with a private Telegram chat as owner surface
    Limit,         \* WORKER_RESTART_LIMIT
    Window,        \* WORKER_RESTART_WINDOW
    MaxAge,        \* age at which the watchdog calls a dispatch stranded
    MaxTime,       \* bound on the clock
    MaxStops,      \* bound on kernel stops
    None

ASSUME WorkerAssumption ==
    /\ Masters \cap Workers = {}
    /\ Legacy \subseteq Workers /\ LegacyMaster \in Masters
    /\ ConnectorOf \in [Masters -> Connectors \cup {None}]
    /\ ConversationOf \in [Masters -> Conversations]
    /\ Limit \in Nat /\ Window \in Nat /\ MaxAge \in Nat
    /\ MaxTime \in Nat /\ MaxStops \in Nat

ASSUME WorkerNoneAssumption ==
    None \notin Masters \cup Workers \cup Receipts \cup Requests \cup Connectors
                \cup Conversations \cup Lanes \cup Int

VARIABLES
    now, booted, stops,
    swept,     \* this boot's recovery sweep has run
    minted,    \* worker grant ids given out
    dispatch,  \* table worker_dispatch, by grant id
    ledger,    \* table connector_restart_ledger
    inFlight,  \* table conversation_in_flight, by conversation
    notices,   \* table notify_dead_letters: stranded notices of a worker
    bus,       \* audit_log: the worker.result and worker.failed events
    admission, \* the COMMISSION_ADMISSION mutex
    lanes,
    shells,
    calls,     \* worker requests past authentication
    found,     \* what the boot and watchdog sweeps listed, not yet surfaced
    replies    \* answers of commission handlers

vars == <<now, booted, stops, swept, minted, dispatch, ledger, inFlight, notices, bus,
          admission, lanes, shells, calls, found, replies>>

clock == <<now, booted, stops, swept>>
tables == <<dispatch, ledger, inFlight, notices, bus>>
handlers == <<minted, admission, lanes, replies>>

Grants == Masters \cup Workers

Row ==
    [state : {"dispatched", "terminal"}, parent : Grants, root : Masters,
     receipt : Receipts \cup {None}, request : Requests \cup {None},
     connector : Connectors \cup {None}, created : Int,
     failedAt : Int \cup {None}, surfaced : BOOLEAN]

ASSUME WorkerRowAssumption == None \notin Row

Event == [kind : {"worker.result", "worker.failed"}, worker : Workers]

IdleLane == [pc |-> "idle", parent |-> None, receipt |-> None, request |-> None,
             worker |-> None, persisted |-> None, status |-> "none"]

Lane ==
    [pc : {"idle", "authenticated", "fresh", "minted", "claimed", "persisted",
           "running", "exited", "failing", "noticing", "closing"},
     parent : Grants \cup {None}, receipt : Receipts \cup {None},
     request : Requests \cup {None}, worker : Workers \cup {None},
     persisted : Workers \cup {None}, status : {"none", "ok", "error"}]

Reply == [worker : Workers, parent : Grants, receipt : Receipts, request : Requests]

TypeOK ==
    /\ now \in 0..MaxTime /\ booted \in 0..MaxTime /\ stops \in 0..MaxStops
    /\ swept \in BOOLEAN
    /\ minted \subseteq Workers
    /\ dispatch \in [Workers -> Row \cup {None}]
    /\ ledger \in Seq([connector : Connectors, at : Int])
    /\ inFlight \in [Conversations -> Workers \cup {None}]
    /\ notices \in [Workers -> Nat]
    /\ bus \in Seq(Event)
    /\ admission \in Lanes \cup {None}
    /\ lanes \in [Lanes -> Lane]
    /\ shells \in [Workers -> {"none", "running", "exited"}]
    /\ calls \subseteq Event
    /\ found \in [{"boot", "watchdog"} -> SUBSET Workers]
    /\ replies \subseteq Reply

(* A row of a store that predates supervision: no identity, no connector,  *)
(* no receipt and no token reference.                                      *)
LegacyRow ==
    [state |-> "dispatched", parent |-> LegacyMaster, root |-> LegacyMaster,
     receipt |-> None, request |-> None, connector |-> None, created |-> -1,
     failedAt |-> None, surfaced |-> FALSE]

(* The store may hold such rows, whose shells run on. *)
Init ==
    /\ now = 0 /\ booted = 0 /\ stops = 0 /\ swept = FALSE
    /\ \E old \in SUBSET Legacy :
         /\ minted = old
         /\ dispatch = [w \in Workers |-> IF w \in old THEN LegacyRow ELSE None]
         /\ shells = [w \in Workers |-> IF w \in old THEN "running" ELSE "none"]
    /\ ledger = <<>>
    /\ inFlight = [c \in Conversations |-> None]
    /\ notices = [w \in Workers |-> 0]
    /\ bus = <<>>
    /\ admission = None
    /\ lanes = [l \in Lanes |-> IdleLane]
    /\ calls = {}
    /\ found = [s \in {"boot", "watchdog"} |-> {}]
    /\ replies = {}

------------------------------------------------------------------------------
(* What a row, a grant and the ledger say *)

Stored(w) == dispatch[w] # None

Dispatched(w) == Stored(w) /\ dispatch[w].state = "dispatched"

Terminal(w) == Stored(w) /\ dispatch[w].state = "terminal"

RootOf(g) == IF g \in Masters THEN g ELSE dispatch[g].root

(* Mutant: the window is one tick short. *)
RecentFailuresShort(c) ==
    Cardinality({i \in DOMAIN ledger :
                   ledger[i].connector = c /\ ledger[i].at > now - Window + 1})

(* Failures charged to a connector and still inside the sliding window.    *)
RecentFailures(c) ==
    Cardinality({i \in DOMAIN ledger :
                   ledger[i].connector = c /\ ledger[i].at > now - Window})

(* The rows a receipt resolves to; the unique index keeps them at most one. *)
Holders(receipt) == {w \in Workers : Stored(w) /\ dispatch[w].receipt = receipt}

(* Mutant: the commissioning grant is not compared. *)
MatchesRequest(w, lane) == dispatch[w].request = lane.request

(* A receipt answers only the parent and the request that first used it.   *)
Matches(w, lane) ==
    /\ dispatch[w].parent = lane.parent
    /\ dispatch[w].request = lane.request

Answer(lane, w) ==
    [worker |-> w, parent |-> lane.parent, receipt |-> lane.receipt,
     request |-> lane.request]

(* Mutant: whoever holds the conversation now loses it. *)
ReleaseAnyone(w) == [c \in Conversations |-> None]

(* ConversationClaimGuard: only the claim of this worker is released.      *)
Release(w) ==
    [c \in Conversations |-> IF inFlight[c] = w THEN None ELSE inFlight[c]]

(* The handler returns, its guards are dropped.                            *)
Return(l) ==
    /\ lanes' = [lanes EXCEPT ![l] = IdleLane]
    /\ inFlight' = IF lanes[l].pc \in {"claimed", "persisted", "running", "exited",
                                       "failing", "noticing", "closing"}
                     THEN Release(lanes[l].worker) ELSE inFlight
    /\ admission' = IF admission = l THEN None ELSE admission

------------------------------------------------------------------------------
(* worker.commission *)

(* authenticate() refuses the token of a terminal dispatch.                *)
Authenticate(l, g, receipt, request) ==
    /\ lanes[l].pc = "idle"
    /\ g \in Workers => shells[g] = "running" /\ Dispatched(g)
    /\ lanes' = [lanes EXCEPT ![l] =
                   [IdleLane EXCEPT !.pc = "authenticated", !.parent = g,
                                    !.receipt = receipt, !.request = request]]
    /\ UNCHANGED <<clock, tables, minted, admission, replies, shells, calls, found>>

(* A receipt seen before returns its worker to the commission that used it *)
(* and is refused to any other; a request whose worker could not report is *)
(* refused.                                                                *)
ReceiptCheck(l) ==
    /\ lanes[l].pc = "authenticated"
    /\ LET lane == lanes[l] IN
       \/ \E w \in Holders(lane.receipt) :
            /\ Return(l)
            /\ replies' = IF Matches(w, lane) THEN replies \cup {Answer(lane, w)}
                                              ELSE replies
       \/ /\ Holders(lane.receipt) = {}
          /\ \/ Return(l)
             \/ /\ lanes' = [lanes EXCEPT ![l].pc = "fresh"]
                /\ UNCHANGED <<inFlight, admission>>
          /\ UNCHANGED replies
    /\ UNCHANGED <<clock, dispatch, ledger, notices, bus, minted, shells, calls, found>>

(* Under the mutex: the cap is checked and the worker's grant minted.      *)
Admit(l, w) ==
    /\ lanes[l].pc = "fresh" /\ admission = None
    /\ LET connector == ConnectorOf[RootOf(lanes[l].parent)] IN
         connector # None /\ RecentFailures(connector) < Limit
    /\ w \notin minted
    /\ minted' = minted \cup {w}
    /\ admission' = l
    /\ lanes' = [lanes EXCEPT ![l].pc = "minted", ![l].worker = w]
    /\ UNCHANGED <<clock, tables, replies, shells, calls, found>>

(* No connector, an exhausted cap, or a specification the mint rejects.    *)
RefuseAdmission(l) ==
    /\ lanes[l].pc = "fresh" /\ admission = None
    /\ Return(l)
    /\ UNCHANGED <<clock, dispatch, ledger, notices, bus, minted, replies, shells,
                   calls, found>>

ClaimConversation(l) ==
    /\ lanes[l].pc = "minted"
    /\ LET c == ConversationOf[RootOf(lanes[l].parent)] IN
       IF inFlight[c] = None
         THEN /\ inFlight' = [inFlight EXCEPT ![c] = lanes[l].worker]
              /\ lanes' = [lanes EXCEPT ![l].pc = "claimed"]
              /\ UNCHANGED admission
         ELSE Return(l)
    /\ UNCHANGED <<clock, dispatch, ledger, notices, bus, minted, replies, shells,
                   calls, found>>

(* Mutant: the parent is taken for the root. *)
NewRowOfParent(lane) ==
    [state |-> "dispatched", parent |-> lane.parent, root |-> lane.parent,
     receipt |-> lane.receipt, request |-> lane.request,
     connector |-> ConnectorOf[RootOf(lane.parent)], created |-> now,
     failedAt |-> None, surfaced |-> FALSE]

NewRow(lane) ==
    [state |-> "dispatched", parent |-> lane.parent, root |-> RootOf(lane.parent),
     receipt |-> lane.receipt, request |-> lane.request,
     connector |-> ConnectorOf[RootOf(lane.parent)], created |-> now,
     failedAt |-> None, surfaced |-> FALSE]

(* Mutant: the parent was checked when the request was authenticated. *)
MayStoreUnderCap(lane) == RecentFailures(ConnectorOf[RootOf(lane.parent)]) < Limit

(* Parent and cap are checked once more in the transaction that stores     *)
(* grant, briefcase and dispatch.                                          *)
MayStore(lane) ==
    /\ ~(lane.parent \in Workers /\ Terminal(lane.parent))
    /\ RecentFailures(ConnectorOf[RootOf(lane.parent)]) < Limit

(* Refused, or an artifact or the row could not be stored: the last case.  *)
RecordWorkerCommissioned(l) ==
    /\ lanes[l].pc = "claimed"
    /\ LET lane == lanes[l] IN
       \/ \E w \in Holders(lane.receipt) :
            /\ lanes' = [lanes EXCEPT ![l].pc = "persisted", ![l].persisted = w]
            /\ UNCHANGED <<dispatch, inFlight, admission>>
       \/ /\ Holders(lane.receipt) = {}
          /\ MayStore(lane)
          /\ dispatch' = [dispatch EXCEPT ![lane.worker] = NewRow(lane)]
          /\ lanes' = [lanes EXCEPT ![l].pc = "persisted", ![l].persisted = lane.worker]
          /\ UNCHANGED <<inFlight, admission>>
       \/ Return(l) /\ UNCHANGED dispatch
    /\ UNCHANGED <<clock, ledger, notices, bus, minted, replies, shells, calls, found>>

(* The committed row is read back; the mutex is released before the shell  *)
(* starts.                                                                 *)
ResolveReceipt(l) ==
    /\ lanes[l].pc = "persisted"
    /\ LET lane == lanes[l]
           mine == lane.persisted \in Holders(lane.receipt) /\ Matches(lane.persisted, lane)
       IN
       \/ /\ mine /\ lane.persisted = lane.worker
          /\ admission' = None
          /\ lanes' = [lanes EXCEPT ![l].pc = "running"]
          /\ shells' = [shells EXCEPT ![lane.worker] = "running"]
          /\ UNCHANGED <<inFlight, replies>>
       \/ /\ mine /\ lane.persisted # lane.worker
          /\ Return(l)
          /\ replies' = replies \cup {Answer(lane, lane.persisted)}
          /\ UNCHANGED shells
       \/ /\ ~mine
          /\ Return(l)
          /\ UNCHANGED <<shells, replies>>
    /\ UNCHANGED <<clock, dispatch, ledger, notices, bus, minted, calls, found>>

------------------------------------------------------------------------------
(* The outcome of a worker *)

Flip(w, failedAt) ==
    dispatch' = [dispatch EXCEPT ![w].state = "terminal", ![w].failedAt = failedAt]

Emit(kind, w) == bus' = Append(bus, [kind |-> kind, worker |-> w])

(* Mutant: the row's state is not read. *)
RecordWorkerResultAnyway(w) ==
    Flip(w, dispatch[w].failedAt) /\ Emit("worker.result", w)

RecordWorkerResult(w) ==
    IF Dispatched(w)
      THEN Flip(w, dispatch[w].failedAt) /\ Emit("worker.result", w)
      ELSE UNCHANGED <<dispatch, bus>>

(* A row with no connector is settled and reported, and charged to nobody. *)
RecordWorkerFailed(w) ==
    IF Dispatched(w)
      THEN /\ Flip(w, now)
           /\ Emit("worker.failed", w)
           /\ IF dispatch[w].connector = None
                THEN UNCHANGED <<ledger, inFlight>>
                ELSE /\ ledger' = Append(ledger, [connector |-> dispatch[w].connector,
                                                  at |-> now])
                     /\ inFlight' = Release(w)
      ELSE UNCHANGED <<dispatch, bus, ledger, inFlight>>

(* A request of the worker itself, past authentication and the gate.       *)
WorkerCalls(w, kind) ==
    /\ shells[w] = "running" /\ Dispatched(w)
    /\ calls' = calls \cup {[kind |-> kind, worker |-> w]}
    /\ UNCHANGED <<clock, tables, handlers, shells, found>>

HandleReportResult(w) ==
    /\ [kind |-> "worker.result", worker |-> w] \in calls
    /\ calls' = calls \ {[kind |-> "worker.result", worker |-> w]}
    /\ RecordWorkerResult(w)
    /\ UNCHANGED <<clock, ledger, inFlight, notices, handlers, shells, found>>

HandleWorkerFailed(w) ==
    /\ [kind |-> "worker.failed", worker |-> w] \in calls
    /\ admission = None
    /\ calls' = calls \ {[kind |-> "worker.failed", worker |-> w]}
    /\ RecordWorkerFailed(w)
    /\ UNCHANGED <<clock, notices, handlers, shells, found>>

(* The shell leaves, with whatever status; its handler, if any, wakes.     *)
ShellExits(w, status) ==
    /\ shells[w] = "running"
    /\ shells' = [shells EXCEPT ![w] = "exited"]
    /\ lanes' = [l \in Lanes |->
                   IF lanes[l].pc = "running" /\ lanes[l].worker = w
                     THEN [lanes[l] EXCEPT !.status = status,
                             !.pc = IF status = "ok" THEN "exited" ELSE "failing"]
                     ELSE lanes[l]]
    /\ UNCHANGED <<clock, tables, minted, admission, replies, calls, found>>

(* A shell that left cleanly is a success only if its row is settled.      *)
InspectExit(l) ==
    /\ lanes[l].pc = "exited"
    /\ lanes' = [lanes EXCEPT ![l].pc =
                   IF Terminal(lanes[l].worker) THEN "closing" ELSE "failing"]
    /\ UNCHANGED <<clock, tables, minted, admission, replies, shells, calls, found>>

(* The owner is told when this failure exhausts the cap.                   *)
Exhausts(w) ==
    /\ dispatch[w].connector # None
    /\ RecentFailures(dispatch[w].connector) + 1 >= Limit

(* A failure that lost the race is an error of the handler after a clean   *)
(* exit and only a warning after an unclean one.                           *)
SuperviseFailure(l) ==
    /\ lanes[l].pc = "failing" /\ admission = None
    /\ LET w == lanes[l].worker IN
       IF Dispatched(w) \/ lanes[l].status = "error"
         THEN /\ RecordWorkerFailed(w)
              /\ lanes' = [lanes EXCEPT ![l].pc =
                             IF Dispatched(w) /\ Exhausts(w) THEN "noticing" ELSE "closing"]
              /\ UNCHANGED admission
         ELSE Return(l) /\ UNCHANGED <<dispatch, ledger, bus>>
    /\ UNCHANGED <<clock, notices, minted, replies, shells, calls, found>>

FinishCommission(l) ==
    /\ lanes[l].pc \in {"noticing", "closing"}
    /\ Return(l)
    /\ replies' = replies \cup {Answer(lanes[l], lanes[l].worker)}
    /\ UNCHANGED <<clock, dispatch, ledger, notices, bus, minted, shells, calls, found>>

(* The caller hangs up while the handler waits for the shell or for the    *)
(* notice: the future is dropped with its claim, the shell runs on.        *)
CallerDisconnects(l) ==
    /\ lanes[l].pc \in {"running", "noticing"}
    /\ Return(l)
    /\ UNCHANGED <<clock, dispatch, ledger, notices, bus, minted, replies, shells,
                   calls, found>>

------------------------------------------------------------------------------
(* Stranded dispatches *)

(* The owner is addressed through the surface of the parent grant.         *)
Addressable(w) == RootOf(dispatch[w].parent) \in Telegram

(* Rows of an earlier boot that carry a token.                             *)
BootSweep ==
    /\ ~swept /\ swept' = TRUE
    /\ found' = [found EXCEPT !["boot"] =
                   {w \in Workers : /\ Dispatched(w) /\ dispatch[w].receipt # None
                                    /\ ~dispatch[w].surfaced
                                    /\ dispatch[w].created < booted}]
    /\ UNCHANGED <<now, booted, stops, tables, handlers, shells, calls>>

(* Mutant: this boot's dispatches are taken for live. *)
WatchdogSweepOfEarlierBoots ==
    /\ found["watchdog"] = {}
    /\ found' = [found EXCEPT !["watchdog"] =
                   {w \in Workers : Dispatched(w) /\ ~dispatch[w].surfaced
                                      /\ dispatch[w].created < booted}]
    /\ UNCHANGED <<clock, tables, handlers, shells, calls>>

WatchdogSweep ==
    /\ found["watchdog"] = {}
    /\ found' = [found EXCEPT !["watchdog"] =
                   {w \in Workers : Dispatched(w) /\ ~dispatch[w].surfaced
                                      /\ dispatch[w].created < now - MaxAge}]
    /\ UNCHANGED <<clock, tables, handlers, shells, calls>>

(* Mutant: the list is trusted. *)
ListedStranded(w) == Dispatched(w)

StillStranded(w) == Dispatched(w) /\ ~dispatch[w].surfaced

(* Notice and mark commit together, and only for a row still unsettled.    *)
SurfaceStrandedWorker(s, w) ==
    /\ w \in found[s]
    /\ found' = [found EXCEPT ![s] = @ \ {w}]
    /\ Addressable(w)
    /\ IF StillStranded(w)
         THEN /\ notices' = [notices EXCEPT ![w] = @ + 1]
              /\ dispatch' = [dispatch EXCEPT ![w].surfaced = TRUE]
         ELSE UNCHANGED <<notices, dispatch>>
    /\ UNCHANGED <<clock, ledger, inFlight, bus, handlers, shells, calls>>

(* The owner has no private chat, or the notice's text cannot be stored.   *)
SkipStrandedWorker(s, w) ==
    /\ w \in found[s]
    /\ found' = [found EXCEPT ![s] = @ \ {w}]
    /\ UNCHANGED <<clock, tables, handlers, shells, calls>>

------------------------------------------------------------------------------
(* The world *)

Tick ==
    /\ now < MaxTime
    /\ now' = now + 1
    /\ UNCHANGED <<booted, stops, swept, tables, handlers, shells, calls, found>>

(* Everything in memory is gone; tables and shells stay.                   *)
Restart ==
    /\ stops < MaxStops
    /\ stops' = stops + 1 /\ booted' = now /\ swept' = FALSE
    /\ lanes' = [l \in Lanes |-> IdleLane]
    /\ admission' = None /\ calls' = {}
    /\ found' = [s \in {"boot", "watchdog"} |-> {}]
    /\ UNCHANGED <<now, dispatch, ledger, notices, bus, minted, shells, replies>>

Crash == Restart /\ UNCHANGED inFlight

(* The kernel leaves by itself, a consumer having failed: the runtime      *)
(* drops each handler where it waits, and with it the handler's claim.     *)
KernelExits ==
    /\ \A l \in Lanes : lanes[l].pc \in {"idle", "running", "noticing"}
    /\ Restart
    /\ inFlight' = [c \in Conversations |->
                      IF \E l \in Lanes : lanes[l].worker = inFlight[c]
                        THEN None ELSE inFlight[c]]

LaneStep(l) ==
    \/ ReceiptCheck(l)
    \/ \E w \in Workers : Admit(l, w)
    \/ RefuseAdmission(l)
    \/ ClaimConversation(l)
    \/ RecordWorkerCommissioned(l)
    \/ ResolveReceipt(l)
    \/ InspectExit(l)
    \/ SuperviseFailure(l)
    \/ FinishCommission(l)

Next ==
    \/ \E l \in Lanes, g \in Grants, rc \in Receipts, rq \in Requests :
         Authenticate(l, g, rc, rq)
    \/ \E l \in Lanes : LaneStep(l)
    \/ \E l \in Lanes : CallerDisconnects(l)
    \/ \E w \in Workers, kind \in {"worker.result", "worker.failed"} : WorkerCalls(w, kind)
    \/ \E w \in Workers : HandleReportResult(w)
    \/ \E w \in Workers : HandleWorkerFailed(w)
    \/ \E w \in Workers, status \in {"ok", "error"} : ShellExits(w, status)
    \/ BootSweep
    \/ WatchdogSweep
    \/ \E s \in {"boot", "watchdog"}, w \in Workers : SurfaceStrandedWorker(s, w)
    \/ \E s \in {"boot", "watchdog"}, w \in Workers : SkipStrandedWorker(s, w)
    \/ Tick
    \/ Crash
    \/ KernelExits

Spec == Init /\ [][Next]_vars

(* The timer driver, the sweeps and the handlers are polled by the runtime; *)
(* the artifact store may fail a sweep, but not every sweep.               *)
FairSpec ==
    /\ Spec
    /\ WF_vars(Tick) /\ WF_vars(WatchdogSweep)
    /\ \A l \in Lanes : WF_vars(LaneStep(l))
    /\ \A w \in Workers : /\ SF_vars(SurfaceStrandedWorker("watchdog", w))
                          /\ WF_vars(SkipStrandedWorker("watchdog", w))
                          /\ WF_vars(HandleReportResult(w))
                          /\ WF_vars(HandleWorkerFailed(w))

(* The most favourable world: besides, every shell leaves.                 *)
FavourableSpec ==
    /\ FairSpec
    /\ \A w \in Workers : WF_vars(\E status \in {"ok", "error"} : ShellExits(w, status))

------------------------------------------------------------------------------
(* Properties *)

(* A dispatch has one outcome: a late result and a failure, reported by    *)
(* the worker or by its supervisor, compete for the one flip to terminal,  *)
(* and only the winner puts an event on the bus.                           *)
OneOutcome ==
    /\ \A w \in Workers : Terminal(w) <=> \E i \in DOMAIN bus : bus[i].worker = w
    /\ \A i, j \in DOMAIN bus : bus[i].worker = bus[j].worker => i = j

(* A retried commission is answered with its first worker; a receipt reused *)
(* by another parent or for another request is never answered with it, in   *)
(* whatever order the two handlers check, insert and read back.             *)
ReceiptAnswersOneCommission ==
    /\ \A r \in replies : /\ r.worker \in Holders(r.receipt)
                          /\ dispatch[r.worker].parent = r.parent
                          /\ dispatch[r.worker].request = r.request
    /\ \A r, q \in replies : r.receipt = q.receipt => r = q

(* A commission is answered once, to the right parent, and ends once.      *)
OneAnswer == TypeOK /\ OneOutcome /\ ReceiptAnswersOneCommission

(* A handler that waits for an unsettled worker holds its conversation,    *)
(* whatever stale cleanup of an earlier holder runs meanwhile: two such    *)
(* handlers are never of one conversation.                                 *)
OneSupervisedPerConversation ==
    \A l \in Lanes :
        lanes[l].pc = "running" /\ Dispatched(lanes[l].worker) =>
          /\ inFlight[ConversationOf[RootOf(lanes[l].parent)]] = lanes[l].worker
          /\ \A k \in Lanes \ {l} : lanes[k].worker # lanes[l].worker

(* The owner hears of a stranded worker once, though the boot sweep and    *)
(* the watchdog list it independently and act on what they listed.         *)
StrandedNoticeOnce ==
    \A w \in Workers :
        notices[w] = IF Stored(w) /\ dispatch[w].surfaced THEN 1 ELSE 0

(* A worker commissions only while its own dispatch is unsettled, also     *)
(* when it was settled after the request was authenticated.                *)
TerminalCommissionsNothing ==
    [][\A w \in Workers :
         /\ ~Stored(w) /\ dispatch'[w] # None /\ dispatch'[w].parent \in Workers
         => Dispatched(dispatch'[w].parent)]_vars

(* No worker is stored for a connector that saw Limit failures in the      *)
(* window, counted from the failed rows themselves and not the ledger.     *)
CapCountsEveryFailure ==
    [][\A w \in Workers :
         ~Stored(w) /\ dispatch'[w] # None =>
           Cardinality({v \in Workers :
               /\ Stored(v) /\ dispatch[v].connector = dispatch'[w].connector
               /\ dispatch[v].failedAt # None
               /\ dispatch[v].failedAt > now - Window}) < Limit]_vars

(* Neither a settled worker nor a failing connector is given more work.    *)
CommissionsAreBounded == TerminalCommissionsNothing /\ CapCountsEveryFailure

(* A worker nobody settles is shown to an owner who has a private chat,    *)
(* whatever became of its handler, its shell and the kernel.               *)
StrandedIsSurfaced ==
    \A w \in Workers :
        /\ Dispatched(w) /\ Addressable(w)
        /\ dispatch[w].created + MaxAge < MaxTime
        ~> Terminal(w) \/ (Stored(w) /\ dispatch[w].surfaced)

(* A stranded worker is brought to its owner, and only once.               *)
StrandedIsShownOnce == []StrandedNoticeOnce /\ StrandedIsSurfaced

(* No conversation stays locked for ever.                                  *)
ConversationIsFreed ==
    \A c \in Conversations : inFlight[c] # None ~> inFlight[c] = None
==============================================================================
