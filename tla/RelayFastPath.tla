--------------------------- MODULE RelayFastPath ---------------------------
(***************************************************************************)
(* network/relay/server.js: the compact ("fast") NEEDs of one requester at *)
(* one relay.  The relay keeps its requests in memory, promises every      *)
(* admitted NEED room for its terminal event (fastTerminalReservations),   *)
(* and, with a lifecycle ledger, lets the ledger decide who wins.          *)
(*                                                                         *)
(* Each element of Calls is one run of a handler: NEED, PARTIAL, RESULT,   *)
(* REVOKE, the expiry of one request, the status route.  A handler runs    *)
(* without interruption between two awaits; what it read before an await   *)
(* may be stale after it.  The awaits that matter are those of the ledger: *)
(* a call at "calling" has sent its ledger operation, one at "committed"   *)
(* or "thrown" has had it carried out and not resumed yet.                 *)
(*                                                                         *)
(* mode tells which ledger there is.  "memory": none, and every await      *)
(* still yields to the handlers that are ready.  "sqlite": operations      *)
(* commit or throw.  "cosmos": an operation may also commit and throw, its *)
(* reply lost.  Other relays, and earlier lives of this one, share the     *)
(* ledger; they are the Peer actions.                                      *)
(*                                                                         *)
(* expireFastRequest, which the PARTIAL, RESULT, REVOKE and status         *)
(* handlers await first and the NEED handler and the heartbeat run over    *)
(* all requests, is a call of its own that may run at any time.            *)
(***************************************************************************)
EXTENDS Naturals, Sequences, FiniteSets, FiniteSetTheorems, SequenceTheorems, TLAPS

CONSTANTS
    Needs,          \* identifiers of NEEDs
    Calls,          \* runs of handlers
    Offered,        \* the handlers that may run
    Modes,          \* the ledgers a relay may be started with
    Maintenance,    \* lifecycleMaintenance: stale nodes are evicted
    MaxTerminals,   \* maxFastTerminalReservationsPerRequester
    MaxRequests,    \* maxRequests
    MaxPartials,    \* bound on PARTIAL sequence numbers
    MaxRestarts     \* bound on restarts of the relay

RelayAssumption ==
    /\ IsFiniteSet(Needs)
    /\ IsFiniteSet(Calls)
    /\ Modes \subseteq {"memory", "sqlite", "cosmos"}
    /\ Maintenance \in BOOLEAN
    /\ MaxTerminals \in Nat \ {0}
    /\ MaxRequests \in Nat \ {0}
    /\ MaxPartials \in Nat
    /\ MaxRestarts \in Nat

VARIABLES
    ledger,         \* status of each NEED in the lifecycle ledger
    ledgerPartials, \* partial_sequence in the ledger
    request,        \* requests: the status of each request, or "none"
    holding,        \* the requests whose terminalReserved is set
    partials,       \* nextPartialSequence of each request
    reserved,       \* fastTerminalReservations of the requester
    inFlight,       \* inFlightByProvider of the provider
    terminals,      \* fastTerminalEvents of the requester
    waiters,        \* the NEEDs with a result waiter
    seen,           \* seenNeedIds, used without a ledger
    dispatched,     \* how often each NEED was sent to its provider
    counted,        \* how often its success was counted in stats
    told,           \* what the requester was sent live about each NEED
    op, pc,         \* each call: what it does and where it stands
    restarts,
    mode            \* the ledger this relay was started with

local == <<request, holding, partials, reserved, inFlight, terminals, waiters, seen>>
outputs == <<dispatched, counted, told>>
shared == <<ledger, ledgerPartials>>
vars == <<ledger, ledgerPartials, request, holding, partials, reserved, inFlight,
          terminals, waiters, seen, dispatched, counted, told, op, pc, restarts, mode>>

Terminal == {"completed", "cancelled", "failed"}

Durable == mode # "memory"

Operations ==
    [type : {"need", "result", "revoke", "expire", "status"}, need : Needs, sequence : {0}]
        \cup [type : {"partial"}, need : Needs, sequence : 0..(MaxPartials - 1)]

NoOperation == [type |-> "none", need |-> CHOOSE n \in Needs : TRUE, sequence |-> 0]

Init ==
    /\ ledger = [n \in Needs |-> "absent"]
    /\ ledgerPartials = [n \in Needs |-> 0]
    /\ request = [n \in Needs |-> "none"]
    /\ holding = {}
    /\ partials = [n \in Needs |-> 0]
    /\ reserved = 0
    /\ inFlight = 0
    /\ terminals = <<>>
    /\ waiters = {}
    /\ seen = {}
    /\ dispatched = [n \in Needs |-> 0]
    /\ counted = [n \in Needs |-> 0]
    /\ told = [n \in Needs |-> <<>>]
    /\ op = [c \in Calls |-> NoOperation]
    /\ pc = [c \in Calls |-> "idle"]
    /\ restarts = 0
    /\ mode \in Modes
-----------------------------------------------------------------------------
Goto(c, stage) == pc' = [pc EXCEPT ![c] = stage]

\* A call enters its handler.  Handlers that refuse before they change
\* anything (a duplicate, a wrong sequence number, a request that has ended)
\* are left out.
Enter(c, o, stage) ==
    /\ pc[c] = "idle"
    /\ o.type \in Offered
    /\ op' = [op EXCEPT ![c] = o]
    /\ Goto(c, stage)

Held == {n \in Needs : request[n] # "none"}

Ended == {n \in Needs : request[n] \in Terminal}

\* pruneCompleted: with the map at its limit, forget ended requests until it
\* is below the limit, or until none is left.
Prunings ==
    IF Cardinality(Held) < MaxRequests THEN {{}}
    ELSE IF Cardinality(Held \ Ended) >= MaxRequests THEN {Ended}
    ELSE {gone \in SUBSET Ended : Cardinality(Held \ gone) = MaxRequests - 1}

\* markRequestStatus.  The handler keeps its request object when the map has
\* forgotten it.
MarkRequestStatus(n, to) ==
    /\ request' = [request EXCEPT ![n] = IF @ = "none" THEN @ ELSE to]
    /\ inFlight' = IF request[n] = "matched" THEN inFlight - 1 ELSE inFlight

\* releaseFastTerminal: the count never goes below zero.
ReleaseFastTerminal(n) ==
    /\ holding' = holding \ {n}
    /\ reserved' = IF n \in holding /\ reserved > 0 THEN reserved - 1 ELSE reserved

\* reserveFastTerminal refuses: queued and pending terminals share one bound.
TerminalsFull == Len(terminals) + reserved >= MaxTerminals

\* admitDirectNeedId: the ledger claims the identifier, or seenNeedIds does.
ClaimNeedId(n) == seen' = IF Durable THEN seen ELSE seen \cup {n}

\* finishResultWaiter, when there is a waiter.
FinishResultWaiter(n, event) ==
    /\ waiters' = waiters \ {n}
    /\ told' = IF n \in waiters THEN [told EXCEPT ![n] = Append(@, <<event, 0>>)] ELSE told

-----------------------------------------------------------------------------
\* The ledger carries out the operation of a call.
Accepts(o) ==
    CASE o.type = "need"    -> ledger[o.need] = "absent"
      [] o.type = "partial" -> ledger[o.need] = "matched" /\ ledgerPartials[o.need] = o.sequence
      [] o.type = "revoke"  -> ledger[o.need] \in {"matched", "cancelled"}
      [] o.type = "status"  -> ledger[o.need] \in Terminal
      [] OTHER              -> ledger[o.need] = "matched"

Commit(o) ==
    /\ ledger' = [ledger EXCEPT ![o.need] =
        CASE o.type = "need"   -> "matched"
          [] o.type = "result" -> "completed"
          [] o.type = "revoke" -> "cancelled"
          [] o.type = "expire" -> "failed"
          [] OTHER -> @]
    /\ ledgerPartials' =
        [ledgerPartials EXCEPT ![o.need] = IF o.type = "partial" THEN @ + 1 ELSE @]

\* The operation succeeds and the handler learns it.
Succeed(c) ==
    /\ pc[c] = "calling"
    /\ Accepts(op[c])
    /\ Commit(op[c])
    /\ Goto(c, "committed")
    /\ UNCHANGED <<local, outputs, op, restarts, mode>>

\* Mutant: handlers go on after an error of the ledger.
ThrowSwallowed(c) ==
    /\ pc[c] = "calling"
    /\ UNCHANGED shared
    /\ Goto(c, IF op[c].type = "need" THEN "thrown" ELSE "committed")
    /\ UNCHANGED <<local, outputs, op, restarts, mode>>

\* The operation throws: refused by the ledger, or the store failed, or, with
\* the distributed ledger, its reply was lost after it was committed.  Only
\* the NEED handler has something to undo.  (A PARTIAL the ledger has already
\* is answered as a repetition; the status route finds nothing to do.)
Throw(c) ==
    /\ pc[c] = "calling"
    /\ \/ UNCHANGED shared
       \/ mode = "cosmos" /\ Accepts(op[c]) /\ Commit(op[c])
    /\ Goto(c, IF op[c].type = "need" THEN "thrown" ELSE "done")
    /\ UNCHANGED <<local, outputs, op, restarts, mode>>

\* Other relays share the ledger: they admit, stream and end NEEDs.
PeerAdmits(n) ==
    /\ Durable
    /\ ledger[n] = "absent"
    /\ ledger' = [ledger EXCEPT ![n] = "matched"]
    /\ UNCHANGED <<ledgerPartials, local, outputs, op, pc, restarts, mode>>

PeerStreams(n) ==
    /\ Durable
    /\ ledger[n] = "matched"
    /\ ledgerPartials[n] < MaxPartials
    /\ ledgerPartials' = [ledgerPartials EXCEPT ![n] = @ + 1]
    /\ UNCHANGED <<ledger, local, outputs, op, pc, restarts, mode>>

PeerEnds(n, to) ==
    /\ Durable
    /\ ledger[n] = "matched"
    /\ ledger' = [ledger EXCEPT ![n] = to]
    /\ UNCHANGED <<ledgerPartials, local, outputs, op, pc, restarts, mode>>

-----------------------------------------------------------------------------
\* POST /v1/fast/needs: no request and no trace of the identifier in memory.
\* (A look into the ledger refuses most duplicates here; it may be stale, and
\* decides nothing.)
NeedArrives(c, n) ==
    /\ request[n] = "none"
    /\ n \notin seen
    /\ Enter(c, [type |-> "need", need |-> n, sequence |-> 0], "reserving")
    /\ UNCHANGED <<shared, local, outputs, restarts, mode>>

\* Reserve room for the terminal event, make room in the map, claim the
\* identifier; undo the reservation when one of them fails.
NeedReserves(c) ==
    LET n == op[c].need
    IN  /\ pc[c] = "reserving"
        /\ \/ /\ TerminalsFull
              /\ Goto(c, "done")
              /\ UNCHANGED <<request, reserved, seen>>
           \/ /\ ~TerminalsFull
              /\ \E gone \in Prunings :
                /\ request' = [m \in Needs |-> IF m \in gone THEN "none" ELSE request[m]]
                /\ \/ /\ \/ Cardinality(Held \ gone) >= MaxRequests
                         \/ request'[n] # "none"
                         \/ n \in seen
                      /\ Goto(c, "done")
                      /\ UNCHANGED <<reserved, seen>>
                   \/ /\ Cardinality(Held \ gone) < MaxRequests
                      /\ request'[n] = "none"
                      /\ n \notin seen
                      /\ reserved' = reserved + 1
                      /\ ClaimNeedId(n)
                      /\ Goto(c, IF Durable THEN "calling" ELSE "committed")
        /\ UNCHANGED <<shared, outputs, holding, partials, inFlight, terminals, waiters, op, restarts, mode>>

\* Mutant: the room is not given back.
NeedThrownKeepingRoom(c) ==
    /\ pc[c] = "thrown"
    /\ Goto(c, "done")
    /\ UNCHANGED <<shared, outputs, local, op, restarts, mode>>

\* The ledger refused, or its answer is lost: give the room back.
NeedThrown(c) ==
    /\ pc[c] = "thrown"
    /\ reserved' = IF reserved > 0 THEN reserved - 1 ELSE reserved
    /\ Goto(c, "done")
    /\ UNCHANGED <<shared, outputs, request, holding, partials, inFlight, terminals, waiters, seen, op, restarts, mode>>

\* markMatchedRequest, the waiter of a caller that waits, and dispatch.
NeedAdmitted(c, waits) ==
    LET n == op[c].need
    IN  /\ pc[c] = "committed"
        /\ op[c].type = "need"
        /\ request[n] = "none"
        /\ request' = [request EXCEPT ![n] = "matched"]
        /\ inFlight' = inFlight + 1
        /\ holding' = holding \cup {n}
        /\ waiters' = IF waits THEN waiters \cup {n} ELSE waiters
        /\ dispatched' = [dispatched EXCEPT ![n] = @ + 1]
        /\ Goto(c, "done")
        /\ UNCHANGED <<shared, partials, reserved, terminals, seen, counted, told, op, restarts, mode>>

-----------------------------------------------------------------------------
\* RESULT, REVOKE and expiry of a request in memory that has not ended.
EndArrives(c, n, type) ==
    /\ type \in {"result", "revoke", "expire"}
    /\ request[n] = "matched"
    /\ Durable \/ type # "expire"
    /\ Enter(c, [type |-> type, need |-> n, sequence |-> 0],
             IF Durable THEN "calling" ELSE "committed")
    /\ UNCHANGED <<shared, local, outputs, restarts, mode>>

\* RESULT and REVOKE of a request this relay does not have, and a PARTIAL of
\* one: straight to the ledger, nothing else.  Only the distributed ledger
\* takes a RESULT or a PARTIAL this way.
Recover(c, o) ==
    /\ o.type \in {"result", "partial", "revoke"}
    /\ IF o.type = "revoke" THEN Durable ELSE mode = "cosmos"
    /\ request[o.need] = "none"
    /\ Accepts(o)
    /\ Enter(c, o, "done")
    /\ Commit(o)
    /\ UNCHANGED <<local, outputs, restarts, mode>>

\* queueFastTerminal to a requester that listens, does not listen, or does
\* not listen and has no room left.
ResultFinish(c, listens) ==
    LET n == op[c].need
        synchronous == partials[n] = 0 /\ n \in waiters
        full == ~synchronous /\ ~listens /\ Len(terminals) >= MaxTerminals
    IN  /\ pc[c] = "committed"
        /\ op[c].type = "result"
        /\ MarkRequestStatus(n, "completed")
        /\ counted' = [counted EXCEPT ![n] = @ + 1]
        /\ ReleaseFastTerminal(n)
        /\ waiters' = IF synchronous THEN waiters \ {n} ELSE waiters
        /\ terminals' = IF synchronous \/ listens \/ full THEN terminals ELSE Append(terminals, n)
        /\ told' = IF full THEN told ELSE [told EXCEPT ![n] = Append(@, <<"completed", 0>>)]
        /\ Goto(c, IF full THEN "terminal_capacity_invariant" ELSE "done")
        /\ UNCHANGED <<shared, partials, seen, dispatched, op, restarts, mode>>

RevokeFinish(c) ==
    LET n == op[c].need
    IN  /\ pc[c] = "committed"
        /\ op[c].type = "revoke"
        /\ MarkRequestStatus(n, "cancelled")
        /\ ReleaseFastTerminal(n)
        /\ FinishResultWaiter(n, "cancelled")
        /\ Goto(c, "done")
        /\ UNCHANGED <<shared, partials, terminals, seen, dispatched, counted, op, restarts, mode>>

ExpireFinish(c) ==
    LET n == op[c].need
    IN  /\ pc[c] = "committed"
        /\ op[c].type = "expire"
        /\ MarkRequestStatus(n, "failed")
        /\ ReleaseFastTerminal(n)
        /\ FinishResultWaiter(n, "failed")
        /\ Goto(c, "done")
        /\ UNCHANGED <<shared, partials, terminals, seen, dispatched, counted, op, restarts, mode>>

\* Expiry without a ledger does not await anything.
ExpireAtOnce(c, n) ==
    /\ ~Durable
    /\ request[n] = "matched"
    /\ Enter(c, [type |-> "expire", need |-> n, sequence |-> 0], "done")
    /\ MarkRequestStatus(n, "failed")
    /\ ReleaseFastTerminal(n)
    /\ FinishResultWaiter(n, "failed")
    /\ UNCHANGED <<shared, partials, terminals, seen, dispatched, counted, restarts, mode>>

-----------------------------------------------------------------------------
\* The next PARTIAL of a request in memory.
PartialArrives(c, n) ==
    /\ request[n] = "matched"
    /\ partials[n] < MaxPartials
    /\ Enter(c, [type |-> "partial", need |-> n, sequence |-> partials[n]],
             IF Durable THEN "calling" ELSE "committed")
    /\ UNCHANGED <<shared, local, outputs, restarts, mode>>

\* queueFast to the requester.  With a ledger, a PARTIAL that finds no room
\* is left to the outbox; without one it is refused.  The first PARTIAL
\* answers the waiter.
PartialFinish(c, room) ==
    LET n == op[c].need
    IN  /\ pc[c] = "committed"
        /\ op[c].type = "partial"
        /\ Goto(c, "done")
        /\ IF room \/ Durable
             THEN /\ partials' = [partials EXCEPT ![n] = op[c].sequence + 1]
                  /\ waiters' = IF partials[n] = 0 THEN waiters \ {n} ELSE waiters
             ELSE UNCHANGED <<partials, waiters>>
        /\ told' = IF room THEN [told EXCEPT ![n] = Append(@, <<"PARTIAL", op[c].sequence>>)] ELSE told
        /\ UNCHANGED <<shared, request, holding, reserved, inFlight, terminals, seen,
                       dispatched, counted, op, restarts, mode>>

-----------------------------------------------------------------------------
\* GET /v1/fast/requests/:id asks the ledger and believes it.
StatusArrives(c, n) ==
    /\ Durable
    /\ request[n] # "none"
    /\ Enter(c, [type |-> "status", need |-> n, sequence |-> 0], "calling")
    /\ UNCHANGED <<shared, local, outputs, restarts, mode>>

StatusFinish(c) ==
    LET n == op[c].need
    IN  /\ pc[c] = "committed"
        /\ op[c].type = "status"
        /\ MarkRequestStatus(n, ledger[n])
        /\ Goto(c, "done")
        /\ UNCHANGED <<shared, outputs, holding, partials, reserved, terminals, waiters, seen, op, restarts, mode>>

\* A waiter times out, or its caller hangs up.
WaiterGone(n) ==
    /\ n \in waiters
    /\ waiters' = waiters \ {n}
    /\ UNCHANGED <<shared, outputs, request, holding, partials, reserved, inFlight, terminals, seen, op, pc, restarts, mode>>

\* The requester polls, or connects a socket that takes some of the queue.
Drain(k) ==
    /\ terminals' = SubSeq(terminals, k + 1, Len(terminals))
    /\ UNCHANGED <<shared, outputs, request, holding, partials, reserved, inFlight, waiters, seen, op, pc, restarts, mode>>

\* commitStaleNodeEviction of the requester, for the sake of a node that
\* registers at the node limit.  The requester may register again at once.
Evict ==
    /\ Maintenance
    /\ reserved' = 0
    /\ terminals' = <<>>
    /\ UNCHANGED <<shared, outputs, request, holding, partials, inFlight, waiters, seen, op, pc, restarts, mode>>

\* The relay crashes and starts again: memory and running handlers are gone.
Restart ==
    /\ Durable
    /\ restarts < MaxRestarts
    /\ restarts' = restarts + 1
    /\ request' = [n \in Needs |-> "none"]
    /\ holding' = {}
    /\ partials' = [n \in Needs |-> 0]
    /\ reserved' = 0
    /\ inFlight' = 0
    /\ terminals' = <<>>
    /\ waiters' = {}
    /\ pc' = [c \in Calls |-> IF pc[c] = "idle" THEN "idle" ELSE "done"]
    /\ UNCHANGED <<shared, outputs, seen, op, mode>>

Next ==
    \/ \E c \in Calls :
        \/ Succeed(c)
        \/ Throw(c)
        \/ \E n \in Needs :
            \/ NeedArrives(c, n)
            \/ PartialArrives(c, n)
            \/ StatusArrives(c, n)
            \/ ExpireAtOnce(c, n)
            \/ \E type \in {"result", "revoke", "expire"} : EndArrives(c, n, type)
        \/ NeedReserves(c)
        \/ NeedThrown(c)
        \/ \E waits \in BOOLEAN : NeedAdmitted(c, waits)
        \/ \E o \in Operations : Recover(c, o)
        \/ \E listens \in BOOLEAN : ResultFinish(c, listens)
        \/ RevokeFinish(c)
        \/ ExpireFinish(c)
        \/ \E room \in BOOLEAN : PartialFinish(c, room)
        \/ StatusFinish(c)
    \/ \E n \in Needs :
        \/ PeerAdmits(n)
        \/ PeerStreams(n)
        \/ \E to \in Terminal : PeerEnds(n, to)
        \/ WaiterGone(n)
    \/ \E k \in 1..Len(terminals) : Drain(k)
    \/ Evict
    \/ Restart

Spec == Init /\ [][Next]_vars

-----------------------------------------------------------------------------
Pcs == {"idle", "reserving", "calling", "committed", "thrown", "done", "terminal_capacity_invariant"}

Told == (Terminal \cup {"PARTIAL"}) \X Nat

\* Every variable has its type.
TypeOK ==
    /\ ledger \in [Needs -> {"absent", "matched"} \cup Terminal]
    /\ ledgerPartials \in [Needs -> Nat]
    /\ request \in [Needs -> {"none", "matched"} \cup Terminal]
    /\ holding \in SUBSET Needs
    /\ partials \in [Needs -> Nat]
    /\ reserved \in Nat
    /\ inFlight \in Nat
    /\ terminals \in Seq(Needs)
    /\ waiters \in SUBSET Needs
    /\ seen \in SUBSET Needs
    /\ dispatched \in [Needs -> Nat]
    /\ counted \in [Needs -> Nat]
    /\ told \in [Needs -> Seq(Told)]
    /\ op \in [Calls -> Operations \cup {NoOperation}]
    /\ pc \in [Calls -> Pcs]

\* The calls that hold a reservation which no request object carries yet.
Admitting ==
    {c \in Calls : op[c].type = "need" /\ pc[c] \in {"calling", "committed", "thrown"}}

\* The ends the requester was told, and the PARTIALs.
Ends(n) == {i \in 1..Len(told[n]) : told[n][i][1] \in Terminal}

Streamed(n) == {i \in 1..Len(told[n]) : told[n][i][1] = "PARTIAL"}

\* A NEED whose identifier was claimed never meets a request of the same
\* identifier (markMatchedRequest does not throw), and no identifier is
\* dispatched twice in the life of this relay process; with a ledger, not
\* even across restarts.
DispatchedOnce ==
    /\ \A n \in Needs : dispatched[n] <= 1
    /\ \A c \in Calls :
        (pc[c] = "committed" /\ op[c].type = "need") => request[op[c].need] = "none"

\* "Fail closed; never replace an already committed terminal state": an end
\* this relay shows, and every end it told the requester, is the end the
\* ledger holds, whatever handlers, peers and lost replies raced.
EndsAreCommitted ==
    \A n \in Needs :
        /\ request[n] \in Terminal => ledger[n] = request[n]
        /\ \A i \in Ends(n) : ledger[n] = told[n][i][1]

\* "second terminal delivery/accounting/statistics increment" is forbidden.
OneTerminal ==
    \A n \in Needs :
        /\ counted[n] <= 1
        /\ Cardinality(Ends(n)) <= 1

\* "A reservation guarantees room for its eventual terminal event", "pending
\* and queued terminals share one bound": with a ledger to decide between
\* rival RESULTs, the bound holds and no RESULT is ever turned away with
\* terminal_capacity_invariant.
TerminalRoom ==
    Durable =>
        /\ Len(terminals) + reserved <= MaxTerminals
        /\ \A c \in Calls : pc[c] # "terminal_capacity_invariant"

\* The count of reservations is exactly the requests that hold one and the
\* NEEDs being admitted: none is counted twice or lost.
ReservationsCounted == reserved = Cardinality(holding) + Cardinality(Admitting)

\* "Exact in-flight counts": every matched request is counted once, however
\* often handlers overwrite a status.
InFlightExact == inFlight = Cardinality({n \in Needs : request[n] = "matched"})

\* The requester is sent the PARTIALs of a NEED in order, none twice, though
\* a handler advances the sequence from a number it read before its await.
PartialsInOrder ==
    \A n \in Needs : \A i, j \in Streamed(n) : i < j => told[n][i][2] < told[n][j][2]
-----------------------------------------------------------------------------
(***************************************************************************)
(* Proofs.  RelayInv is inductive: it adds to the properties above who may *)
(* be at which await of its handler, and what the ledger then holds.       *)
(***************************************************************************)

\* The identifier of a NEED was claimed: by the ledger, or in seenNeedIds.
Claimed(n) == IF Durable THEN ledger[n] # "absent" ELSE n \in seen

\* A call is at stage with an operation of this type.
At(c, type, stage) == pc[c] = stage /\ op[c].type = type

\* A call runs its handler beyond the first await.
Active(c) == pc[c] \in {"calling", "committed"}

\* Only NEEDs reserve and are undone; without a ledger nothing is sent to one.
StagesFit ==
    \A c \in Calls :
        /\ pc[c] \in {"reserving", "thrown"} => op[c].type = "need"
        /\ pc[c] \notin {"idle", "done"} => op[c] \in Operations
        /\ ~Durable => pc[c] # "calling" /\ ~At(c, "status", "committed")

\* Nothing was done for a NEED whose identifier nobody claimed.
Unclaimed ==
    \A n \in Needs : ~Claimed(n) =>
        /\ dispatched[n] = 0
        /\ \A c \in Calls : ~(At(c, "need", "committed") /\ op[c].need = n)

\* Before a NEED is dispatched there is no trace of it but its reservation.
Undispatched ==
    \A n \in Needs : dispatched[n] = 0 =>
        /\ request[n] = "none" /\ n \notin holding /\ n \notin waiters
        /\ partials[n] = 0 /\ counted[n] = 0 /\ told[n] = <<>>
        /\ \A c \in Calls : Active(c) /\ op[c].need = n => op[c].type = "need"

\* One call was given the identifier, and it has not dispatched yet.
OneAdmitter ==
    \A c \in Calls : At(c, "need", "committed") =>
        /\ dispatched[op[c].need] = 0
        /\ \A d \in Calls : At(d, "need", "committed") /\ op[d].need = op[c].need => d = c

\* The end that the ledger gave to a call is the end that it holds.
EndKnown ==
    \A c \in Calls :
        /\ At(c, "result", "committed") => ledger[op[c].need] = "completed"
        /\ At(c, "revoke", "committed") => ledger[op[c].need] = "cancelled"
        /\ At(c, "expire", "committed") => ledger[op[c].need] = "failed"
        /\ At(c, "status", "committed") => ledger[op[c].need] \in Terminal

\* Of rival RESULTs one commits, and it has told and counted nothing yet.
OneResult ==
    /\ \A n \in Needs : ledger[n] # "completed" => counted[n] = 0
    /\ \A c \in Calls : At(c, "result", "committed") =>
        /\ counted[op[c].need] = 0 /\ Ends(op[c].need) = {}
        /\ \A d \in Calls : At(d, "result", "committed") /\ op[d].need = op[c].need => d = c

\* A waiter has not been told an end, unless by the RESULT after PARTIALs.
WaitersUntold ==
    \A n \in Needs : n \in waiters /\ ledger[n] # "completed" => Ends(n) = {}

OneEndTold ==
    \A n \in Needs : counted[n] <= 1 /\ \A i, j \in Ends(n) : i = j

\* Of rival PARTIALs one commits, and memory follows the ledger.
OnePartial ==
    /\ \A n \in Needs : partials[n] <= ledgerPartials[n]
    /\ \A c \in Calls : op[c].type = "partial" /\ Active(c) => op[c].sequence <= partials[op[c].need]
    /\ \A c \in Calls : At(c, "partial", "committed") =>
        /\ op[c].sequence = partials[op[c].need]
        /\ op[c].sequence < ledgerPartials[op[c].need]
        /\ \A d \in Calls : At(d, "partial", "committed") /\ op[d].need = op[c].need => d = c

\* What was streamed of a NEED that may stream on is below its next PARTIAL.
StreamedBelow ==
    \A n \in Needs :
        (\/ request[n] = "matched"
         \/ \E c \in Calls : Active(c) /\ op[c].type = "partial" /\ op[c].need = n) =>
            \A i \in Streamed(n) : told[n][i][2] < partials[n]

\* What the ledger decides, when there is one.
LedgerDecides ==
    /\ EndKnown /\ EndsAreCommitted /\ OneResult /\ WaitersUntold /\ OneEndTold
    /\ OnePartial /\ StreamedBelow /\ PartialsInOrder

\* A RESULT that can still commit, or has, has the room that was reserved.
RoomHeld ==
    /\ \A n \in Needs : request[n] = "matched" /\ ledger[n] = "matched" => n \in holding
    /\ \A c \in Calls : /\ At(c, "result", "calling") /\ ledger[op[c].need] = "matched" => op[c].need \in holding
                        /\ At(c, "result", "committed") => op[c].need \in holding

\* What holds of every relay, and the books of one that evicts nobody.
RelayInv ==
    /\ TypeOK /\ StagesFit /\ Unclaimed /\ Undispatched /\ OneAdmitter /\ DispatchedOnce
    /\ InFlightExact
    /\ Durable => LedgerDecides

BooksInv ==
    ~Maintenance => /\ ReservationsCounted
                    /\ Durable => RoomHeld /\ TerminalRoom

-----------------------------------------------------------------------------
LEMMA OperationTyped ==
    ASSUME NEW o \in Operations
    PROVE  /\ o.need \in Needs /\ o.sequence \in Nat
           /\ o.type \in {"need", "result", "revoke", "expire", "status", "partial"}
BY DEF Operations

LEMMA CallTyped ==
    ASSUME TypeOK, StagesFit, NEW c \in Calls, pc[c] \notin {"idle", "done"}
    PROVE  /\ op[c] \in Operations /\ op[c].need \in Needs /\ op[c].sequence \in Nat
           /\ op[c].type \in {"need", "result", "revoke", "expire", "status", "partial"}
BY OperationTyped DEF StagesFit

LEMMA TypeInit == RelayAssumption /\ Init => TypeOK
BY DEF Init, TypeOK, RelayAssumption, Pcs, Terminal

\* A call that enters its handler has an operation.
LEMMA EnterTyped ==
    ASSUME TypeOK, NEW c \in Calls, NEW o \in Operations, NEW stage \in Pcs, Enter(c, o, stage)
    PROVE  /\ op' \in [Calls -> Operations \cup {NoOperation}] /\ pc' \in [Calls -> Pcs]
           /\ op'[c] = o /\ pc'[c] = stage /\ pc[c] = "idle"
           /\ \A d \in Calls : d # c => op'[d] = op[d] /\ pc'[d] = pc[d]
BY DEF TypeOK, Enter, Goto

LEMMA CommitTyped ==
    ASSUME TypeOK, NEW o \in Operations, Commit(o)
    PROVE  /\ ledger' \in [Needs -> {"absent", "matched"} \cup Terminal]
           /\ ledgerPartials' \in [Needs -> Nat]
<1>1. o.need \in Needs
  BY OperationTyped
<1>2. ledger' \in [Needs -> {"absent", "matched"} \cup Terminal]
  BY <1>1 DEF TypeOK, Commit, Terminal
<1>3. ledgerPartials' \in [Needs -> Nat]
  BY SMTT(60), <1>1 DEF TypeOK, Commit
<1> QED
  BY <1>2, <1>3

\* The variables of the relay process other than those of its calls.
rest == <<request, holding, partials, reserved, inFlight, terminals, waiters, seen,
          dispatched, counted, told>>

LEMMA EntersTyped ==
    ASSUME RelayAssumption, TypeOK, NEW c \in Calls, NEW n \in Needs,
           \/ NeedArrives(c, n) \/ PartialArrives(c, n) \/ StatusArrives(c, n)
           \/ \E type \in {"result", "revoke", "expire"} : EndArrives(c, n, type)
    PROVE  TypeOK'
<1>1. UNCHANGED <<ledger, ledgerPartials, rest>>
  BY DEF NeedArrives, PartialArrives, StatusArrives, EndArrives, shared, local, outputs, rest
<1>2. \E o \in Operations, stage \in Pcs : Enter(c, o, stage)
  <2>1. CASE NeedArrives(c, n)
    <3>1. [type |-> "need", need |-> n, sequence |-> 0] \in Operations /\ "reserving" \in Pcs
      BY DEF Operations, Pcs
    <3> QED
      BY <2>1, <3>1 DEF NeedArrives
  <2>2. CASE PartialArrives(c, n)
    <3>1. [type |-> "partial", need |-> n, sequence |-> partials[n]] \in Operations
      BY <2>2 DEF PartialArrives, Operations, TypeOK, RelayAssumption
    <3>2. "calling" \in Pcs /\ "committed" \in Pcs
      BY DEF Pcs
    <3> QED
      BY <2>2, <3>1, <3>2 DEF PartialArrives
  <2>3. CASE StatusArrives(c, n)
    <3>1. [type |-> "status", need |-> n, sequence |-> 0] \in Operations /\ "calling" \in Pcs
      BY DEF Operations, Pcs
    <3> QED
      BY <2>3, <3>1 DEF StatusArrives
  <2>4. ASSUME NEW type \in {"result", "revoke", "expire"}, EndArrives(c, n, type)
        PROVE  \E o \in Operations, stage \in Pcs : Enter(c, o, stage)
    <3>1. [type |-> type, need |-> n, sequence |-> 0] \in Operations
      BY DEF Operations
    <3>2. "calling" \in Pcs /\ "committed" \in Pcs
      BY DEF Pcs
    <3> QED
      BY <2>4, <3>1, <3>2 DEF EndArrives
  <2> QED
    BY <2>1, <2>2, <2>3, <2>4
<1>3. op' \in [Calls -> Operations \cup {NoOperation}] /\ pc' \in [Calls -> Pcs]
  BY <1>2, EnterTyped
<1> QED
  BY <1>1, <1>3 DEF TypeOK, rest

LEMMA LedgerTyped ==
    ASSUME TypeOK, StagesFit, NEW c \in Calls,
           Succeed(c) \/ Throw(c) \/ \E o \in Operations : Recover(c, o)
    PROVE  TypeOK'
<1>1. UNCHANGED rest
  BY DEF Succeed, Throw, Recover, local, outputs, rest
<1>2. op' \in [Calls -> Operations \cup {NoOperation}] /\ pc' \in [Calls -> Pcs]
  <2>1. CASE Succeed(c) \/ Throw(c)
    BY <2>1 DEF Succeed, Throw, Goto, TypeOK, Pcs
  <2>2. CASE \E o \in Operations : Recover(c, o)
    BY <2>2 DEF Recover, Enter, Goto, TypeOK, Pcs
  <2> QED
    BY <2>1, <2>2
<1>3. /\ ledger' \in [Needs -> {"absent", "matched"} \cup Terminal]
      /\ ledgerPartials' \in [Needs -> Nat]
  <2>1. CASE Succeed(c) \/ Throw(c)
    <3>1. pc[c] \notin {"idle", "done"}
      BY <2>1 DEF Succeed, Throw
    <3>2. op[c] \in Operations
      BY <3>1, CallTyped
    <3>3. Commit(op[c]) \/ UNCHANGED <<ledger, ledgerPartials>>
      BY <2>1 DEF Succeed, Throw, shared
    <3> QED
      BY <3>2, <3>3, CommitTyped DEF TypeOK
  <2>2. CASE \E o \in Operations : Recover(c, o)
    BY <2>2, CommitTyped DEF Recover
  <2> QED
    BY <2>1, <2>2
<1> QED
  BY <1>1, <1>2, <1>3 DEF TypeOK, rest

LEMMA PeersTyped ==
    ASSUME TypeOK, NEW n \in Needs,
           PeerAdmits(n) \/ PeerStreams(n) \/ \E to \in Terminal : PeerEnds(n, to)
    PROVE  TypeOK'
<1>1. UNCHANGED <<rest, op, pc>>
  BY DEF PeerAdmits, PeerStreams, PeerEnds, local, outputs, rest
<1>2. ledger' \in [Needs -> {"absent", "matched"} \cup Terminal]
  BY ZenonT(60) DEF PeerAdmits, PeerStreams, PeerEnds, TypeOK
<1>3. ledgerPartials' \in [Needs -> Nat]
  <2>1. CASE PeerStreams(n)
    BY <2>1 DEF PeerStreams, TypeOK
  <2>2. CASE UNCHANGED ledgerPartials
    BY <2>2 DEF TypeOK
  <2> QED
    BY <2>1, <2>2 DEF PeerAdmits, PeerEnds
<1> QED
  BY <1>1, <1>2, <1>3 DEF TypeOK, rest

LEMMA ReservesTyped ==
    ASSUME TypeOK, StagesFit, NEW c \in Calls, NeedReserves(c) \/ NeedThrown(c)
    PROVE  TypeOK'
<1>1. UNCHANGED <<ledger, ledgerPartials, holding, partials, inFlight, terminals, waiters,
                  dispatched, counted, told, op>>
  BY DEF NeedReserves, NeedThrown, shared, outputs
<1>2. pc' \in [Calls -> Pcs]
  <2>1. \E stage \in {"done", "calling", "committed"} : Goto(c, stage)
    BY DEF NeedReserves, NeedThrown
  <2> QED
    BY <2>1 DEF Goto, TypeOK, Pcs
<1>3. reserved' \in Nat
  <2>1. reserved' = reserved \/ reserved' = reserved + 1 \/ (reserved > 0 /\ reserved' = reserved - 1)
    BY DEF NeedReserves, NeedThrown
  <2> QED
    BY <2>1 DEF TypeOK
<1>4. seen' \in SUBSET Needs
  <2>1. pc[c] \notin {"idle", "done"}
    BY DEF NeedReserves, NeedThrown
  <2>2. op[c].need \in Needs
    BY <2>1, CallTyped
  <2> QED
    BY ZenonT(60), <2>2 DEF NeedReserves, NeedThrown, ClaimNeedId, TypeOK
<1>5. request' \in [Needs -> {"none", "matched"} \cup Terminal]
  <2>1. CASE UNCHANGED request
    BY <2>1 DEF TypeOK
  <2>2. ASSUME NEW gone, request' = [m \in Needs |-> IF m \in gone THEN "none" ELSE request[m]]
        PROVE  request' \in [Needs -> {"none", "matched"} \cup Terminal]
    BY <2>2 DEF TypeOK
  <2> QED
    BY <2>1, <2>2 DEF NeedReserves, NeedThrown
<1> QED
  BY <1>1, <1>2, <1>3, <1>4, <1>5 DEF TypeOK

LEMMA AdmittedTyped ==
    ASSUME TypeOK, StagesFit, NEW c \in Calls, NEW waits \in BOOLEAN, NeedAdmitted(c, waits)
    PROVE  TypeOK'
<1> DEFINE n == op[c].need
<1>1. n \in Needs
  BY CallTyped DEF NeedAdmitted
<1>2. UNCHANGED <<ledger, ledgerPartials, partials, reserved, terminals, seen, counted, told, op>>
  BY DEF NeedAdmitted, shared
<1>3. pc' \in [Calls -> Pcs] /\ inFlight' \in Nat
  BY DEF NeedAdmitted, Goto, TypeOK, Pcs
<1>4. request' \in [Needs -> {"none", "matched"} \cup Terminal] /\ holding' \in SUBSET Needs
  BY <1>1 DEF NeedAdmitted, TypeOK
<1>5. waiters' \in SUBSET Needs /\ dispatched' \in [Needs -> Nat]
  BY SMTT(60), <1>1 DEF NeedAdmitted, TypeOK
<1> QED
  BY <1>2, <1>3, <1>4, <1>5 DEF TypeOK

\* markRequestStatus and releaseFastTerminal, of a request that has its end.
\* A matched request is one of those that inFlight counts.
LEMMA MarksTyped ==
    ASSUME TypeOK, NEW n \in Needs, NEW to \in Terminal, MarkRequestStatus(n, to),
           request[n] = "matched" => inFlight > 0
    PROVE  /\ request' \in [Needs -> {"none", "matched"} \cup Terminal] /\ inFlight' \in Nat
           /\ request'[n] = IF request[n] = "none" THEN "none" ELSE to
           /\ \A m \in Needs : m # n => request'[m] = request[m]
<1>1. inFlight' \in Nat
  BY DEF MarkRequestStatus, TypeOK
<1>2. request' \in [Needs -> {"none", "matched"} \cup Terminal]
  BY DEF MarkRequestStatus, TypeOK
<1>3. /\ request'[n] = IF request[n] = "none" THEN "none" ELSE to
      /\ \A m \in Needs : m # n => request'[m] = request[m]
  BY DEF MarkRequestStatus, TypeOK
<1> QED
  BY <1>1, <1>2, <1>3

LEMMA ReleasesTyped ==
    ASSUME TypeOK, NEW n \in Needs, ReleaseFastTerminal(n)
    PROVE  /\ holding' \in SUBSET Needs /\ reserved' \in Nat
           /\ holding' = holding \ {n}
BY DEF ReleaseFastTerminal, TypeOK

\* What the requester is told is appended.
Tells(n, event) ==
    \/ UNCHANGED told
    \/ told' = [told EXCEPT ![n] = Append(@, event)]

LEMMA TellsTyped ==
    ASSUME TypeOK, NEW n \in Needs, NEW event \in Told, Tells(n, event)
    PROVE  told' \in [Needs -> Seq(Told)]
<1>1. told[n] \in Seq(Told) /\ told \in [Needs -> Seq(Told)]
  BY DEF TypeOK
<1>2. Append(told[n], event) \in Seq(Told)
  BY <1>1, AppendProperties
<1> QED
  BY <1>1, <1>2 DEF Tells

\* inFlight follows the request that is matched or ends.
LEMMA CountFollows ==
    ASSUME IsFiniteSet(Needs), TypeOK, InFlightExact, NEW n \in Needs,
           request' \in [Needs -> {"none", "matched"} \cup Terminal],
           \A m \in Needs : m # n => request'[m] = request[m],
           \/ request[n] # "matched" /\ request'[n] = "matched" /\ inFlight' = inFlight + 1
           \/ request[n] = "matched" /\ request'[n] # "matched" /\ inFlight' = inFlight - 1
           \/ request[n] # "matched" /\ request'[n] # "matched" /\ inFlight' = inFlight
    PROVE  InFlightExact' /\ inFlight' \in Nat
<1> DEFINE was == {m \in Needs : request[m] = "matched"}
           now == {m \in Needs : request'[m] = "matched"}
<1>1. IsFiniteSet(was) /\ IsFiniteSet(now)
  <2>1. was \in SUBSET Needs /\ now \in SUBSET Needs
    OBVIOUS
  <2> HIDE DEF was, now
  <2> QED
    BY <2>1, FS_Subset
<1>2. inFlight = Cardinality(was)
  BY DEF InFlightExact
<1>3. Cardinality(was) \in Nat /\ Cardinality(now) \in Nat
  <2> HIDE DEF was, now
  <2> QED
    BY <1>1, FS_CardinalityType
<1>4. inFlight' = Cardinality(now)
  <2>1. CASE request[n] # "matched" /\ request'[n] = "matched" /\ inFlight' = inFlight + 1
    <3>1. now = was \cup {n} /\ n \notin was
      BY <2>1
    <3> HIDE DEF was, now
    <3> QED
      BY <1>1, <1>2, <2>1, <3>1, FS_AddElement
  <2>2. CASE request[n] = "matched" /\ request'[n] # "matched" /\ inFlight' = inFlight - 1
    <3>1. now = was \ {n} /\ n \in was
      BY <2>2
    <3> HIDE DEF was, now
    <3> QED
      BY <1>1, <1>2, <2>2, <3>1, FS_RemoveElement
  <2>3. CASE request[n] # "matched" /\ request'[n] # "matched" /\ inFlight' = inFlight
    <3>1. now = was
      BY <2>3
    <3> QED
      BY <1>2, <2>3, <3>1
  <2> QED
    BY <2>1, <2>2, <2>3
<1> QED
  BY <1>3, <1>4 DEF InFlightExact

LEMMA MatchedIsCounted ==
    ASSUME IsFiniteSet(Needs), TypeOK, InFlightExact, NEW n \in Needs, request[n] = "matched"
    PROVE  inFlight > 0
<1> DEFINE was == {m \in Needs : request[m] = "matched"}
<1>1. was \in SUBSET Needs /\ n \in was /\ inFlight = Cardinality(was)
  BY DEF InFlightExact
<1> HIDE DEF was
<1>2. IsFiniteSet(was)
  BY <1>1, FS_Subset
<1>3. Cardinality(was) \in Nat /\ Cardinality(was) # 0
  BY <1>1, <1>2, FS_CardinalityType, FS_EmptySet
<1> QED
  BY <1>1, <1>3

LEMMA MarksCounted ==
    ASSUME IsFiniteSet(Needs), TypeOK, InFlightExact, NEW n \in Needs, NEW to \in Terminal,
           MarkRequestStatus(n, to)
    PROVE  /\ InFlightExact' /\ inFlight' \in Nat
           /\ request' \in [Needs -> {"none", "matched"} \cup Terminal]
           /\ request'[n] = IF request[n] = "none" THEN "none" ELSE to
           /\ \A m \in Needs : m # n => request'[m] = request[m]
<1>1. /\ request' \in [Needs -> {"none", "matched"} \cup Terminal]
      /\ request'[n] = IF request[n] = "none" THEN "none" ELSE to
      /\ \A m \in Needs : m # n => request'[m] = request[m]
  BY MatchedIsCounted, MarksTyped
<1>2. inFlight' = IF request[n] = "matched" THEN inFlight - 1 ELSE inFlight
  BY DEF MarkRequestStatus
<1>3. to # "matched"
  BY SMTT(60) DEF Terminal
<1> QED
  BY <1>1, <1>2, <1>3, CountFollows

\* What a handler that ends a request does, whichever it is.
Ending(c, n, to) ==
    /\ to \in Terminal /\ MarkRequestStatus(n, to)
    /\ UNCHANGED <<ledger, ledgerPartials, partials, seen, dispatched, restarts, mode>>
    /\ waiters' \in {waiters, waiters \ {n}}
    /\ Tells(n, <<to, 0>>)
    /\ \A d \in Calls : d # c => op'[d] = op[d] /\ pc'[d] = pc[d]
    /\ pc'[c] \in {"done", "terminal_capacity_invariant"}

\* The handlers that end a request, by the end they give it.
LEMMA EndingIs ==
    ASSUME TypeOK, StagesFit, EndKnown \/ ~Durable, NEW c \in Calls
    PROVE  /\ \A listens \in BOOLEAN :
                ResultFinish(c, listens) => op[c].need \in Needs /\ Ending(c, op[c].need, "completed")
           /\ RevokeFinish(c) => op[c].need \in Needs /\ Ending(c, op[c].need, "cancelled")
           /\ ExpireFinish(c) => op[c].need \in Needs /\ Ending(c, op[c].need, "failed")
           /\ StatusFinish(c) => op[c].need \in Needs /\ Ending(c, op[c].need, ledger[op[c].need])
           /\ \A n \in Needs : ExpireAtOnce(c, n) => Ending(c, n, "failed")
<1> USE DEF Ending, Tells, Goto, TypeOK, shared, Terminal
<1>1. pc[c] = "committed" => op[c].need \in Needs
  BY CallTyped
<1>2. ASSUME NEW listens \in BOOLEAN, ResultFinish(c, listens)
      PROVE  op[c].need \in Needs /\ Ending(c, op[c].need, "completed")
  BY <1>1, <1>2 DEF ResultFinish
<1>3. ASSUME RevokeFinish(c)
      PROVE  op[c].need \in Needs /\ Ending(c, op[c].need, "cancelled")
  BY <1>1, <1>3 DEF RevokeFinish, FinishResultWaiter
<1>4. ASSUME ExpireFinish(c)
      PROVE  op[c].need \in Needs /\ Ending(c, op[c].need, "failed")
  BY <1>1, <1>4 DEF ExpireFinish, FinishResultWaiter
<1>5. ASSUME StatusFinish(c)
      PROVE  op[c].need \in Needs /\ Ending(c, op[c].need, ledger[op[c].need])
  <2>1. ledger[op[c].need] \in Terminal
    BY <1>5 DEF StatusFinish, EndKnown, StagesFit, At
  <2> QED
    BY <1>1, <1>5, <2>1 DEF StatusFinish, outputs
<1>6. ASSUME NEW n \in Needs, ExpireAtOnce(c, n)
      PROVE  Ending(c, n, "failed")
  BY <1>6 DEF ExpireAtOnce, Enter, FinishResultWaiter
<1> QED
  BY <1>2, <1>3, <1>4, <1>5, <1>6

\* The actions that end a request.
EndStep(c, n, to) ==
    \/ /\ n = op[c].need
       /\ \/ to = "completed" /\ \E listens \in BOOLEAN : ResultFinish(c, listens)
          \/ to = "cancelled" /\ RevokeFinish(c)
          \/ to = "failed" /\ ExpireFinish(c)
          \/ to = ledger[n] /\ StatusFinish(c)
    \/ to = "failed" /\ ExpireAtOnce(c, n)

LEMMA EndStepIs ==
    ASSUME TypeOK, StagesFit, EndKnown \/ ~Durable, NEW c \in Calls,
           \/ \E listens \in BOOLEAN : ResultFinish(c, listens)
           \/ RevokeFinish(c) \/ ExpireFinish(c) \/ StatusFinish(c)
           \/ \E n \in Needs : ExpireAtOnce(c, n)
    PROVE  \E n \in Needs, to \in Terminal : EndStep(c, n, to) /\ Ending(c, n, to)
<1>1. \A n, to : Ending(c, n, to) => to \in Terminal
  BY DEF Ending
<1>2. CASE \E listens \in BOOLEAN : ResultFinish(c, listens)
  <2>1. op[c].need \in Needs /\ Ending(c, op[c].need, "completed") /\ EndStep(c, op[c].need, "completed")
    BY <1>2, EndingIs DEF EndStep
  <2> QED
    BY <1>1, <2>1
<1>3. CASE RevokeFinish(c)
  <2>1. op[c].need \in Needs /\ Ending(c, op[c].need, "cancelled") /\ EndStep(c, op[c].need, "cancelled")
    BY <1>3, EndingIs DEF EndStep
  <2> QED
    BY <1>1, <2>1
<1>4. CASE ExpireFinish(c)
  <2>1. op[c].need \in Needs /\ Ending(c, op[c].need, "failed") /\ EndStep(c, op[c].need, "failed")
    BY <1>4, EndingIs DEF EndStep
  <2> QED
    BY <1>1, <2>1
<1>5. CASE StatusFinish(c)
  <2>1. /\ op[c].need \in Needs /\ Ending(c, op[c].need, ledger[op[c].need])
        /\ EndStep(c, op[c].need, ledger[op[c].need])
    BY <1>5, EndingIs DEF EndStep
  <2> QED
    BY <1>1, <2>1
<1>6. ASSUME NEW n \in Needs, ExpireAtOnce(c, n)
      PROVE  \E m \in Needs, to \in Terminal : EndStep(c, m, to) /\ Ending(c, m, to)
  <2>1. Ending(c, n, "failed") /\ EndStep(c, n, "failed")
    BY <1>6, EndingIs DEF EndStep
  <2> QED
    BY <1>1, <2>1
<1> QED
  BY <1>2, <1>3, <1>4, <1>5, <1>6

LEMMA EndsTyped ==
    ASSUME IsFiniteSet(Needs), TypeOK, StagesFit, InFlightExact, NEW c \in Calls, NEW n \in Needs,
           NEW to \in Terminal, EndStep(c, n, to), Ending(c, n, to)
    PROVE  TypeOK'
<1>1. UNCHANGED <<ledger, ledgerPartials, partials, seen, dispatched>> /\ waiters' \in SUBSET Needs
  BY DEF Ending, TypeOK
<1>2. inFlight' \in Nat /\ request' \in [Needs -> {"none", "matched"} \cup Terminal]
  BY MarksCounted DEF Ending
<1>3. told' \in [Needs -> Seq(Told)]
  <2>1. <<to, 0>> \in Told
    BY DEF Told
  <2> QED
    BY <2>1, TellsTyped DEF Ending
<1>4. counted' \in [Needs -> Nat]
  <2>1. UNCHANGED counted \/ counted' = [counted EXCEPT ![n] = @ + 1]
    BY DEF EndStep, ResultFinish, RevokeFinish, ExpireFinish, StatusFinish, ExpireAtOnce, outputs
  <2>2. counted \in [Needs -> Nat]
    BY DEF TypeOK
  <2> QED
    BY SMTT(60), <2>1, <2>2
<1>5. holding' \in SUBSET Needs /\ reserved' \in Nat
  <2>1. ReleaseFastTerminal(n) \/ UNCHANGED <<holding, reserved>>
    BY DEF EndStep, ResultFinish, RevokeFinish, ExpireFinish, StatusFinish, ExpireAtOnce
  <2> QED
    BY SMTT(60), <2>1, ReleasesTyped DEF TypeOK
<1>6. terminals' \in Seq(Needs)
  <2>1. terminals' = terminals \/ terminals' = Append(terminals, n)
    BY DEF EndStep, ResultFinish, RevokeFinish, ExpireFinish, StatusFinish, ExpireAtOnce
  <2>2. terminals \in Seq(Needs)
    BY SMTT(60) DEF TypeOK
  <2> QED
    BY SMTT(60), <2>1, <2>2, AppendProperties
<1>7. op' \in [Calls -> Operations \cup {NoOperation}]
  <2>1. CASE UNCHANGED op
    BY <2>1 DEF TypeOK
  <2>2. CASE ExpireAtOnce(c, n)
    BY <2>2 DEF ExpireAtOnce, Enter, TypeOK, Operations
  <2> QED
    BY <2>1, <2>2 DEF EndStep, ResultFinish, RevokeFinish, ExpireFinish, StatusFinish
<1>8. pc' \in [Calls -> Pcs]
  <2>1. \E stage \in {"done", "terminal_capacity_invariant"} : Goto(c, stage)
    BY DEF EndStep, ResultFinish, RevokeFinish, ExpireFinish, StatusFinish, ExpireAtOnce, Enter
  <2> QED
    BY SMTT(60), <2>1 DEF Goto, TypeOK, Pcs
<1> QED
  BY <1>1, <1>2, <1>3, <1>4, <1>5, <1>6, <1>7, <1>8 DEF TypeOK

LEMMA PartialTyped ==
    ASSUME TypeOK, StagesFit, NEW c \in Calls, NEW room \in BOOLEAN, PartialFinish(c, room)
    PROVE  TypeOK'
<1> DEFINE n == op[c].need
<1>1. n \in Needs /\ op[c].sequence \in Nat
  BY CallTyped DEF PartialFinish
<1>2. UNCHANGED <<ledger, ledgerPartials, request, holding, reserved, inFlight, terminals, seen,
                  dispatched, counted, op>>
  BY DEF PartialFinish, shared
<1>3. pc' \in [Calls -> Pcs] /\ waiters' \in SUBSET Needs
  BY DEF PartialFinish, Goto, TypeOK, Pcs
<1>4. partials' \in [Needs -> Nat]
  <2>1. UNCHANGED partials \/ partials' = [partials EXCEPT ![n] = op[c].sequence + 1]
    BY DEF PartialFinish
  <2>2. partials \in [Needs -> Nat] /\ op[c].sequence + 1 \in Nat
    BY <1>1 DEF TypeOK
  <2> HIDE DEF n
  <2> QED
    BY <1>1, <2>1, <2>2
<1>5. told' \in [Needs -> Seq(Told)]
  <2>1. <<"PARTIAL", op[c].sequence>> \in Told
    BY <1>1 DEF Told
  <2>2. Tells(n, <<"PARTIAL", op[c].sequence>>)
    BY DEF PartialFinish, Tells
  <2> QED
    BY <1>1, <2>1, <2>2, TellsTyped
<1> QED
  BY <1>2, <1>3, <1>4, <1>5 DEF TypeOK

LEMMA OthersTyped ==
    ASSUME TypeOK,
           \/ \E n \in Needs : WaiterGone(n)
           \/ \E k \in 1..Len(terminals) : Drain(k)
           \/ Evict \/ Restart \/ UNCHANGED vars
    PROVE  TypeOK'
<1>1. CASE \E n \in Needs : WaiterGone(n)
  BY <1>1 DEF WaiterGone, shared, outputs, TypeOK
<1>2. ASSUME NEW k \in 1..Len(terminals), Drain(k)
      PROVE  TypeOK'
  <2>1. terminals' \in Seq(Needs)
    BY <1>2 DEF Drain, TypeOK
  <2> QED
    BY <1>2, <2>1 DEF Drain, shared, outputs, TypeOK
<1>3. CASE Evict
  BY SMTT(60), <1>3 DEF Evict, shared, outputs, TypeOK
<1>4. CASE Restart
  <2>1. pc' \in [Calls -> Pcs]
    BY <1>4 DEF Restart, Pcs
  <2>2. request' \in [Needs -> {"none", "matched"} \cup Terminal] /\ partials' \in [Needs -> Nat]
    BY <1>4 DEF Restart
  <2> QED
    BY <1>4, <2>1, <2>2 DEF Restart, shared, outputs, TypeOK
<1>5. CASE UNCHANGED vars
  BY <1>5 DEF vars, TypeOK
<1> QED
  BY <1>1, <1>2, <1>3, <1>4, <1>5

-----------------------------------------------------------------------------
\* What a call may do that neither moves the ledger nor ends or dispatches
\* anything: leave, go on with its NEED, or enter a handler for a request.
Calmly(d) ==
    \/ op'[d] = op[d] /\ pc'[d] = pc[d]
    \/ pc'[d] \in {"idle", "done"}
    \/ /\ op'[d] \in Operations /\ op'[d].type = "need"
       /\ pc'[d] \in {"reserving", "thrown"} \/ (pc'[d] = "calling" /\ Durable)
    \/ /\ op'[d] \in Operations /\ request[op'[d].need] # "none" /\ op'[d].type # "need"
       /\ op'[d].type = "partial" =>
            request[op'[d].need] = "matched" /\ op'[d].sequence = partials[op'[d].need]
       /\ \/ pc'[d] = "calling" /\ Durable
          \/ pc'[d] = "committed" /\ ~Durable /\ op'[d].type # "status"

LEMMA CalmKeeps ==
    ASSUME RelayInv, TypeOK', InFlightExact',
           UNCHANGED <<ledger, ledgerPartials, holding, partials, seen, dispatched, counted, told, mode>>,
           waiters' \subseteq waiters,
           \A m \in Needs : \/ request'[m] = request[m]
                            \/ request[m] \in Terminal /\ request'[m] = "none",
           \A d \in Calls : Calmly(d)
    PROVE  RelayInv'
<1>1. /\ TypeOK /\ StagesFit /\ Unclaimed /\ Undispatched /\ OneAdmitter /\ DispatchedOnce
      /\ Durable => LedgerDecides
  BY DEF RelayInv
<1>2. Durable' = Durable /\ \A n \in Needs : Claimed(n)' = Claimed(n) /\ Ends(n)' = Ends(n) /\ Streamed(n)' = Streamed(n)
  BY DEF Durable, Claimed, Ends, Streamed
<1>3. \A d \in Calls : At(d, "need", "committed")' => op'[d] = op[d] /\ At(d, "need", "committed")
  BY DEF Calmly, At
<1>4. \A d \in Calls : Durable /\ pc'[d] = "committed" => op'[d] = op[d] /\ pc[d] = "committed"
  BY DEF Calmly
<1>5. \A d \in Calls : Active(d)' /\ op'[d].type # "need" =>
        \/ Active(d) /\ op'[d] = op[d]
        \/ op'[d].need \in Needs /\ request[op'[d].need] # "none"
  BY OperationTyped DEF Calmly, Active
<1>6. StagesFit'
  BY <1>1, <1>2 DEF Calmly, StagesFit, At
<1>7. Unclaimed' /\ OneAdmitter'
  BY <1>1, <1>2, <1>3 DEF Unclaimed, OneAdmitter
<1>8. Undispatched'
  <2> SUFFICES ASSUME NEW n \in Needs, dispatched[n] = 0
               PROVE  /\ request'[n] = "none" /\ n \notin holding' /\ n \notin waiters'
                      /\ partials'[n] = 0 /\ counted'[n] = 0 /\ told'[n] = <<>>
                      /\ \A c \in Calls : Active(c)' /\ op'[c].need = n => op'[c].type = "need"
    BY DEF Undispatched
  <2>1. /\ request[n] = "none" /\ n \notin holding /\ n \notin waiters
        /\ partials[n] = 0 /\ counted[n] = 0 /\ told[n] = <<>>
        /\ \A c \in Calls : Active(c) /\ op[c].need = n => op[c].type = "need"
    BY <1>1 DEF Undispatched
  <2>2. request[n] \notin Terminal
    BY <2>1 DEF Terminal
  <2>3. \A c \in Calls : Active(c)' /\ op'[c].need = n => op'[c].type = "need"
    BY <1>5, <2>1
  <2> QED
    BY <2>1, <2>2, <2>3
<1>9. DispatchedOnce'
  <2>1. \A c \in Calls : At(c, "need", "committed")' => op'[c].need \in Needs
    BY <1>3, <1>1, CallTyped DEF At
  <2> QED
    BY <1>1, <1>3, <1>7, <1>8, <2>1 DEF DispatchedOnce, OneAdmitter, Undispatched, At
<1>10. ASSUME Durable
       PROVE  LedgerDecides'
  <2>1. /\ EndKnown /\ EndsAreCommitted /\ OneResult /\ WaitersUntold /\ OneEndTold
        /\ OnePartial /\ StreamedBelow /\ PartialsInOrder
    BY <1>1, <1>10 DEF LedgerDecides
  <2>2. \A d \in Calls, type \in {"result", "revoke", "expire", "status", "partial"} :
          At(d, type, "committed")' => op'[d] = op[d] /\ At(d, type, "committed")
    BY <1>4, <1>10 DEF At
  <2>3. EndKnown'
    BY <2>1, <2>2 DEF EndKnown
  <2>4. EndsAreCommitted'
    BY <1>2, <2>1 DEF EndsAreCommitted, Terminal
  <2>5. OneResult' /\ OneEndTold'
    <3>1. \A d \in Calls : At(d, "result", "committed") => op[d].need \in Needs
      BY <1>1, CallTyped DEF At
    <3> QED
      BY <1>2, <2>1, <2>2, <3>1 DEF OneResult, OneEndTold
  <2>6. WaitersUntold' /\ PartialsInOrder'
    BY <1>2, <2>1 DEF WaitersUntold, PartialsInOrder
  <2>7. \A d \in Calls : op'[d].type = "partial" /\ Active(d)' =>
          \/ op'[d] = op[d] /\ Active(d)
          \/ /\ op'[d].need \in Needs /\ request[op'[d].need] = "matched"
             /\ op'[d].sequence = partials[op'[d].need]
    BY OperationTyped DEF Calmly, Active
  <2>8. OnePartial'
    <3>1. \A c \in Calls : op'[c].type = "partial" /\ Active(c)' => op'[c].sequence <= partials'[op'[c].need]
      <4>1. \A n \in Needs : partials[n] \in Nat /\ partials[n] <= partials[n]
        BY <1>1 DEF TypeOK
      <4> QED
        BY <2>1, <2>7, <4>1 DEF OnePartial
    <3>2. \A n \in Needs : partials'[n] <= ledgerPartials'[n]
      BY <2>1 DEF OnePartial
    <3>3. \A c \in Calls : At(c, "partial", "committed")' =>
            /\ op'[c].sequence = partials'[op'[c].need]
            /\ op'[c].sequence < ledgerPartials'[op'[c].need]
            /\ \A d \in Calls : At(d, "partial", "committed")' /\ op'[d].need = op'[c].need => d = c
      BY <2>1, <2>2 DEF OnePartial
    <3> QED
      BY <3>1, <3>2, <3>3 DEF OnePartial
  <2>9. StreamedBelow'
    BY <1>2, <2>1, <2>7 DEF StreamedBelow
  <2> QED
    BY <2>3, <2>4, <2>5, <2>6, <2>8, <2>9 DEF LedgerDecides
<1> QED
  BY <1>2, <1>6, <1>7, <1>8, <1>9, <1>10 DEF RelayInv

LEMMA CalmSteps ==
    ASSUME RelayAssumption, RelayInv, TypeOK',
           \/ \E c \in Calls :
                \/ \E n \in Needs :
                     \/ NeedArrives(c, n) \/ PartialArrives(c, n) \/ StatusArrives(c, n)
                     \/ \E type \in {"result", "revoke", "expire"} : EndArrives(c, n, type)
                \/ NeedThrown(c)
                \/ Durable /\ NeedReserves(c)
                \/ NeedReserves(c) /\ UNCHANGED seen /\ Goto(c, "done")
                \/ Throw(c) /\ UNCHANGED shared
           \/ \E n \in Needs : WaiterGone(n)
           \/ \E k \in 1..Len(terminals) : Drain(k)
           \/ Evict \/ UNCHANGED vars
    PROVE  RelayInv'
<1>1. TypeOK /\ StagesFit /\ InFlightExact
  BY DEF RelayInv
<1>2. ASSUME UNCHANGED <<ledger, ledgerPartials, request, holding, partials, inFlight, seen,
                         dispatched, counted, told, mode>>,
             waiters' \subseteq waiters, \A d \in Calls : Calmly(d)
      PROVE  RelayInv'
  <2>1. InFlightExact'
    BY <1>1, <1>2 DEF InFlightExact
  <2> QED
    BY <1>2, <2>1, CalmKeeps
<1>3. ASSUME NEW c \in Calls, NEW n \in Needs,
             \/ NeedArrives(c, n) \/ PartialArrives(c, n) \/ StatusArrives(c, n)
             \/ \E type \in {"result", "revoke", "expire"} : EndArrives(c, n, type)
      PROVE  RelayInv'
  <2>1. UNCHANGED <<ledger, ledgerPartials, rest, mode>>
    BY <1>3 DEF NeedArrives, PartialArrives, StatusArrives, EndArrives, shared, local, outputs, rest
  <2>2. ASSUME NEW o \in Operations, NEW stage \in Pcs, Enter(c, o, stage),
               \/ o.type = "need" /\ stage = "reserving"
               \/ /\ request[o.need] # "none" /\ o.type # "need"
                  /\ o.type = "partial" => request[o.need] = "matched" /\ o.sequence = partials[o.need]
                  /\ \/ stage = "calling" /\ Durable
                     \/ stage = "committed" /\ ~Durable /\ o.type # "status"
        PROVE  RelayInv'
    <3>1. \A d \in Calls : Calmly(d)
      BY <1>1, <2>2, EnterTyped DEF Calmly
    <3> QED
      BY <1>2, <2>1, <3>1 DEF rest
  <2>3. CASE NeedArrives(c, n)
    <3>1. [type |-> "need", need |-> n, sequence |-> 0] \in Operations /\ "reserving" \in Pcs
      BY DEF Operations, Pcs
    <3> QED
      BY <2>2, <2>3, <3>1 DEF NeedArrives
  <2>4. CASE PartialArrives(c, n)
    <3>1. [type |-> "partial", need |-> n, sequence |-> partials[n]] \in Operations
      BY SMTT(60), <1>1, <2>4 DEF PartialArrives, Operations, TypeOK, RelayAssumption
    <3>2. "calling" \in Pcs /\ "committed" \in Pcs
      BY DEF Pcs
    <3> QED
      BY <2>2, <2>4, <3>1, <3>2 DEF PartialArrives
  <2>5. CASE StatusArrives(c, n)
    <3>1. [type |-> "status", need |-> n, sequence |-> 0] \in Operations /\ "calling" \in Pcs
      BY DEF Operations, Pcs
    <3> QED
      BY <2>2, <2>5, <3>1 DEF StatusArrives
  <2>6. ASSUME NEW type \in {"result", "revoke", "expire"}, EndArrives(c, n, type)
        PROVE  RelayInv'
    <3>1. [type |-> type, need |-> n, sequence |-> 0] \in Operations
      BY DEF Operations
    <3>2. "calling" \in Pcs /\ "committed" \in Pcs
      BY DEF Pcs
    <3> QED
      BY <2>2, <2>6, <3>1, <3>2 DEF EndArrives
  <2> QED
    BY <1>3, <2>3, <2>4, <2>5, <2>6
<1>4. ASSUME NEW c \in Calls, NeedThrown(c)
      PROVE  RelayInv'
  <2>1. \A d \in Calls : Calmly(d)
    BY <1>1, <1>4 DEF NeedThrown, Calmly, Goto, TypeOK
  <2> QED
    BY <1>2, <1>4, <2>1 DEF NeedThrown, shared, outputs
<1>5. ASSUME NEW c \in Calls, NeedReserves(c), Durable \/ (UNCHANGED seen /\ Goto(c, "done"))
      PROVE  RelayInv'
  <2>1. UNCHANGED <<ledger, ledgerPartials, holding, partials, inFlight, waiters, dispatched, counted,
                    told, mode, op>>
    BY <1>5 DEF NeedReserves, shared, outputs
  <2>2. UNCHANGED seen
    BY <1>5 DEF NeedReserves, ClaimNeedId
  <2>3. op[c] \in Operations /\ op[c].type = "need"
    BY <1>1, <1>5, CallTyped DEF NeedReserves, StagesFit
  <2>4. \E stage \in {"done", "calling"} : Goto(c, stage) /\ (stage = "calling" => Durable)
    BY <1>5 DEF NeedReserves
  <2>5. \A d \in Calls : Calmly(d)
    BY <1>1, <2>1, <2>3, <2>4 DEF Goto, Calmly, TypeOK
  <2>6. \A m \in Needs : \/ request'[m] = request[m]
                         \/ request[m] \in Terminal /\ request'[m] = "none"
    <3>1. CASE UNCHANGED request
      BY <3>1
    <3>2. ASSUME NEW gone \in Prunings, request' = [m \in Needs |-> IF m \in gone THEN "none" ELSE request[m]]
          PROVE  \A m \in Needs : \/ request'[m] = request[m]
                                  \/ request[m] \in Terminal /\ request'[m] = "none"
      <4>1. gone \subseteq Ended
        BY DEF Prunings
      <4> QED
        BY <3>2, <4>1 DEF Ended
    <3> QED
      BY <1>5, <3>1, <3>2 DEF NeedReserves
  <2>7. InFlightExact'
    <3>1. \A m \in Needs : request'[m] = "matched" <=> request[m] = "matched"
      BY <2>6 DEF Terminal
    <3> QED
      BY <1>1, <2>1, <3>1 DEF InFlightExact
  <2> QED
    BY <2>1, <2>2, <2>5, <2>6, <2>7, CalmKeeps
<1>6. ASSUME NEW c \in Calls, Throw(c), UNCHANGED shared
      PROVE  RelayInv'
  <2>1. op[c] \in Operations
    BY <1>1, <1>6, CallTyped DEF Throw
  <2>2. \A d \in Calls : Calmly(d)
    BY <1>1, <1>6, <2>1 DEF Throw, Calmly, Goto, TypeOK
  <2> QED
    BY <1>2, <1>6, <2>2 DEF Throw, shared, local, outputs
<1>7. CASE \/ \E n \in Needs : WaiterGone(n)
           \/ \E k \in 1..Len(terminals) : Drain(k)
           \/ Evict \/ UNCHANGED vars
  <2>1. \A d \in Calls : Calmly(d)
    BY <1>7 DEF WaiterGone, Drain, Evict, vars, Calmly
  <2>2. /\ UNCHANGED <<ledger, ledgerPartials, request, holding, partials, inFlight, seen,
                       dispatched, counted, told, mode>>
        /\ waiters' \subseteq waiters
    BY <1>7 DEF WaiterGone, Drain, Evict, vars, shared, outputs
  <2> QED
    BY <1>2, <2>1, <2>2
<1> QED
  BY <1>3, <1>4, <1>5, <1>6, <1>7

-----------------------------------------------------------------------------
\* How far the ledger takes a NEED in one step: it is admitted, streams, ends.
LedgerAdvances ==
    \A m \in Needs :
        /\ \/ ledger'[m] = ledger[m]
           \/ ledger[m] = "absent" /\ ledger'[m] = "matched"
           \/ ledger[m] = "matched" /\ ledger'[m] \in Terminal
        /\ ledgerPartials[m] <= ledgerPartials'[m]

LEMMA CommitAdvances ==
    ASSUME TypeOK, NEW o \in Operations, Accepts(o), Commit(o)
    PROVE  /\ LedgerAdvances
           /\ o.type = "need" => ledger[o.need] = "absent" /\ ledger'[o.need] = "matched"
           /\ o.type = "result" => ledger[o.need] = "matched" /\ ledger'[o.need] = "completed"
           /\ o.type = "revoke" => ledger'[o.need] = "cancelled"
           /\ o.type = "expire" => ledger'[o.need] = "failed"
           /\ o.type = "status" => ledger[o.need] \in Terminal /\ ledger'[o.need] = ledger[o.need]
           /\ o.type = "partial" => /\ ledgerPartials[o.need] = o.sequence
                                    /\ ledgerPartials'[o.need] = o.sequence + 1
<1>1. /\ o.need \in Needs /\ o.sequence \in Nat
      /\ o.type \in {"need", "result", "revoke", "expire", "status", "partial"}
  BY OperationTyped
<1>2. ledger \in [Needs -> {"absent", "matched"} \cup Terminal] /\ ledgerPartials \in [Needs -> Nat]
  BY DEF TypeOK
<1>3. \A m \in Needs : m # o.need => ledger'[m] = ledger[m] /\ ledgerPartials'[m] = ledgerPartials[m]
  BY <1>1, <1>2 DEF Commit
<1>4. ledgerPartials'[o.need] = IF o.type = "partial" THEN ledgerPartials[o.need] + 1
                                ELSE ledgerPartials[o.need]
  BY <1>1, <1>2 DEF Commit
<1>5. /\ o.type = "need" => ledger[o.need] = "absent" /\ ledger'[o.need] = "matched"
      /\ o.type = "result" => ledger[o.need] = "matched" /\ ledger'[o.need] = "completed"
      /\ o.type = "expire" => ledger[o.need] = "matched" /\ ledger'[o.need] = "failed"
  BY <1>1, <1>2 DEF Commit, Accepts
<1>6. o.type = "revoke" => ledger[o.need] \in {"matched", "cancelled"} /\ ledger'[o.need] = "cancelled"
  BY <1>1, <1>2 DEF Commit, Accepts
<1>7. /\ o.type = "status" => ledger[o.need] \in Terminal /\ ledger'[o.need] = ledger[o.need]
      /\ o.type = "partial" => ledgerPartials[o.need] = o.sequence /\ ledger'[o.need] = ledger[o.need]
  BY <1>1, <1>2 DEF Commit, Accepts
<1>8. LedgerAdvances
  BY <1>1, <1>2, <1>3, <1>4, <1>5, <1>6, <1>7 DEF LedgerAdvances, Terminal
<1> QED
  BY <1>4, <1>5, <1>6, <1>7, <1>8

\* One call is told that its operation is committed, the others are where they
\* were, or gone.
Learns(c) ==
    /\ pc[c] = "calling" /\ pc'[c] = "committed" /\ op'[c] = op[c]
    /\ Accepts(op[c]) /\ Commit(op[c])

LEMMA LedgerKeeps ==
    ASSUME RelayInv, TypeOK', Durable, UNCHANGED <<rest, mode>>, LedgerAdvances,
           \A d \in Calls : \/ op'[d] = op[d] /\ pc'[d] = pc[d]
                            \/ pc'[d] = "done"
                            \/ pc'[d] = "thrown" /\ op'[d] = op[d] /\ op[d].type = "need" /\ pc[d] = "calling"
                            \/ Learns(d),
           \A c, d \in Calls : Learns(c) /\ Learns(d) => c = d
    PROVE  RelayInv'
<1>1. /\ TypeOK /\ StagesFit /\ Unclaimed /\ Undispatched /\ OneAdmitter /\ DispatchedOnce /\ InFlightExact
      /\ EndKnown /\ EndsAreCommitted /\ OneResult /\ WaitersUntold /\ OneEndTold
      /\ OnePartial /\ StreamedBelow /\ PartialsInOrder
  BY DEF RelayInv, LedgerDecides
<1>2. /\ Durable' /\ UNCHANGED <<request, holding, partials, waiters, dispatched, counted, told>>
      /\ \A n \in Needs : Ends(n)' = Ends(n) /\ Streamed(n)' = Streamed(n)
  BY DEF Durable, Ends, Streamed, rest
<1>3. \A n \in Needs : /\ Claimed(n) => Claimed(n)'
                       /\ ledger[n] \in Terminal => ledger'[n] = ledger[n]
                       /\ ledgerPartials[n] \in Nat /\ ledgerPartials'[n] \in Nat /\ partials[n] \in Nat
  BY <1>1, <1>2 DEF LedgerAdvances, Claimed, Terminal, TypeOK
<1>4. \A d \in Calls : Learns(d) =>
        /\ op[d] \in Operations /\ op[d].need \in Needs /\ op[d].sequence \in Nat
        /\ op[d].type = "need" => ledger[op[d].need] = "absent" /\ ledger'[op[d].need] = "matched"
        /\ op[d].type = "result" => ledger[op[d].need] = "matched" /\ ledger'[op[d].need] = "completed"
        /\ op[d].type = "revoke" => ledger'[op[d].need] = "cancelled"
        /\ op[d].type = "expire" => ledger'[op[d].need] = "failed"
        /\ op[d].type = "status" => ledger[op[d].need] \in Terminal /\ ledger'[op[d].need] = ledger[op[d].need]
        /\ op[d].type = "partial" => /\ ledgerPartials[op[d].need] = op[d].sequence
                                     /\ ledgerPartials'[op[d].need] = op[d].sequence + 1
  BY <1>1, CallTyped, CommitAdvances DEF Learns
<1>5. \A d \in Calls : pc'[d] = "committed" => /\ op'[d] = op[d] /\ op[d].need \in Needs
                                               /\ (pc[d] = "committed") \/ Learns(d)
  <2> TAKE d \in Calls
  <2> HAVE pc'[d] = "committed"
  <2>1. /\ op'[d] = op[d]
        /\ pc[d] = "committed" \/ Learns(d)
    BY DEF Learns
  <2>2. pc[d] = "committed" => op[d].need \in Needs
    BY <1>1, CallTyped
  <2> QED
    BY <1>4, <2>1, <2>2
<1>6. \A d \in Calls : Active(d)' => Active(d) /\ op'[d] = op[d]
  BY DEF Active, Learns
<1>7. StagesFit'
  BY <1>1, <1>2, <1>4 DEF StagesFit, Learns
<1>8. Undispatched'
  BY <1>1, <1>2, <1>6 DEF Undispatched
<1>9. \A c, d \in Calls : (/\ At(c, "need", "committed")' /\ At(d, "need", "committed")'
                            /\ op'[c].need = op'[d].need) => c = d
  <2> SUFFICES ASSUME NEW c \in Calls, NEW d \in Calls, At(c, "need", "committed")',
                      At(d, "need", "committed")', op'[c].need = op'[d].need
               PROVE  c = d
    OBVIOUS
  <2>1. /\ op'[c] = op[c] /\ op'[d] = op[d] /\ op[c].type = "need" /\ op[d].type = "need"
        /\ op[c].need \in Needs /\ op[d].need \in Needs
        /\ pc[c] = "committed" \/ Learns(c)
        /\ pc[d] = "committed" \/ Learns(d)
    BY <1>5 DEF At
  <2>2. \A e \in Calls : pc[e] = "committed" /\ op[e].type = "need" /\ op[e].need \in Needs =>
          ledger[op[e].need] # "absent"
    BY <1>1 DEF Unclaimed, Claimed, At
  <2>3. CASE pc[c] = "committed" /\ pc[d] = "committed"
    BY <1>1, <2>1, <2>3 DEF OneAdmitter, At
  <2>4. CASE Learns(c) /\ Learns(d)
    BY <2>4
  <2>5. CASE pc[c] = "committed" /\ Learns(d)
    BY <1>4, <2>1, <2>2, <2>5
  <2>6. CASE pc[d] = "committed" /\ Learns(c)
    BY <1>4, <2>1, <2>2, <2>6
  <2> QED
    BY <2>1, <2>3, <2>4, <2>5, <2>6
<1>10. \A c \in Calls : At(c, "need", "committed")' =>
         op'[c].need \in Needs /\ Claimed(op[c].need)' /\ dispatched'[op'[c].need] = 0
  <2> SUFFICES ASSUME NEW c \in Calls, At(c, "need", "committed")'
               PROVE  op'[c].need \in Needs /\ Claimed(op[c].need)' /\ dispatched'[op'[c].need] = 0
    OBVIOUS
  <2>1. /\ op'[c] = op[c] /\ op[c].type = "need" /\ op[c].need \in Needs
        /\ pc[c] = "committed" \/ Learns(c)
    BY <1>5 DEF At
  <2>2. CASE pc[c] = "committed"
    <3>1. Claimed(op[c].need) /\ dispatched[op[c].need] = 0
      BY <1>1, <2>1, <2>2 DEF Unclaimed, OneAdmitter, At
    <3> QED
      BY <1>2, <1>3, <2>1, <3>1
  <2>3. CASE Learns(c)
    <3>1. ledger[op[c].need] = "absent" /\ ledger'[op[c].need] = "matched"
      BY <1>4, <2>1, <2>3
    <3>2. dispatched[op[c].need] = 0
      BY <1>1, <2>1, <3>1 DEF Unclaimed, Claimed
    <3> QED
      BY <1>2, <2>1, <3>1, <3>2 DEF Claimed
  <2> QED
    BY <2>1, <2>2, <2>3
<1>11. Unclaimed' /\ OneAdmitter' /\ DispatchedOnce'
  <2>1. OneAdmitter'
    BY <1>9, <1>10 DEF OneAdmitter
  <2>2. Unclaimed'
    BY <1>1, <1>2, <1>3, <1>10 DEF Unclaimed
  <2>3. DispatchedOnce'
    BY <1>1, <1>2, <1>8, <1>10 DEF DispatchedOnce, Undispatched, At
  <2> QED
    BY <2>1, <2>2, <2>3
<1>12. EndKnown'
  <2> SUFFICES ASSUME NEW c \in Calls
               PROVE  /\ At(c, "result", "committed")' => ledger'[op'[c].need] = "completed"
                      /\ At(c, "revoke", "committed")' => ledger'[op'[c].need] = "cancelled"
                      /\ At(c, "expire", "committed")' => ledger'[op'[c].need] = "failed"
                      /\ At(c, "status", "committed")' => ledger'[op'[c].need] \in Terminal
    BY DEF EndKnown
  <2>1. CASE pc'[c] = "committed" /\ pc[c] = "committed"
    BY <1>1, <1>3, <1>5, <2>1 DEF EndKnown, At, Terminal
  <2>2. CASE pc'[c] = "committed" /\ Learns(c)
    BY <1>4, <1>5, <2>2 DEF At
  <2> QED
    BY <1>5, <2>1, <2>2 DEF At
<1>13. EndsAreCommitted' /\ WaitersUntold' /\ OneEndTold' /\ StreamedBelow' /\ PartialsInOrder'
  <2>1. EndsAreCommitted' /\ WaitersUntold'
    <3>1. EndsAreCommitted'
      <4>1. \A n \in Needs : \A i \in Ends(n) : told[n][i][1] \in Terminal
        BY DEF Ends
      <4> QED
        BY <1>1, <1>2, <1>3, <4>1 DEF EndsAreCommitted
    <3>2. WaitersUntold'
      BY <1>1, <1>2, <1>3 DEF WaitersUntold, Terminal
    <3> QED
      BY <3>1, <3>2
  <2>2. OneEndTold' /\ PartialsInOrder'
    BY <1>1, <1>2 DEF OneEndTold, PartialsInOrder
  <2>3. StreamedBelow'
    BY <1>1, <1>2, <1>6 DEF StreamedBelow
  <2> QED
    BY <2>1, <2>2, <2>3
<1>14. OneResult'
  <2>1. \A n \in Needs : ledger'[n] # "completed" => counted'[n] = 0
    BY <1>1, <1>2, <1>3 DEF OneResult, Terminal
  <2>2. ASSUME NEW c \in Calls, At(c, "result", "committed")'
        PROVE  /\ counted'[op'[c].need] = 0 /\ Ends(op[c].need)' = {}
               /\ \A d \in Calls : At(d, "result", "committed")' /\ op'[d].need = op'[c].need => d = c
    <3>1. /\ op'[c] = op[c] /\ op[c].type = "result" /\ op[c].need \in Needs
          /\ pc[c] = "committed" \/ Learns(c)
      BY <1>5, <2>2 DEF At
    <3>2. counted[op[c].need] = 0 /\ Ends(op[c].need) = {}
      <4>1. CASE pc[c] = "committed"
        BY <1>1, <3>1, <4>1 DEF OneResult, At
      <4>2. CASE Learns(c)
        <5>1. ledger[op[c].need] = "matched"
          BY <1>4, <3>1, <4>2
        <5>2. \A i \in Ends(op[c].need) : told[op[c].need][i][1] \in Terminal
          BY DEF Ends
        <5> QED
          BY <1>1, <3>1, <5>1, <5>2 DEF OneResult, EndsAreCommitted, Terminal
      <4> QED
        BY <3>1, <4>1, <4>2
    <3>3. ASSUME NEW d \in Calls, At(d, "result", "committed")', op'[d].need = op'[c].need
          PROVE  d = c
      <4>1. op'[d] = op[d] /\ op[d].type = "result" /\ (pc[d] = "committed" \/ Learns(d))
        BY <1>5, <3>3 DEF At
      <4>2. \A e \in Calls : pc[e] = "committed" /\ op[e].type = "result" => ledger[op[e].need] = "completed"
        BY <1>1 DEF EndKnown, At
      <4>3. CASE pc[c] = "committed" /\ pc[d] = "committed"
        BY <1>1, <3>1, <3>3, <4>1, <4>3 DEF OneResult, At
      <4>4. CASE Learns(c) /\ Learns(d)
        BY <4>4
      <4>5. CASE (pc[c] = "committed" /\ Learns(d)) \/ (pc[d] = "committed" /\ Learns(c))
        BY <1>4, <3>1, <3>3, <4>1, <4>2, <4>5
      <4> QED
        BY <3>1, <4>1, <4>3, <4>4, <4>5 DEF Learns
    <3> QED
      BY <1>2, <3>1, <3>2, <3>3
  <2> QED
    BY <2>1, <2>2 DEF OneResult
<1>15. OnePartial'
  <2>1. \A n \in Needs : partials'[n] <= ledgerPartials'[n]
    BY <1>1, <1>2, <1>3 DEF OnePartial, LedgerAdvances
  <2>2. \A c \in Calls : op'[c].type = "partial" /\ Active(c)' => op'[c].sequence <= partials'[op'[c].need]
    BY <1>1, <1>2, <1>6 DEF OnePartial
  <2>3. ASSUME NEW c \in Calls, At(c, "partial", "committed")'
        PROVE  /\ op'[c].sequence = partials'[op'[c].need]
               /\ op'[c].sequence < ledgerPartials'[op'[c].need]
               /\ \A d \in Calls : At(d, "partial", "committed")' /\ op'[d].need = op'[c].need => d = c
    <3>1. /\ op'[c] = op[c] /\ op[c].type = "partial" /\ op[c].need \in Needs
          /\ pc[c] = "committed" \/ Learns(c)
      BY <1>5, <2>3 DEF At
    <3>2. op[c].sequence = partials[op[c].need] /\ op[c].sequence < ledgerPartials'[op[c].need]
      <4>1. CASE pc[c] = "committed"
        <5>1. op[c].sequence = partials[op[c].need] /\ op[c].sequence < ledgerPartials[op[c].need]
          BY <1>1, <3>1, <4>1 DEF OnePartial, At
        <5> QED
          BY <1>3, <3>1, <5>1 DEF LedgerAdvances
      <4>2. CASE Learns(c)
        <5>1. op[c].sequence <= partials[op[c].need] /\ partials[op[c].need] <= ledgerPartials[op[c].need]
          BY <1>1, <3>1, <4>2 DEF OnePartial, Active, Learns
        <5> QED
          BY <1>3, <1>4, <3>1, <4>2, <5>1
      <4> QED
        BY <3>1, <4>1, <4>2
    <3>3. ASSUME NEW d \in Calls, At(d, "partial", "committed")', op'[d].need = op'[c].need
          PROVE  d = c
      <4>1. op'[d] = op[d] /\ op[d].type = "partial" /\ (pc[d] = "committed" \/ Learns(d))
        BY <1>5, <3>3 DEF At
      <4>2. \A e \in Calls : pc[e] = "committed" /\ op[e].type = "partial" =>
              partials[op[e].need] < ledgerPartials[op[e].need]
        BY <1>1 DEF OnePartial, At
      <4>3. \A e \in Calls : Learns(e) /\ op[e].type = "partial" =>
              ledgerPartials[op[e].need] <= partials[op[e].need]
        BY <1>1, <1>4 DEF OnePartial, Active, Learns
      <4>4. CASE pc[c] = "committed" /\ pc[d] = "committed"
        BY <1>1, <3>1, <3>3, <4>1, <4>4 DEF OnePartial, At
      <4>5. CASE Learns(c) /\ Learns(d)
        BY <4>5
      <4>6. CASE (pc[c] = "committed" /\ Learns(d)) \/ (pc[d] = "committed" /\ Learns(c))
        BY <1>3, <3>1, <3>3, <4>1, <4>2, <4>3, <4>6
      <4> QED
        BY <3>1, <4>1, <4>4, <4>5, <4>6 DEF Learns
    <3> QED
      BY <1>2, <3>1, <3>2, <3>3
  <2> QED
    BY <2>1, <2>2, <2>3 DEF OnePartial
<1>16. InFlightExact'
  BY <1>1 DEF InFlightExact, rest
<1> QED
  BY <1>7, <1>8, <1>11, <1>12, <1>13, <1>14, <1>15, <1>16 DEF RelayInv, LedgerDecides

LEMMA LedgerSteps ==
    ASSUME RelayInv, TypeOK',
           \/ \E c \in Calls : \/ Succeed(c)
                               \/ Throw(c) /\ Accepts(op[c]) /\ Commit(op[c]) /\ mode = "cosmos"
                               \/ \E o \in Operations : Recover(c, o)
           \/ \E n \in Needs : PeerAdmits(n) \/ PeerStreams(n) \/ \E to \in Terminal : PeerEnds(n, to)
    PROVE  RelayInv'
<1>1. TypeOK /\ StagesFit
  BY DEF RelayInv
<1>2. ASSUME NEW c \in Calls, Succeed(c)
      PROVE  RelayInv'
  <2>1. op[c] \in Operations /\ Durable
    BY <1>1, <1>2, CallTyped DEF Succeed, StagesFit
  <2>2. LedgerAdvances
    BY <1>1, <1>2, <2>1, CommitAdvances DEF Succeed
  <2>3. UNCHANGED <<rest, mode>> /\ Learns(c) /\ \A d \in Calls : d # c => op'[d] = op[d] /\ pc'[d] = pc[d]
    BY <1>1, <1>2 DEF Succeed, Goto, TypeOK, Learns, rest, local, outputs
  <2>4. \A d \in Calls : d # c => ~Learns(d)
    BY <2>3 DEF Learns
  <2> QED
    BY <2>1, <2>2, <2>3, <2>4, LedgerKeeps
<1>3. ASSUME NEW c \in Calls, Throw(c), Accepts(op[c]), Commit(op[c]), mode = "cosmos"
      PROVE  RelayInv'
  <2>1. op[c] \in Operations /\ Durable
    BY <1>1, <1>3, CallTyped DEF Throw, Durable
  <2>2. LedgerAdvances
    BY <1>1, <1>3, <2>1, CommitAdvances
  <2>3. /\ UNCHANGED <<rest, mode>> /\ \A d \in Calls : d # c => op'[d] = op[d] /\ pc'[d] = pc[d]
        /\ pc'[c] = "done" \/ (pc'[c] = "thrown" /\ op'[c] = op[c] /\ op[c].type = "need" /\ pc[c] = "calling")
    BY <1>1, <1>3 DEF Throw, Goto, TypeOK, rest, local, outputs
  <2>4. \A d \in Calls : ~Learns(d)
    BY <2>3 DEF Learns
  <2> QED
    BY <2>1, <2>2, <2>3, <2>4, LedgerKeeps
<1>4. ASSUME NEW c \in Calls, NEW o \in Operations, Recover(c, o)
      PROVE  RelayInv'
  <2>1. Durable
    BY <1>4 DEF Recover, Durable
  <2>2. LedgerAdvances
    BY <1>1, <1>4, CommitAdvances DEF Recover
  <2>3. /\ UNCHANGED <<rest, mode>> /\ \A d \in Calls : d # c => op'[d] = op[d] /\ pc'[d] = pc[d]
        /\ pc'[c] = "done"
    BY <1>1, <1>4 DEF Recover, Enter, Goto, TypeOK, rest, local, outputs
  <2>4. \A d \in Calls : ~Learns(d)
    BY <2>3 DEF Learns
  <2> QED
    BY <2>1, <2>2, <2>3, <2>4, LedgerKeeps
<1>5. ASSUME NEW n \in Needs, PeerAdmits(n) \/ PeerStreams(n) \/ \E to \in Terminal : PeerEnds(n, to)
      PROVE  RelayInv'
  <2>1. Durable
    BY <1>5 DEF PeerAdmits, PeerStreams, PeerEnds
  <2>2. LedgerAdvances
    <3>1. \A m \in Needs : ledgerPartials[m] \in Nat /\ ledgerPartials[m] <= ledgerPartials[m]
      BY <1>1 DEF TypeOK
    <3>2. CASE PeerAdmits(n) \/ \E to \in Terminal : PeerEnds(n, to)
      BY <1>1, <3>1, <3>2 DEF PeerAdmits, PeerEnds, LedgerAdvances, TypeOK
    <3>3. CASE PeerStreams(n)
      BY SMTT(60), <1>1, <3>1, <3>3 DEF PeerStreams, LedgerAdvances, TypeOK
    <3> QED
      BY <1>5, <3>2, <3>3
  <2>3. UNCHANGED <<rest, mode, op, pc>>
    BY <1>5 DEF PeerAdmits, PeerStreams, PeerEnds, rest, local, outputs
  <2>4. \A d \in Calls : ~Learns(d)
    BY <2>3 DEF Learns
  <2> QED
    BY <2>1, <2>2, <2>3, <2>4, LedgerKeeps
<1> QED
  BY <1>2, <1>3, <1>4, <1>5

\* Without a ledger, the identifier is claimed in seenNeedIds.
LEMMA ClaimKeeps ==
    ASSUME RelayInv, TypeOK', NEW c \in Calls, NeedReserves(c), ~Durable,
           ~(UNCHANGED seen /\ Goto(c, "done"))
    PROVE  RelayInv'
<1> DEFINE n == op[c].need
<1>1. TypeOK /\ StagesFit /\ Unclaimed /\ Undispatched /\ OneAdmitter /\ DispatchedOnce /\ InFlightExact
  BY DEF RelayInv
<1>2. /\ UNCHANGED <<ledger, ledgerPartials, holding, partials, inFlight, waiters, dispatched, counted,
                     told, mode, op>>
  BY DEF NeedReserves, shared, outputs
<1>3. n \in Needs /\ op[c] \in Operations /\ op[c].type = "need" /\ pc[c] = "reserving"
  BY <1>1, CallTyped DEF NeedReserves, StagesFit
<1>4. n \notin seen /\ seen' = seen \cup {n} /\ Goto(c, "committed")
  BY DEF NeedReserves, ClaimNeedId
<1>5. pc'[c] = "committed" /\ \A d \in Calls : d # c => pc'[d] = pc[d]
  BY <1>1, <1>4 DEF Goto, TypeOK
<1>6. ~Durable' /\ \A m \in Needs : Claimed(m) => Claimed(m)'
  BY <1>2, <1>4 DEF Durable, Claimed
<1>7. Claimed(n)' /\ ~Claimed(n)
  BY <1>2, <1>4, <1>6 DEF Claimed
<1>8. dispatched[n] = 0 /\ \A d \in Calls : ~(At(d, "need", "committed") /\ op[d].need = n)
  BY <1>1, <1>3, <1>7 DEF Unclaimed
<1>9. \A m \in Needs : \/ request'[m] = request[m]
                       \/ request[m] \in Terminal /\ request'[m] = "none"
  <2>1. PICK gone \in Prunings : request' = [m \in Needs |-> IF m \in gone THEN "none" ELSE request[m]]
    BY DEF NeedReserves
  <2>2. gone \subseteq Ended
    BY DEF Prunings
  <2> QED
    BY <2>1, <2>2 DEF Ended
<1>10. InFlightExact'
  <2>1. \A m \in Needs : request'[m] = "matched" <=> request[m] = "matched"
    BY <1>9 DEF Terminal
  <2> QED
    BY <1>1, <1>2, <2>1 DEF InFlightExact
<1>11. StagesFit'
  BY <1>1, <1>2, <1>3, <1>5, <1>6 DEF StagesFit, At
<1>12. Undispatched'
  <2>1. \A m \in Needs : request[m] = "none" => request'[m] = "none"
    BY <1>9 DEF Terminal
  <2>2. \A d \in Calls : Active(d)' => op'[d] = op[d] /\ (Active(d) \/ op[d].type = "need")
    BY <1>2, <1>3, <1>5 DEF Active
  <2> QED
    BY <1>1, <1>2, <2>1, <2>2 DEF Undispatched
<1>13. Unclaimed' /\ OneAdmitter'
  <2>1. \A d \in Calls : At(d, "need", "committed")' => d = c \/ (At(d, "need", "committed") /\ op'[d] = op[d])
    BY <1>2, <1>5 DEF At
  <2> HIDE DEF n
  <2>2. Unclaimed'
    BY <1>1, <1>2, <1>3, <1>6, <1>7, <2>1 DEF Unclaimed, n
  <2>3. OneAdmitter'
    BY <1>1, <1>2, <1>8, <2>1 DEF OneAdmitter, n
  <2> QED
    BY <2>2, <2>3
<1>14. DispatchedOnce'
  <2>1. \A d \in Calls : At(d, "need", "committed")' => op'[d].need \in Needs /\ dispatched'[op'[d].need] = 0
    <3>1. \A d \in Calls : pc'[d] = "committed" => op[d].need \in Needs
      BY <1>1, <1>3, <1>5, CallTyped
    <3> QED
      BY <1>2, <1>13, <3>1 DEF OneAdmitter, At
  <2> QED
    BY <1>1, <1>2, <1>12, <2>1 DEF DispatchedOnce, Undispatched, At
<1> QED
  BY <1>6, <1>10, <1>11, <1>12, <1>13, <1>14 DEF RelayInv

-----------------------------------------------------------------------------
\* The NEED becomes a request and goes out.
LEMMA AdmittedKeeps ==
    ASSUME RelayAssumption, RelayInv, TypeOK', NEW c \in Calls, NEW waits \in BOOLEAN, NeedAdmitted(c, waits)
    PROVE  RelayInv'
<1> DEFINE n == op[c].need
<1>1. /\ TypeOK /\ StagesFit /\ Unclaimed /\ Undispatched /\ OneAdmitter /\ DispatchedOnce /\ InFlightExact
      /\ Durable => LedgerDecides
  BY DEF RelayInv
<1>2. /\ UNCHANGED <<ledger, ledgerPartials, partials, seen, counted, told, op, mode>>
      /\ request[n] = "none" /\ request' = [request EXCEPT ![n] = "matched"] /\ inFlight' = inFlight + 1
      /\ waiters' \subseteq waiters \cup {n} /\ holding' = holding \cup {n}
      /\ dispatched' = [dispatched EXCEPT ![n] = @ + 1]
  BY DEF NeedAdmitted, shared
<1>3. n \in Needs /\ At(c, "need", "committed")
  BY <1>1, CallTyped DEF NeedAdmitted, At
<1>4. pc'[c] = "done" /\ \A d \in Calls : d # c => pc'[d] = pc[d]
  BY <1>1 DEF NeedAdmitted, Goto, TypeOK
<1>5. /\ dispatched[n] = 0 /\ told[n] = <<>>
      /\ \A d \in Calls : At(d, "need", "committed") /\ op[d].need = n => d = c
  BY <1>1, <1>3 DEF OneAdmitter, Undispatched
<1> HIDE DEF n
<1>6. /\ \A m \in Needs : m # n => dispatched'[m] = dispatched[m] /\ request'[m] = request[m]
      /\ dispatched'[n] = 1 /\ request'[n] = "matched"
  BY <1>1, <1>2, <1>3, <1>5 DEF TypeOK
<1>7. /\ Durable' = Durable
      /\ \A m \in Needs : Claimed(m)' = Claimed(m) /\ Ends(m)' = Ends(m) /\ Streamed(m)' = Streamed(m)
  BY <1>2 DEF Durable, Claimed, Ends, Streamed
<1>8. \A d \in Calls : pc'[d] \in {"calling", "committed"} => d # c /\ pc'[d] = pc[d] /\ op'[d] = op[d]
  BY <1>2, <1>4
<1>9. StagesFit'
  BY <1>1, <1>2, <1>4, <1>7 DEF StagesFit, At
<1>10. Unclaimed'
  <2>1. Claimed(n)
    BY <1>1, <1>3 DEF Unclaimed, n
  <2> QED
    BY <1>1, <1>6, <1>7, <1>8, <2>1 DEF Unclaimed, At
<1>11. Undispatched'
  BY <1>1, <1>2, <1>6, <1>8 DEF Undispatched, Active
<1>12. OneAdmitter' /\ DispatchedOnce'
  <2>1. \A d \in Calls : At(d, "need", "committed")' =>
          /\ At(d, "need", "committed") /\ op'[d] = op[d] /\ op[d].need \in Needs /\ op[d].need # n
    BY <1>1, <1>5, <1>8, CallTyped DEF At
  <2>2. OneAdmitter'
    BY <1>1, <1>6, <2>1 DEF OneAdmitter
  <2>3. \A d \in Calls : At(d, "need", "committed")' => request'[op'[d].need] = "none"
    BY <1>1, <1>6, <2>1 DEF DispatchedOnce, At
  <2> QED
    BY <1>1, <1>6, <2>2, <2>3 DEF DispatchedOnce, At
<1>13. InFlightExact'
  <2>1. request[n] # "matched" /\ request' \in [Needs -> {"none", "matched"} \cup Terminal] /\ IsFiniteSet(Needs)
    BY <1>2 DEF TypeOK, RelayAssumption
  <2> QED
    BY <1>1, <1>2, <1>3, <1>6, <2>1, CountFollows
<1>14. ASSUME Durable
       PROVE  LedgerDecides'
  <2>1. /\ EndKnown /\ EndsAreCommitted /\ OneResult /\ WaitersUntold /\ OneEndTold
        /\ OnePartial /\ StreamedBelow /\ PartialsInOrder
    BY <1>1, <1>14 DEF LedgerDecides
  <2>2. Ends(n) = {} /\ Streamed(n) = {}
    BY <1>5 DEF Ends, Streamed
  <2>3. EndKnown'
    BY <1>2, <1>8, <2>1 DEF EndKnown, At
  <2>4. EndsAreCommitted'
    BY <1>2, <1>6, <1>7, <2>1, <2>2 DEF EndsAreCommitted, Terminal
  <2>5. OneResult'
    BY <1>2, <1>7, <1>8, <2>1 DEF OneResult, At, Ends
  <2>6. WaitersUntold' /\ OneEndTold' /\ PartialsInOrder'
    BY <1>2, <1>7, <2>1, <2>2 DEF WaitersUntold, OneEndTold, PartialsInOrder
  <2>7. OnePartial'
    BY <1>2, <1>8, <2>1 DEF OnePartial, At, Active
  <2>8. StreamedBelow'
    BY <1>2, <1>6, <1>7, <1>8, <2>1, <2>2 DEF StreamedBelow, Active
  <2> QED
    BY <2>3, <2>4, <2>5, <2>6, <2>7, <2>8 DEF LedgerDecides
<1> QED
  BY <1>7, <1>9, <1>10, <1>11, <1>12, <1>13, <1>14 DEF RelayInv

\* What is told more of a NEED.
LEMMA ToldMore ==
    ASSUME TypeOK, NEW n \in Needs, NEW kind \in Terminal \cup {"PARTIAL"}, NEW k \in Nat,
           told' = [told EXCEPT ![n] = Append(@, <<kind, k>>)]
    PROVE  /\ \A m \in Needs : m # n => Ends(m)' = Ends(m) /\ Streamed(m)' = Streamed(m) /\ told'[m] = told[m]
           /\ Ends(n)' = IF kind = "PARTIAL" THEN Ends(n) ELSE Ends(n) \cup {Len(told[n]) + 1}
           /\ Streamed(n)' = IF kind = "PARTIAL" THEN Streamed(n) \cup {Len(told[n]) + 1} ELSE Streamed(n)
           /\ \A i \in 1..Len(told[n]) : told'[n][i] = told[n][i]
           /\ told'[n][Len(told[n]) + 1] = <<kind, k>>
           /\ Len(told[n]) \in Nat
<1>1. told \in [Needs -> Seq(Told)] /\ told[n] \in Seq(Told) /\ <<kind, k>> \in Told
  BY DEF TypeOK, Told
<1>2. /\ told'[n] = Append(told[n], <<kind, k>>)
      /\ \A m \in Needs : m # n => told'[m] = told[m]
  BY <1>1
<1>3. /\ Len(told'[n]) = Len(told[n]) + 1 /\ Len(told[n]) \in Nat
      /\ \A i \in 1..Len(told[n]) : told'[n][i] = told[n][i]
      /\ told'[n][Len(told[n]) + 1] = <<kind, k>>
  BY <1>1, <1>2, AppendProperties, LenProperties
<1>4. \A m \in Needs : m # n => Ends(m)' = Ends(m) /\ Streamed(m)' = Streamed(m)
  BY <1>2 DEF Ends, Streamed
<1>5. 1..Len(told'[n]) = 1..Len(told[n]) \cup {Len(told[n]) + 1} /\ Len(told[n]) + 1 \notin 1..Len(told[n])
  BY <1>3
<1>6. told'[n][Len(told[n]) + 1][1] = kind /\ "PARTIAL" \notin Terminal
  BY <1>3 DEF Terminal
<1>7. Ends(n)' = IF kind = "PARTIAL" THEN Ends(n) ELSE Ends(n) \cup {Len(told[n]) + 1}
  BY <1>3, <1>5, <1>6 DEF Ends
<1>8. Streamed(n)' = IF kind = "PARTIAL" THEN Streamed(n) \cup {Len(told[n]) + 1} ELSE Streamed(n)
  BY <1>3, <1>5, <1>6 DEF Streamed
<1> QED
  BY <1>2, <1>3, <1>4, <1>7, <1>8

\* What the ledger decided stays so when a handler ends a request.
LEMMA EndDecides ==
    ASSUME TypeOK, TypeOK', StagesFit, LedgerDecides, NEW c \in Calls, NEW n \in Needs, NEW to \in Terminal,
           EndStep(c, n, to), Ending(c, n, to), Durable,
           request'[n] = "none" \/ request'[n] = to,
           request'[n] = "matched" => request[n] = "matched",
           \A m \in Needs : m # n => request'[m] = request[m]
    PROVE  LedgerDecides'
<1>1. /\ EndKnown /\ EndsAreCommitted /\ OneResult /\ WaitersUntold /\ OneEndTold
      /\ OnePartial /\ StreamedBelow /\ PartialsInOrder
  BY DEF LedgerDecides
<1>2. /\ UNCHANGED <<ledger, ledgerPartials, partials>> /\ waiters' \subseteq waiters
      /\ \A d \in Calls : d # c => op'[d] = op[d] /\ pc'[d] = pc[d]
      /\ pc'[c] \notin {"calling", "committed"}
  BY SMTT(60) DEF Ending
<1>3. pc[c] = "committed" /\ op[c].need = n
  BY DEF EndStep, ResultFinish, RevokeFinish, ExpireFinish, StatusFinish, ExpireAtOnce
<1>4. ledger[n] = to
  BY SMTT(60), <1>1, <1>3 DEF EndStep, ResultFinish, RevokeFinish, ExpireFinish, StatusFinish, ExpireAtOnce, EndKnown, At
<1>5. \/ UNCHANGED told
      \/ told' = [told EXCEPT ![n] = Append(@, <<to, 0>>)] /\ Ends(n) = {} /\ (to = "completed" \/ n \notin waiters')
  <2>1. CASE op[c].type = "result"
    <3>1. Ends(n) = {} /\ to = "completed"
      BY <1>1, <1>3, <1>4, <2>1 DEF OneResult, EndKnown, At
    <3> QED
      BY <3>1 DEF Ending, Tells
  <2>2. CASE RevokeFinish(c) \/ ExpireFinish(c)
    <3>1. to # "completed"
      BY <1>1, <1>4, <1>3, <2>2 DEF RevokeFinish, ExpireFinish, EndKnown, At
    <3>2. n \in waiters => Ends(n) = {}
      BY <1>1, <1>4, <3>1 DEF WaitersUntold
    <3>3. UNCHANGED told \/ (n \in waiters /\ n \notin waiters')
      BY <1>3, <2>2 DEF RevokeFinish, ExpireFinish, FinishResultWaiter
    <3> QED
      BY <3>2, <3>3 DEF Ending, Tells
  <2>3. CASE StatusFinish(c)
    BY <2>3 DEF StatusFinish, outputs
  <2> QED
    BY <2>1, <2>2, <2>3 DEF EndStep, ResultFinish, ExpireAtOnce
<1>6. /\ counted'[n] = counted[n] \/ (op[c].type = "result" /\ counted'[n] = 1)
      /\ \A m \in Needs : m # n => counted'[m] = counted[m]
  <2>1. CASE \E listens \in BOOLEAN : ResultFinish(c, listens)
    <3>1. counted[n] = 0 /\ op[c].type = "result"
      BY <1>1, <1>3, <2>1 DEF OneResult, At, ResultFinish
    <3>2. counted' = [counted EXCEPT ![n] = @ + 1]
      BY <1>3, <2>1 DEF ResultFinish
    <3> QED
      BY <3>1, <3>2 DEF TypeOK
  <2>2. CASE UNCHANGED counted
    BY <2>2
  <2> QED
    BY <2>1, <2>2 DEF EndStep, RevokeFinish, ExpireFinish, StatusFinish, ExpireAtOnce, outputs
<1>7. /\ \A m \in Needs : m # n => Ends(m)' = Ends(m) /\ told'[m] = told[m]
      /\ \A m \in Needs : Streamed(m)' = Streamed(m) /\ \A i \in Streamed(m) : told'[m][i] = told[m][i]
      /\ \A i \in Ends(n)' : told'[n][i][1] = ledger[n]
      /\ \A i, j \in Ends(n)' : i = j
      /\ Ends(n)' = Ends(n) \/ (Ends(n) = {} /\ (to = "completed" \/ n \notin waiters'))
  <2>1. CASE UNCHANGED told
    BY <1>1, <2>1 DEF Ends, Streamed, EndsAreCommitted, OneEndTold
  <2>2. CASE told' = [told EXCEPT ![n] = Append(@, <<to, 0>>)] /\ Ends(n) = {} /\ (to = "completed" \/ n \notin waiters')
    <3>1. /\ \A m \in Needs : m # n => Ends(m)' = Ends(m) /\ Streamed(m)' = Streamed(m) /\ told'[m] = told[m]
          /\ Ends(n)' = {Len(told[n]) + 1} /\ Streamed(n)' = Streamed(n)
          /\ \A i \in 1..Len(told[n]) : told'[n][i] = told[n][i]
          /\ told'[n][Len(told[n]) + 1] = <<to, 0>>
      <4>1. to # "PARTIAL" /\ to \in Terminal \cup {"PARTIAL"}
        BY DEF Terminal
      <4> QED
        BY ZenonT(60), <2>2, <4>1, ToldMore
    <3>2. \A i \in Streamed(n) : told'[n][i] = told[n][i]
      BY <3>1 DEF Streamed
    <3>3. \A i \in Ends(n)' : told'[n][i][1] = ledger[n]
      BY <1>4, <3>1
    <3>4. \A i, j \in Ends(n)' : i = j
      BY <3>1
    <3>5. \A m \in Needs : Streamed(m)' = Streamed(m) /\ \A i \in Streamed(m) : told'[m][i] = told[m][i]
      BY <3>1, <3>2
    <3> QED
      BY <2>2, <3>1, <3>3, <3>4, <3>5
  <2> QED
    BY <1>5, <2>1, <2>2
<1>8. \A d \in Calls : pc'[d] \in {"calling", "committed"} => d # c /\ pc'[d] = pc[d] /\ op'[d] = op[d]
  BY <1>2
<1>9. EndKnown'
  BY <1>1, <1>2, <1>8 DEF EndKnown, At
<1>10. EndsAreCommitted'
  BY <1>1, <1>2, <1>4, <1>7 DEF EndsAreCommitted, Terminal
<1>11. OneResult'
  <2>1. \A m \in Needs : ledger'[m] # "completed" => counted'[m] = 0
    <3>1. op[c].type = "result" => ledger[n] = "completed"
      BY <1>1, <1>3 DEF EndKnown, At
    <3> QED
      BY <1>1, <1>2, <1>6, <3>1 DEF OneResult
  <2>2. ASSUME NEW d \in Calls, At(d, "result", "committed")'
        PROVE  /\ counted'[op'[d].need] = 0 /\ Ends(op[d].need)' = {}
               /\ \A e \in Calls : At(e, "result", "committed")' /\ op'[e].need = op'[d].need => e = d
    <3>1. d # c /\ op'[d] = op[d] /\ At(d, "result", "committed") /\ op[d].need \in Needs
      BY <1>8, <2>2, CallTyped DEF At
    <3>2. /\ counted[op[d].need] = 0 /\ Ends(op[d].need) = {} /\ ledger[op[d].need] = "completed"
          /\ \A e \in Calls : At(e, "result", "committed") /\ op[e].need = op[d].need => e = d
      BY <1>1, <3>1 DEF OneResult, EndKnown
    <3>3. \A e \in Calls : At(e, "result", "committed")' => op'[e] = op[e] /\ At(e, "result", "committed")
      BY <1>8 DEF At
    <3>4. op[d].need = n => op[c].type # "result"
      BY <1>3, <3>1, <3>2 DEF At
    <3>5. counted'[op[d].need] = 0
      BY <1>6, <3>1, <3>2, <3>4
    <3>6. CASE op[d].need # n
      BY <1>7, <3>1, <3>2, <3>3, <3>5, <3>6
    <3>7. CASE op[d].need = n
      <4>1. UNCHANGED told
        BY <1>3, <1>4, <3>2, <3>4, <3>7, <1>1
           DEF EndStep, ResultFinish, RevokeFinish, ExpireFinish, StatusFinish, ExpireAtOnce, outputs, EndKnown, At
      <4>2. Ends(n)' = Ends(n)
        BY <4>1 DEF Ends
      <4> QED
        BY <3>1, <3>2, <3>3, <3>5, <3>7, <4>2
    <3> QED
      BY <3>6, <3>7
  <2> QED
    BY <2>1, <2>2 DEF OneResult
<1>12. WaitersUntold'
  BY <1>1, <1>2, <1>4, <1>7 DEF WaitersUntold
<1>13. OneEndTold'
  <2>1. counted'[n] <= 1
    BY <1>1, <1>6 DEF OneEndTold
  <2> QED
    BY <1>1, <1>6, <1>7, <2>1 DEF OneEndTold
<1>14. OnePartial'
  BY <1>1, <1>2, <1>8 DEF OnePartial, At, Active
<1>15. StreamedBelow' /\ PartialsInOrder'
  <2>1. \A m \in Needs : request'[m] = "matched" => request[m] = "matched"
    OBVIOUS
  <2>2. \A d \in Calls : Active(d)' => Active(d) /\ op'[d] = op[d]
    BY <1>8 DEF Active
  <2> QED
    BY <1>1, <1>2, <1>7, <2>1, <2>2 DEF StreamedBelow, PartialsInOrder
<1> QED
  BY <1>9, <1>10, <1>11, <1>12, <1>13, <1>14, <1>15 DEF LedgerDecides

LEMMA EndKeeps ==
    ASSUME RelayAssumption, RelayInv, NEW c \in Calls, NEW n \in Needs, NEW to \in Terminal,
           EndStep(c, n, to), Ending(c, n, to)
    PROVE  RelayInv'
<1>1. /\ TypeOK /\ StagesFit /\ Unclaimed /\ Undispatched /\ OneAdmitter /\ DispatchedOnce /\ InFlightExact
      /\ IsFiniteSet(Needs)
      /\ Durable => LedgerDecides
  BY DEF RelayInv, RelayAssumption
<1>2. TypeOK'
  BY <1>1, EndsTyped
<1>3. /\ InFlightExact' /\ \A m \in Needs : m # n => request'[m] = request[m]
      /\ request'[n] = IF request[n] = "none" THEN "none" ELSE to
  BY <1>1, MarksCounted DEF Ending
<1>4. /\ UNCHANGED <<ledger, ledgerPartials, partials, seen, dispatched, mode>> /\ waiters' \subseteq waiters
      /\ \A d \in Calls : d # c => op'[d] = op[d] /\ pc'[d] = pc[d]
      /\ pc'[c] \in {"done", "terminal_capacity_invariant"}
  BY SMTT(60) DEF Ending
<1>5. dispatched[n] # 0
  <2>1. CASE request[n] = "matched"
    BY <1>1, <2>1 DEF Undispatched
  <2>2. CASE pc[c] = "committed" /\ op[c].need = n /\ op[c].type # "need"
    BY <1>1, <2>2 DEF Undispatched, Active
  <2> QED
    BY <2>1, <2>2 DEF EndStep, ResultFinish, RevokeFinish, ExpireFinish, StatusFinish, ExpireAtOnce
<1>6. /\ holding' \subseteq holding
      /\ \A m \in Needs : m # n => counted'[m] = counted[m] /\ told'[m] = told[m]
  <2>1. holding' \subseteq holding
    BY SMTT(60) DEF EndStep, ResultFinish, RevokeFinish, ExpireFinish, StatusFinish, ExpireAtOnce, ReleaseFastTerminal
  <2>2. UNCHANGED counted \/ counted' = [counted EXCEPT ![n] = @ + 1]
    BY DEF EndStep, ResultFinish, RevokeFinish, ExpireFinish, StatusFinish, ExpireAtOnce, outputs
  <2>3. \A m \in Needs : m # n => counted'[m] = counted[m]
    BY <1>1, <2>2 DEF TypeOK
  <2>4. \A m \in Needs : m # n => told'[m] = told[m]
    BY <1>1 DEF Ending, Tells, TypeOK
  <2> QED
    BY SMTT(60), <2>1, <2>3, <2>4
<1>7. Durable' = Durable /\ \A m \in Needs : Claimed(m)' = Claimed(m)
  BY <1>4 DEF Durable, Claimed
<1>8. \A d \in Calls : pc'[d] \in {"calling", "committed"} => d # c /\ pc'[d] = pc[d] /\ op'[d] = op[d]
  BY <1>4
<1>9. StagesFit'
  <2>1. pc'[c] \notin {"idle", "done"} => op'[c] \in Operations
    <3>1. CASE UNCHANGED op /\ pc[c] = "committed"
      BY <1>1, <3>1, CallTyped
    <3>2. CASE ExpireAtOnce(c, n)
      BY <1>1, <3>2 DEF ExpireAtOnce, Enter, Goto, TypeOK
    <3> QED
      BY <3>1, <3>2 DEF EndStep, ResultFinish, RevokeFinish, ExpireFinish, StatusFinish
  <2> QED
    BY <1>1, <1>4, <1>7, <2>1 DEF StagesFit, At
<1>10. Undispatched'
  BY <1>1, <1>3, <1>4, <1>5, <1>6, <1>8 DEF Undispatched, Active
<1>11. Unclaimed' /\ OneAdmitter'
  BY <1>1, <1>4, <1>7, <1>8 DEF Unclaimed, OneAdmitter, At
<1>12. DispatchedOnce'
  <2>1. \A d \in Calls : At(d, "need", "committed")' => op'[d].need \in Needs
    BY <1>1, <1>8, CallTyped DEF At
  <2> QED
    BY <1>1, <1>4, <1>10, <1>11, <2>1 DEF DispatchedOnce, OneAdmitter, Undispatched, At
<1>13. Durable => LedgerDecides'
  <2>1. to # "matched"
    BY DEF Terminal
  <2> QED
    BY <1>1, <1>2, <1>3, <2>1, EndDecides
<1> QED
  BY <1>2, <1>3, <1>7, <1>9, <1>10, <1>11, <1>12, <1>13 DEF RelayInv

LEMMA PartialKeeps ==
    ASSUME RelayInv, TypeOK', NEW c \in Calls, NEW room \in BOOLEAN, PartialFinish(c, room)
    PROVE  RelayInv'
<1>1. /\ TypeOK /\ StagesFit /\ Unclaimed /\ Undispatched /\ OneAdmitter /\ DispatchedOnce /\ InFlightExact
      /\ Durable => LedgerDecides
  BY DEF RelayInv
<1>2. PICK n \in Needs, s \in Nat : n = op[c].need /\ s = op[c].sequence
  BY <1>1, CallTyped DEF PartialFinish
<1>3. /\ UNCHANGED <<ledger, ledgerPartials, request, holding, inFlight, seen, dispatched, counted, op, mode>>
      /\ waiters' \subseteq waiters
      /\ pc[c] = "committed" /\ op[c].type = "partial"
      /\ UNCHANGED partials \/ partials' = [partials EXCEPT ![n] = s + 1]
      /\ Durable => partials' = [partials EXCEPT ![n] = s + 1]
      /\ UNCHANGED told \/ told' = [told EXCEPT ![n] = Append(@, <<"PARTIAL", s>>)]
  BY <1>2 DEF PartialFinish, shared
<1>4. pc'[c] = "done" /\ \A d \in Calls : d # c => pc'[d] = pc[d]
  BY <1>1 DEF PartialFinish, Goto, TypeOK
<1>5. dispatched[n] # 0
  BY <1>1, <1>3, <1>2 DEF Undispatched, Active
<1>6. \A d \in Calls : pc'[d] \in {"calling", "committed"} => d # c /\ pc'[d] = pc[d] /\ op'[d] = op[d]
  BY <1>3, <1>4
<1>7. \A m \in Needs : m # n => partials'[m] = partials[m] /\ told'[m] = told[m]
  BY ZenonT(60), <1>1, <1>3, <1>2 DEF TypeOK
<1>8. Durable' = Durable /\ \A m \in Needs : Claimed(m)' = Claimed(m)
  BY <1>3 DEF Durable, Claimed
<1>9. StagesFit' /\ InFlightExact'
  BY <1>1, <1>3, <1>4, <1>8 DEF StagesFit, At, InFlightExact
<1>10. Undispatched'
  BY <1>1, <1>3, <1>5, <1>6, <1>7 DEF Undispatched, Active
<1>11. Unclaimed' /\ OneAdmitter' /\ DispatchedOnce'
  BY <1>1, <1>3, <1>6, <1>8 DEF Unclaimed, OneAdmitter, DispatchedOnce, At
<1>12. ASSUME Durable
       PROVE  LedgerDecides'
  <2>1. /\ EndKnown /\ EndsAreCommitted /\ OneResult /\ WaitersUntold /\ OneEndTold
        /\ OnePartial /\ StreamedBelow /\ PartialsInOrder
    BY <1>1, <1>12 DEF LedgerDecides
  <2>2. /\ s = partials[n] /\ s < ledgerPartials[n] /\ partials'[n] = s + 1
        /\ \A d \in Calls : At(d, "partial", "committed") /\ op[d].need = n => d = c
        /\ \A i \in Streamed(n) : told[n][i][2] < s
    <3>1. At(c, "partial", "committed")
      BY <1>3 DEF At
    <3>2. /\ s = partials[n] /\ s < ledgerPartials[n]
          /\ \A d \in Calls : At(d, "partial", "committed") /\ op[d].need = n => d = c
      BY <1>2, <2>1, <3>1 DEF OnePartial
    <3>3. partials'[n] = s + 1
      BY <1>1, <1>3, <1>2, <1>12 DEF TypeOK
    <3>4. \A i \in Streamed(n) : told[n][i][2] < partials[n]
      BY <1>3, <1>2, <2>1 DEF StreamedBelow, Active
    <3> QED
      BY <3>2, <3>3, <3>4
  <2>3. /\ \A m \in Needs : Ends(m)' = Ends(m) /\ \A i \in Ends(m) : told'[m][i] = told[m][i]
        /\ \A m \in Needs : m # n => Streamed(m)' = Streamed(m)
        /\ \A i \in Streamed(n)' : told'[n][i][2] < s + 1
        /\ \A i, j \in Streamed(n)' : i < j => told'[n][i][2] < told'[n][j][2]
    <3>1. CASE UNCHANGED told
      <4>1. \A i \in Streamed(n) : told[n][i][2] \in Nat
        <5>1. \A i \in 1..Len(told[n]) : told[n][i] \in Told
          BY <1>1, <1>2, ElementOfSeq DEF TypeOK
        <5> QED
          BY <5>1 DEF Streamed, Told
      <4>2. \A m \in Needs : Ends(m)' = Ends(m) /\ Streamed(m)' = Streamed(m)
        BY <3>1 DEF Ends, Streamed
      <4>3. \A i \in Streamed(n)' : told'[n][i][2] < s + 1
        BY <1>2, <2>2, <3>1, <4>1, <4>2
      <4> QED
        BY <1>2, <2>1, <3>1, <4>2, <4>3 DEF PartialsInOrder
    <3>2. CASE told' = [told EXCEPT ![n] = Append(@, <<"PARTIAL", s>>)]
      <4>1. /\ \A m \in Needs : m # n => Ends(m)' = Ends(m) /\ Streamed(m)' = Streamed(m) /\ told'[m] = told[m]
            /\ Ends(n)' = Ends(n) /\ Streamed(n)' = Streamed(n) \cup {Len(told[n]) + 1}
            /\ \A i \in 1..Len(told[n]) : told'[n][i] = told[n][i]
            /\ told'[n][Len(told[n]) + 1] = <<"PARTIAL", s>>
            /\ Len(told[n]) \in Nat
        BY <1>1, <1>2, <3>2, ToldMore
      <4>2. \A i \in Streamed(n) : /\ i \in 1..Len(told[n]) /\ told'[n][i] = told[n][i]
                                   /\ told[n][i][2] < s /\ told[n][i][2] \in Nat
        <5>1. \A i \in 1..Len(told[n]) : told[n][i] \in Told
          BY <1>1, <1>2, ElementOfSeq DEF TypeOK
        <5> QED
          BY <2>2, <4>1, <5>1 DEF Streamed, Told
      <4>3. told'[n][Len(told[n]) + 1][2] = s
        BY <4>1
      <4>4. \A i \in Streamed(n)' : told'[n][i][2] < s + 1
        <5> SUFFICES ASSUME NEW i \in Streamed(n)' PROVE told'[n][i][2] < s + 1
          OBVIOUS
        <5>1. CASE i \in Streamed(n)
          <6>1. told'[n][i] = told[n][i] /\ told[n][i][2] < s /\ told[n][i][2] \in Nat
            BY <4>2, <5>1
          <6> QED
            BY <1>2, <6>1
        <5>2. CASE i = Len(told[n]) + 1
          BY <1>2, <4>3, <5>2
        <5> QED
          BY <4>1, <5>1, <5>2
      <4>5. \A i, j \in Streamed(n)' : i < j => told'[n][i][2] < told'[n][j][2]
        <5>1. \A i, j \in Streamed(n) : i < j => told[n][i][2] < told[n][j][2]
          BY <1>2, <2>1 DEF PartialsInOrder
        <5> SUFFICES ASSUME NEW i \in Streamed(n)', NEW j \in Streamed(n)', i < j
                     PROVE  told'[n][i][2] < told'[n][j][2]
          OBVIOUS
        <5>2. i \in Streamed(n)
          BY <4>1, <4>2
        <5>3. told'[n][i] = told[n][i] /\ told[n][i][2] < s
          BY <4>2, <5>2
        <5>4. CASE j \in Streamed(n)
          BY <4>2, <5>1, <5>2, <5>3, <5>4
        <5>5. CASE j = Len(told[n]) + 1
          BY <4>3, <5>3, <5>5
        <5> QED
          BY <4>1, <5>4, <5>5
      <4>6. \A m \in Needs : \A i \in Ends(m) : told'[m][i] = told[m][i]
        BY <4>1 DEF Ends
      <4> QED
        BY SMTT(60), <4>1, <4>4, <4>5, <4>6
    <3> QED
      BY <1>3, <3>1, <3>2
  <2>4. EndKnown'
    BY <1>3, <1>6, <2>1 DEF EndKnown, At
  <2>5. EndsAreCommitted' /\ WaitersUntold' /\ OneEndTold'
    BY <1>3, <2>1, <2>3 DEF EndsAreCommitted, WaitersUntold, OneEndTold
  <2>6. OneResult'
    <3>1. \A d \in Calls : At(d, "result", "committed")' =>
            At(d, "result", "committed") /\ op'[d] = op[d] /\ op[d].need \in Needs
      BY <1>1, <1>6, CallTyped DEF At
    <3> QED
      BY SMTT(60), <1>3, <2>1, <2>3, <3>1 DEF OneResult
  <2>7. PartialsInOrder'
    BY <1>7, <2>1, <2>3 DEF PartialsInOrder
  <2>8. OnePartial'
    <3>1. \A m \in Needs : /\ partials'[m] \in Nat /\ partials[m] \in Nat /\ partials[m] <= partials'[m]
                           /\ ledgerPartials[m] \in Nat
      <4>1. \A m \in Needs : partials'[m] \in Nat /\ partials[m] \in Nat /\ ledgerPartials[m] \in Nat
        BY SMTT(60), <1>1 DEF TypeOK
      <4> QED
        BY <1>2, <1>7, <2>2, <4>1
    <3>2. \A m \in Needs : partials'[m] <= ledgerPartials'[m]
      BY SMTT(60), <1>3, <1>2, <1>7, <2>1, <2>2, <3>1 DEF OnePartial
    <3>3. \A d \in Calls : op'[d].type = "partial" /\ Active(d)' =>
            /\ d # c /\ Active(d) /\ op'[d] = op[d] /\ op[d].need \in Needs /\ op[d].sequence \in Nat
      BY <1>1, <1>6, CallTyped DEF Active
    <3>4. \A d \in Calls : op'[d].type = "partial" /\ Active(d)' => op'[d].sequence <= partials'[op'[d].need]
      BY <2>1, <3>1, <3>3 DEF OnePartial
    <3>5. \A d \in Calls : At(d, "partial", "committed")' =>
            At(d, "partial", "committed") /\ op'[d] = op[d] /\ op[d].need \in Needs /\ op[d].need # n
      BY <1>6, <2>2, <3>3 DEF At, Active
    <3> QED
      BY <1>3, <1>7, <2>1, <3>2, <3>4, <3>5 DEF OnePartial
  <2>9. StreamedBelow'
    <3>1. \A d \in Calls : Active(d)' => Active(d) /\ op'[d] = op[d]
      BY <1>6 DEF Active
    <3> QED
      BY <1>3, <1>7, <2>1, <2>2, <2>3, <3>1 DEF StreamedBelow
  <2> QED
    BY <2>4, <2>5, <2>6, <2>7, <2>8, <2>9 DEF LedgerDecides
<1> QED
  BY <1>8, <1>9, <1>10, <1>11, <1>12 DEF RelayInv

\* After a restart nothing is in memory, and the ledger is what it was.
LEMMA RestartKeeps ==
    ASSUME RelayInv, TypeOK', Restart
    PROVE  RelayInv'
<1>1. /\ TypeOK /\ Unclaimed /\ Undispatched /\ DispatchedOnce /\ LedgerDecides
  BY DEF RelayInv, Restart
<1>2. /\ UNCHANGED <<ledger, ledgerPartials, seen, dispatched, counted, told, op, mode>>
      /\ \A n \in Needs : request'[n] = "none" /\ partials'[n] = 0
      /\ holding' = {} /\ waiters' = {} /\ inFlight' = 0
      /\ \A c \in Calls : pc'[c] \in {"idle", "done"}
  BY DEF Restart, shared, outputs
<1>3. /\ Durable' = Durable
      /\ \A m \in Needs : Claimed(m)' = Claimed(m) /\ Ends(m)' = Ends(m) /\ Streamed(m)' = Streamed(m)
  BY <1>2 DEF Durable, Claimed, Ends, Streamed
<1>4. \A c \in Calls : ~Active(c)' /\ \A type : ~At(c, type, "committed")'
  BY <1>2 DEF Active, At
<1>5. StagesFit'
  BY <1>2, <1>4 DEF StagesFit
<1>6. Unclaimed' /\ OneAdmitter'
  BY <1>1, <1>2, <1>3, <1>4 DEF Unclaimed, OneAdmitter
<1>7. Undispatched' /\ DispatchedOnce'
  BY <1>1, <1>2, <1>4 DEF Undispatched, DispatchedOnce
<1>8. InFlightExact'
  <2>1. {n \in Needs : request'[n] = "matched"} = {}
    BY <1>2
  <2> QED
    BY <1>2, <2>1, FS_EmptySet DEF InFlightExact
<1>9. EndKnown' /\ OneResult' /\ WaitersUntold' /\ StreamedBelow'
  <2>1. EndKnown' /\ WaitersUntold'
    BY <1>2, <1>4 DEF EndKnown, WaitersUntold
  <2>2. OneResult'
    BY <1>1, <1>2, <1>4 DEF OneResult, LedgerDecides
  <2>3. StreamedBelow'
    BY <1>2, <1>4 DEF StreamedBelow
  <2> QED
    BY <2>1, <2>2, <2>3
<1>10. EndsAreCommitted' /\ OneEndTold' /\ PartialsInOrder'
  <2>1. EndsAreCommitted'
    BY <1>1, <1>2, <1>3 DEF EndsAreCommitted, LedgerDecides, Terminal
  <2>2. OneEndTold' /\ PartialsInOrder'
    BY <1>1, <1>2, <1>3 DEF OneEndTold, PartialsInOrder, LedgerDecides
  <2> QED
    BY <2>1, <2>2
<1>11. OnePartial'
  <2>1. \A n \in Needs : ledgerPartials[n] \in Nat
    BY <1>1 DEF TypeOK
  <2> QED
    BY <1>2, <1>4, <2>1 DEF OnePartial, At, Active
<1> QED
  BY <1>3, <1>5, <1>6, <1>7, <1>8, <1>9, <1>10, <1>11 DEF RelayInv, LedgerDecides

LEMMA RelayInvInit == RelayAssumption /\ Init => RelayInv
<1> SUFFICES ASSUME RelayAssumption, Init PROVE RelayInv
  OBVIOUS
<1>1. TypeOK
  BY TypeInit
<1>2. \A c \in Calls : pc[c] = "idle"
  BY DEF Init
<1>3. \A n \in Needs : /\ Ends(n) = {} /\ Streamed(n) = {} /\ dispatched[n] = 0 /\ counted[n] = 0
                       /\ request[n] = "none" /\ partials[n] = 0 /\ ledgerPartials[n] = 0
                       /\ told[n] = <<>>
  BY DEF Init, Ends, Streamed
<1>4. waiters = {} /\ holding = {} /\ inFlight = 0
  BY DEF Init
<1>5. StagesFit /\ Unclaimed /\ Undispatched /\ OneAdmitter /\ DispatchedOnce
  BY <1>2, <1>3, <1>4 DEF StagesFit, Unclaimed, Undispatched, OneAdmitter, DispatchedOnce, At, Active
<1>6. InFlightExact
  <2>1. {n \in Needs : request[n] = "matched"} = {}
    BY <1>3
  <2> QED
    BY <1>4, <2>1, FS_EmptySet DEF InFlightExact
<1>7. EndKnown /\ EndsAreCommitted /\ OneResult /\ WaitersUntold /\ OneEndTold
  BY <1>2, <1>3, <1>4 DEF EndKnown, EndsAreCommitted, OneResult, WaitersUntold, OneEndTold, At, Terminal
<1>8. OnePartial /\ StreamedBelow /\ PartialsInOrder
  BY <1>2, <1>3 DEF OnePartial, StreamedBelow, PartialsInOrder, At, Active
<1> QED
  BY <1>1, <1>5, <1>6, <1>7, <1>8 DEF RelayInv, LedgerDecides

\* Every action keeps the types.
LEMMA TypeNext ==
    ASSUME RelayAssumption, RelayInv, [Next]_vars
    PROVE  TypeOK'
<1>1. /\ TypeOK /\ StagesFit /\ InFlightExact /\ IsFiniteSet(Needs)
      /\ EndKnown \/ ~Durable
  BY DEF RelayInv, LedgerDecides, RelayAssumption
<1>2. ASSUME NEW c \in Calls, NEW n \in Needs,
             \/ NeedArrives(c, n) \/ PartialArrives(c, n) \/ StatusArrives(c, n)
             \/ \E type \in {"result", "revoke", "expire"} : EndArrives(c, n, type)
      PROVE  TypeOK'
  BY <1>1, <1>2, EntersTyped
<1>3. ASSUME NEW c \in Calls, Succeed(c) \/ Throw(c) \/ \E o \in Operations : Recover(c, o)
      PROVE  TypeOK'
  BY <1>1, <1>3, LedgerTyped
<1>4. ASSUME NEW c \in Calls, NeedReserves(c) \/ NeedThrown(c)
      PROVE  TypeOK'
  BY <1>1, <1>4, ReservesTyped
<1>5. ASSUME NEW c \in Calls, NEW waits \in BOOLEAN, NeedAdmitted(c, waits) \/ PartialFinish(c, waits)
      PROVE  TypeOK'
  BY <1>1, <1>5, AdmittedTyped, PartialTyped
<1>6. ASSUME NEW c \in Calls,
             \/ \E listens \in BOOLEAN : ResultFinish(c, listens)
             \/ RevokeFinish(c) \/ ExpireFinish(c) \/ StatusFinish(c)
             \/ \E n \in Needs : ExpireAtOnce(c, n)
      PROVE  TypeOK'
  <2>1. \E n \in Needs, to \in Terminal : EndStep(c, n, to) /\ Ending(c, n, to)
    BY <1>1, <1>6, EndStepIs
  <2> QED
    BY <1>1, <2>1, EndsTyped
<1>7. ASSUME NEW n \in Needs, PeerAdmits(n) \/ PeerStreams(n) \/ \E to \in Terminal : PeerEnds(n, to)
      PROVE  TypeOK'
  BY <1>1, <1>7, PeersTyped
<1>8. CASE \/ \E n \in Needs : WaiterGone(n)
           \/ \E k \in 1..Len(terminals) : Drain(k)
           \/ Evict \/ Restart \/ UNCHANGED vars
  BY <1>1, <1>8, OthersTyped
<1> QED
  BY <1>2, <1>3, <1>4, <1>5, <1>6, <1>7, <1>8 DEF Next

LEMMA RelayInvNext ==
    ASSUME RelayAssumption, RelayInv, [Next]_vars
    PROVE  RelayInv'
<1>1. TypeOK' /\ TypeOK /\ StagesFit /\ (EndKnown \/ ~Durable)
  BY TypeNext DEF RelayInv, LedgerDecides
<1>2. ASSUME NEW c \in Calls, NEW n \in Needs,
             \/ NeedArrives(c, n) \/ PartialArrives(c, n) \/ StatusArrives(c, n)
             \/ \E type \in {"result", "revoke", "expire"} : EndArrives(c, n, type)
      PROVE  RelayInv'
  BY <1>1, <1>2, CalmSteps
<1>3. ASSUME NEW c \in Calls, Succeed(c) \/ \E o \in Operations : Recover(c, o)
      PROVE  RelayInv'
  BY <1>1, <1>3, LedgerSteps
<1>4. ASSUME NEW c \in Calls, Throw(c)
      PROVE  RelayInv'
  <2>1. CASE UNCHANGED shared
    BY <1>1, <1>4, <2>1, CalmSteps
  <2>2. CASE mode = "cosmos" /\ Accepts(op[c]) /\ Commit(op[c])
    BY <1>1, <1>4, <2>2, LedgerSteps
  <2> QED
    BY <1>4, <2>1, <2>2 DEF Throw
<1>5. ASSUME NEW c \in Calls, NeedReserves(c)
      PROVE  RelayInv'
  <2>1. CASE Durable
    BY <1>1, <1>5, <2>1, CalmSteps
  <2>2. CASE UNCHANGED seen /\ Goto(c, "done")
    BY <1>1, <1>5, <2>2, CalmSteps
  <2>3. CASE ~Durable /\ ~(UNCHANGED seen /\ Goto(c, "done"))
    BY <1>1, <1>5, <2>3, ClaimKeeps
  <2> QED
    BY <2>1, <2>2, <2>3
<1>6. ASSUME NEW c \in Calls, NeedThrown(c)
      PROVE  RelayInv'
  BY <1>1, <1>6, CalmSteps
<1>7. ASSUME NEW c \in Calls, NEW waits \in BOOLEAN, NeedAdmitted(c, waits) \/ PartialFinish(c, waits)
      PROVE  RelayInv'
  BY <1>1, <1>7, AdmittedKeeps, PartialKeeps
<1>8. ASSUME NEW c \in Calls,
             \/ \E listens \in BOOLEAN : ResultFinish(c, listens)
             \/ RevokeFinish(c) \/ ExpireFinish(c) \/ StatusFinish(c)
             \/ \E n \in Needs : ExpireAtOnce(c, n)
      PROVE  RelayInv'
  <2>1. \E n \in Needs, to \in Terminal : EndStep(c, n, to) /\ Ending(c, n, to)
    BY <1>1, <1>8, EndStepIs
  <2> QED
    BY <2>1, EndKeeps
<1>9. ASSUME NEW n \in Needs, PeerAdmits(n) \/ PeerStreams(n) \/ \E to \in Terminal : PeerEnds(n, to)
      PROVE  RelayInv'
  BY <1>1, <1>9, LedgerSteps
<1>10. CASE \/ \E n \in Needs : WaiterGone(n)
            \/ \E k \in 1..Len(terminals) : Drain(k)
            \/ Evict \/ UNCHANGED vars
  BY <1>1, <1>10, CalmSteps
<1>11. CASE Restart
  BY <1>1, <1>11, RestartKeeps
<1> QED
  BY <1>2, <1>3, <1>4, <1>5, <1>6, <1>7, <1>8, <1>9, <1>10, <1>11 DEF Next

-----------------------------------------------------------------------------
(* The books.                                                              *)

\* A call is being admitted with its reservation.
AdmittingNow(c) == op[c].type = "need" /\ pc[c] \in {"calling", "committed", "thrown"}

LEMMA AdmittingFollows ==
    ASSUME NEW c \in Calls, \A d \in Calls : d # c => op'[d] = op[d] /\ pc'[d] = pc[d]
    PROVE  Admitting' = IF AdmittingNow(c)' THEN Admitting \cup {c} ELSE Admitting \ {c}
BY DEF Admitting, AdmittingNow

LEMMA HeldFinite ==
    ASSUME RelayAssumption, TypeOK
    PROVE  /\ IsFiniteSet(holding) /\ Cardinality(holding) \in Nat
           /\ IsFiniteSet(Admitting) /\ Cardinality(Admitting) \in Nat
<1>1. holding \in SUBSET Needs /\ Admitting \in SUBSET Calls
  BY DEF TypeOK, Admitting
<1>2. IsFiniteSet(holding) /\ IsFiniteSet(Admitting)
  BY <1>1, FS_Subset DEF RelayAssumption
<1> QED
  BY <1>2, FS_CardinalityType

\* releaseFastTerminal gives back what the request held.
LEMMA ReleaseCounted ==
    ASSUME RelayAssumption, TypeOK, ReservationsCounted, NEW n \in Needs, ReleaseFastTerminal(n),
           Admitting' = Admitting
    PROVE  /\ ReservationsCounted'
           /\ n \in holding => reserved > 0 /\ reserved' = reserved - 1
           /\ reserved' <= reserved
<1>1. /\ IsFiniteSet(holding) /\ Cardinality(holding) \in Nat /\ Cardinality(Admitting) \in Nat
      /\ reserved = Cardinality(holding) + Cardinality(Admitting) /\ reserved \in Nat
      /\ holding' = holding \ {n}
      /\ reserved' = IF n \in holding /\ reserved > 0 THEN reserved - 1 ELSE reserved
  BY HeldFinite DEF ReservationsCounted, ReleaseFastTerminal, TypeOK
<1>2. CASE n \in holding
  <2>1. Cardinality(holding') = Cardinality(holding) - 1 /\ Cardinality(holding) # 0
    BY <1>1, <1>2, FS_RemoveElement, FS_EmptySet
  <2> QED
    BY <1>1, <1>2, <2>1 DEF ReservationsCounted
<1>3. CASE n \notin holding
  <2>1. holding' = holding /\ reserved' = reserved
    BY <1>1, <1>3
  <2>2. ReservationsCounted'
    BY <2>1 DEF ReservationsCounted
  <2> QED
    BY <1>1, <1>3, <2>1, <2>2
<1> QED
  BY <1>2, <1>3

\* A call that did not hold a reservation takes one, and one that held it
\* gives it back, or hands it to its request.
LEMMA AdmittingCounted ==
    ASSUME RelayAssumption, TypeOK, TypeOK', ReservationsCounted, NEW c \in Calls,
           \A d \in Calls : d # c => op'[d] = op[d] /\ pc'[d] = pc[d],
           \/ ~AdmittingNow(c) /\ AdmittingNow(c)' /\ reserved' = reserved + 1 /\ UNCHANGED holding
           \/ /\ AdmittingNow(c) /\ ~AdmittingNow(c)' /\ UNCHANGED holding
              /\ reserved' = IF reserved > 0 THEN reserved - 1 ELSE reserved
           \/ /\ AdmittingNow(c) /\ ~AdmittingNow(c)' /\ UNCHANGED reserved
              /\ \E n \in Needs : n \notin holding /\ holding' = holding \cup {n}
           \/ AdmittingNow(c)' = AdmittingNow(c) /\ UNCHANGED <<reserved, holding>>
    PROVE  ReservationsCounted' /\ reserved' <= reserved + 1
<1>1. /\ IsFiniteSet(holding) /\ Cardinality(holding) \in Nat
      /\ IsFiniteSet(Admitting) /\ Cardinality(Admitting) \in Nat
      /\ reserved = Cardinality(holding) + Cardinality(Admitting) /\ reserved \in Nat
  BY HeldFinite DEF ReservationsCounted, TypeOK
<1>2. /\ Admitting' = IF AdmittingNow(c)' THEN Admitting \cup {c} ELSE Admitting \ {c}
      /\ c \in Admitting <=> AdmittingNow(c)
  BY AdmittingFollows DEF Admitting, AdmittingNow
<1>3. CASE ~AdmittingNow(c) /\ AdmittingNow(c)' /\ reserved' = reserved + 1 /\ UNCHANGED holding
  <2>1. Cardinality(Admitting') = Cardinality(Admitting) + 1
    BY <1>1, <1>2, <1>3, FS_AddElement
  <2> QED
    BY <1>1, <1>3, <2>1 DEF ReservationsCounted
<1>4. CASE AdmittingNow(c) /\ ~AdmittingNow(c)'
  <2>1. Cardinality(Admitting') = Cardinality(Admitting) - 1 /\ Cardinality(Admitting) # 0
    BY <1>1, <1>2, <1>4, FS_RemoveElement, FS_EmptySet
  <2>2. CASE UNCHANGED holding /\ reserved' = IF reserved > 0 THEN reserved - 1 ELSE reserved
    BY <1>1, <2>1, <2>2 DEF ReservationsCounted
  <2>3. ASSUME NEW n \in Needs, n \notin holding, holding' = holding \cup {n}, UNCHANGED reserved
        PROVE  ReservationsCounted' /\ reserved' <= reserved + 1
    <3>1. Cardinality(holding') = Cardinality(holding) + 1
      BY <1>1, <2>3, FS_AddElement
    <3> QED
      BY <1>1, <2>1, <2>3, <3>1 DEF ReservationsCounted
  <2> QED
    BY <1>4, <2>2, <2>3
<1>5. CASE AdmittingNow(c)' = AdmittingNow(c) /\ UNCHANGED <<reserved, holding>>
  <2>1. Admitting' = Admitting
    BY <1>2, <1>5
  <2> QED
    BY <1>1, <1>5, <2>1 DEF ReservationsCounted
<1> QED
  BY <1>3, <1>4, <1>5

\* Steps that leave the reservations alone.
LEMMA QuietBooks ==
    ASSUME RelayAssumption, TypeOK, TypeOK', ReservationsCounted, Durable => TerminalRoom,
           UNCHANGED <<holding, reserved, mode>>, Admitting' = Admitting,
           Len(terminals') <= Len(terminals),
           \A d \in Calls : pc'[d] # pc[d] => pc'[d] # "terminal_capacity_invariant"
    PROVE  ReservationsCounted' /\ (Durable' => TerminalRoom')
<1>1. ReservationsCounted'
  BY DEF ReservationsCounted
<1>2. ASSUME Durable
      PROVE  TerminalRoom'
  <2>1. /\ Len(terminals) + reserved <= MaxTerminals
        /\ \A d \in Calls : pc[d] # "terminal_capacity_invariant"
    BY <1>2 DEF TerminalRoom
  <2>2. Len(terminals) \in Nat /\ Len(terminals') \in Nat /\ reserved \in Nat /\ MaxTerminals \in Nat
    BY LenProperties DEF TypeOK, RelayAssumption
  <2>3. Len(terminals') + reserved' <= MaxTerminals
    BY <2>1, <2>2
  <2>4. \A d \in Calls : pc'[d] # "terminal_capacity_invariant"
    BY <2>1
  <2> QED
    BY <2>3, <2>4 DEF TerminalRoom
<1> QED
  BY <1>1, <1>2 DEF Durable

LEMMA QuietRoom ==
    ASSUME RelayInv, Durable, RoomHeld, UNCHANGED <<holding>>, LedgerAdvances,
           \A m \in Needs : request'[m] = "matched" => request[m] = "matched",
           \A d \in Calls : At(d, "result", "calling")' =>
                \/ op'[d] = op[d] /\ At(d, "result", "calling")
                \/ op'[d].need \in Needs /\ request[op'[d].need] = "matched",
           \A d \in Calls : At(d, "result", "committed")' =>
                /\ op'[d] = op[d]
                /\ \/ At(d, "result", "committed")
                   \/ At(d, "result", "calling") /\ ledger[op[d].need] = "matched"
    PROVE  RoomHeld'
<1>1. /\ TypeOK /\ StagesFit /\ Unclaimed /\ Undispatched
  BY DEF RelayInv
<1>2. \A n \in Needs : ledger'[n] = "matched" => ledger[n] = "matched" \/ dispatched[n] = 0
  BY <1>1 DEF LedgerAdvances, Unclaimed, Claimed, Terminal
<1>3. \A n \in Needs : request[n] = "matched" /\ ledger'[n] = "matched" => n \in holding
  BY <1>1, <1>2 DEF RoomHeld, Undispatched
<1>4. ASSUME NEW d \in Calls, At(d, "result", "calling")', ledger'[op'[d].need] = "matched"
      PROVE  op'[d].need \in holding
  <2>1. CASE op'[d] = op[d] /\ At(d, "result", "calling")
    <3>1. op[d].need \in Needs
      BY <1>1, <2>1, CallTyped DEF At
    <3>2. dispatched[op[d].need] # 0
      BY <1>1, <2>1, <3>1 DEF Undispatched, At, Active
    <3> QED
      BY <1>2, <1>4, <2>1, <3>1, <3>2 DEF RoomHeld
  <2>2. CASE op'[d].need \in Needs /\ request[op'[d].need] = "matched"
    BY <1>3, <1>4, <2>2
  <2> QED
    BY <1>4, <2>1, <2>2
<1>5. ASSUME NEW d \in Calls, At(d, "result", "committed")'
      PROVE  op'[d].need \in holding
  BY <1>5 DEF RoomHeld
<1> QED
  BY <1>3, <1>4, <1>5 DEF RoomHeld

LEMMA LedgerStands == ASSUME TypeOK, UNCHANGED <<ledger, ledgerPartials>> PROVE LedgerAdvances
BY DEF LedgerAdvances, TypeOK

\* Handlers that enter, wait for the ledger or leave without an end, peers,
\* waiters that give up and polls of the requester leave the books alone.
LEMMA QuietKeeps ==
    ASSUME RelayAssumption, RelayInv, RelayInv', ReservationsCounted, Durable => RoomHeld /\ TerminalRoom,
           UNCHANGED <<holding, reserved, mode>>, LedgerAdvances, Len(terminals') <= Len(terminals),
           \A m \in Needs : request'[m] = "matched" => request[m] = "matched",
           NEW c \in Calls, \A d \in Calls : d # c => op'[d] = op[d] /\ pc'[d] = pc[d],
           AdmittingNow(c)' = AdmittingNow(c), pc'[c] # pc[c] => pc'[c] # "terminal_capacity_invariant",
           At(c, "result", "calling")' =>
                \/ op'[c] = op[c] /\ At(c, "result", "calling")
                \/ op'[c].need \in Needs /\ request[op'[c].need] = "matched",
           Durable /\ At(c, "result", "committed")' =>
                /\ op'[c] = op[c]
                /\ \/ At(c, "result", "committed")
                   \/ At(c, "result", "calling") /\ ledger[op[c].need] = "matched"
    PROVE  ReservationsCounted' /\ (Durable' => RoomHeld' /\ TerminalRoom')
<1>1. TypeOK /\ TypeOK'
  BY DEF RelayInv
<1>2. Admitting' = Admitting
  BY AdmittingFollows DEF Admitting, AdmittingNow
<1>3. ReservationsCounted' /\ (Durable' => TerminalRoom')
  BY <1>1, <1>2, QuietBooks
<1>4. ASSUME Durable
      PROVE  RoomHeld'
  <2>1. \A d \in Calls : d # c => \A stage : At(d, "result", stage)' => op'[d] = op[d] /\ At(d, "result", stage)
    BY DEF At
  <2>2. \A d \in Calls : At(d, "result", "calling")' =>
                \/ op'[d] = op[d] /\ At(d, "result", "calling")
                \/ op'[d].need \in Needs /\ request[op'[d].need] = "matched"
    BY <2>1
  <2>3. \A d \in Calls : At(d, "result", "committed")' =>
                /\ op'[d] = op[d]
                /\ \/ At(d, "result", "committed")
                   \/ At(d, "result", "calling") /\ ledger[op[d].need] = "matched"
    BY <1>4, <2>1
  <2> QED
    BY <1>4, <2>2, <2>3, QuietRoom
<1> QED
  BY <1>3, <1>4 DEF Durable

LEMMA EntersBooks ==
    ASSUME RelayAssumption, RelayInv, RelayInv', ReservationsCounted, Durable => RoomHeld /\ TerminalRoom,
           NEW c \in Calls, NEW n \in Needs,
           \/ NeedArrives(c, n) \/ PartialArrives(c, n) \/ StatusArrives(c, n)
           \/ \E type \in {"result", "revoke", "expire"} : EndArrives(c, n, type)
    PROVE  ReservationsCounted' /\ (Durable' => RoomHeld' /\ TerminalRoom')
<1>1. TypeOK
  BY DEF RelayInv
<1>2. UNCHANGED <<ledger, ledgerPartials, rest, mode>>
  BY DEF NeedArrives, PartialArrives, StatusArrives, EndArrives, shared, local, outputs, rest
<1>3. /\ pc[c] = "idle" /\ \A d \in Calls : d # c => op'[d] = op[d] /\ pc'[d] = pc[d]
      /\ pc'[c] = "reserving" \/ op'[c].type # "need"
      /\ pc'[c] \in {"reserving", "calling", "committed"}
      /\ op'[c].type = "result" => op'[c].need = n /\ request[n] = "matched"
      /\ pc'[c] = "committed" => ~Durable
  <2>1. CASE NeedArrives(c, n)
    BY <1>1, <2>1 DEF NeedArrives, Enter, Goto, TypeOK
  <2>2. CASE PartialArrives(c, n)
    BY <1>1, <2>2 DEF PartialArrives, Enter, Goto, TypeOK
  <2>3. CASE StatusArrives(c, n)
    BY <1>1, <2>3 DEF StatusArrives, Enter, Goto, TypeOK
  <2>4. CASE \E type \in {"result", "revoke", "expire"} : EndArrives(c, n, type)
    <3>1. PICK type \in {"result", "revoke", "expire"} : EndArrives(c, n, type)
      BY <2>4
    <3> QED
      BY <1>1, <3>1 DEF EndArrives, Enter, Goto, TypeOK
  <2> QED
    BY <2>1, <2>2, <2>3, <2>4
<1>4. AdmittingNow(c)' = AdmittingNow(c)
  BY <1>3 DEF AdmittingNow
<1>5. LedgerAdvances /\ Len(terminals') <= Len(terminals)
  BY <1>1, <1>2, LedgerStands, LenProperties DEF rest, TypeOK
<1>6. At(c, "result", "calling")' => op'[c].need \in Needs /\ request[op'[c].need] = "matched"
  BY <1>3 DEF At
<1>7. ~(Durable /\ At(c, "result", "committed")')
  BY <1>3 DEF At
<1>8. UNCHANGED <<holding, reserved, mode>> /\ \A m \in Needs : request'[m] = "matched" => request[m] = "matched"
  BY <1>2 DEF rest
<1> QED
  BY <1>3, <1>4, <1>5, <1>6, <1>7, <1>8, QuietKeeps

LEMMA CallsBooks ==
    ASSUME RelayAssumption, RelayInv, RelayInv', ReservationsCounted, Durable => RoomHeld /\ TerminalRoom,
           NEW c \in Calls,
           Succeed(c) \/ Throw(c) \/ \E o \in Operations : Recover(c, o)
    PROVE  ReservationsCounted' /\ (Durable' => RoomHeld' /\ TerminalRoom')
<1>1. TypeOK /\ StagesFit
  BY DEF RelayInv
<1>2. UNCHANGED <<rest, mode>>
  BY DEF Succeed, Throw, Recover, local, outputs, rest
<1>3. LedgerAdvances
  <2>1. pc[c] = "calling" => op[c] \in Operations
    BY <1>1, CallTyped
  <2>2. CASE Succeed(c)
    BY <1>1, <2>1, <2>2, CommitAdvances DEF Succeed
  <2>3. CASE Throw(c)
    BY <1>1, <2>1, <2>3, CommitAdvances, LedgerStands DEF Throw, shared
  <2>4. CASE \E o \in Operations : Recover(c, o)
    BY <1>1, <2>4, CommitAdvances DEF Recover
  <2> QED
    BY <2>2, <2>3, <2>4
<1>4. /\ \A d \in Calls : d # c => op'[d] = op[d] /\ pc'[d] = pc[d]
      /\ \/ pc[c] = "calling" /\ pc'[c] = "committed" /\ op'[c] = op[c] /\ (op[c].type = "result" => ledger[op[c].need] = "matched")
         \/ pc[c] = "calling" /\ pc'[c] = "thrown" /\ op'[c] = op[c] /\ op[c].type = "need"
         \/ pc[c] = "calling" /\ pc'[c] = "done" /\ op'[c] = op[c] /\ op[c].type # "need"
         \/ pc[c] = "idle" /\ pc'[c] = "done"
  <2>1. CASE Succeed(c)
    BY <1>1, <2>1 DEF Succeed, Goto, TypeOK, Accepts
  <2>2. CASE Throw(c)
    BY <1>1, <2>2 DEF Throw, Goto, TypeOK
  <2>3. CASE \E o \in Operations : Recover(c, o)
    BY <1>1, <2>3 DEF Recover, Enter, Goto, TypeOK
  <2> QED
    BY <2>1, <2>2, <2>3
<1>5. AdmittingNow(c)' = AdmittingNow(c)
  BY <1>4 DEF AdmittingNow
<1>6. ~At(c, "result", "calling")'
  BY <1>4 DEF At
<1>7. At(c, "result", "committed")' =>
        op'[c] = op[c] /\ At(c, "result", "calling") /\ ledger[op[c].need] = "matched"
  BY <1>4 DEF At
<1>8. /\ UNCHANGED <<holding, reserved, mode>> /\ \A m \in Needs : request'[m] = "matched" => request[m] = "matched"
      /\ Len(terminals') <= Len(terminals) /\ pc'[c] # "terminal_capacity_invariant"
  BY <1>1, <1>2, <1>4, LenProperties DEF rest, TypeOK
<1> QED
  BY <1>3, <1>4, <1>5, <1>6, <1>7, <1>8, QuietKeeps

\* Peers and the requester itself.
LEMMA OutsideBooks ==
    ASSUME RelayAssumption, RelayInv, RelayInv', ReservationsCounted, Durable => RoomHeld /\ TerminalRoom,
           \/ \E n \in Needs : \/ PeerAdmits(n) \/ PeerStreams(n) \/ WaiterGone(n)
                               \/ \E to \in Terminal : PeerEnds(n, to)
           \/ \E k \in 1..Len(terminals) : Drain(k)
           \/ UNCHANGED vars
    PROVE  ReservationsCounted' /\ (Durable' => RoomHeld' /\ TerminalRoom')
<1>1. TypeOK /\ TypeOK'
  BY DEF RelayInv
<1>2. UNCHANGED <<holding, reserved, request, op, pc, mode>>
  BY DEF PeerAdmits, PeerStreams, PeerEnds, WaiterGone, Drain, vars, local, outputs
<1>3. LedgerAdvances
  <2>1. \A m \in Needs : ledgerPartials[m] \in Nat /\ ledgerPartials[m] <= ledgerPartials[m]
    BY <1>1 DEF TypeOK
  <2>2. ASSUME NEW n \in Needs, PeerAdmits(n) \/ \E to \in Terminal : PeerEnds(n, to)
        PROVE  LedgerAdvances
    BY <1>1, <2>1, <2>2 DEF PeerAdmits, PeerEnds, LedgerAdvances, TypeOK
  <2>3. ASSUME NEW n \in Needs, PeerStreams(n)
        PROVE  LedgerAdvances
    BY SMTT(60), <1>1, <2>1, <2>3 DEF PeerStreams, LedgerAdvances, TypeOK
  <2>4. CASE UNCHANGED <<ledger, ledgerPartials>>
    BY <1>1, <2>4, LedgerStands
  <2> QED
    BY <2>2, <2>3, <2>4 DEF WaiterGone, Drain, vars, shared
<1>4. Len(terminals') <= Len(terminals)
  <2>1. terminals \in Seq(Needs) /\ Len(terminals) \in Nat
    BY <1>1, LenProperties DEF TypeOK
  <2>2. ASSUME NEW k \in 1..Len(terminals), Drain(k)
        PROVE  Len(terminals') <= Len(terminals)
    BY <2>1, <2>2 DEF Drain
  <2>3. CASE UNCHANGED terminals
    BY <2>1, <2>3
  <2> QED
    BY <2>2, <2>3 DEF PeerAdmits, PeerStreams, PeerEnds, WaiterGone, vars, local
<1>5. Admitting' = Admitting /\ \A d \in Calls : \A stage : At(d, "result", stage)' = At(d, "result", stage)
  BY <1>2 DEF Admitting, At
<1>6. ReservationsCounted' /\ (Durable' => TerminalRoom')
  BY <1>1, <1>2, <1>4, <1>5, QuietBooks
<1>7. Durable => RoomHeld'
  BY <1>2, <1>3, <1>5, QuietRoom
<1> QED
  BY <1>2, <1>6, <1>7 DEF Durable

LEMMA ReservesBooks ==
    ASSUME RelayAssumption, RelayInv, RelayInv', ReservationsCounted, Durable => RoomHeld /\ TerminalRoom,
           NEW c \in Calls, NeedReserves(c)
    PROVE  ReservationsCounted' /\ (Durable' => RoomHeld' /\ TerminalRoom')
<1>1. TypeOK /\ TypeOK' /\ StagesFit
  BY DEF RelayInv
<1>2. UNCHANGED <<ledger, ledgerPartials, holding, terminals, op, mode>> /\ pc[c] = "reserving"
  BY DEF NeedReserves, shared, outputs
<1>3. /\ op[c].type = "need" /\ ~AdmittingNow(c)
      /\ LedgerAdvances /\ Len(terminals') <= Len(terminals)
  BY <1>1, <1>2, LedgerStands, LenProperties DEF StagesFit, AdmittingNow, TypeOK
<1>4. \A m \in Needs : request'[m] = "matched" => request[m] = "matched"
  <2>1. CASE UNCHANGED request
    BY <2>1
  <2>2. ASSUME NEW gone, request' = [m \in Needs |-> IF m \in gone THEN "none" ELSE request[m]]
        PROVE  \A m \in Needs : request'[m] = "matched" => request[m] = "matched"
    BY <2>2
  <2> QED
    BY <2>1, <2>2 DEF NeedReserves
<1>5. ASSUME NEW stage \in {"done", "calling", "committed"}, Goto(c, stage)
      PROVE  /\ \A d \in Calls : d # c => op'[d] = op[d] /\ pc'[d] = pc[d]
             /\ pc'[c] = stage /\ op'[c] = op[c] /\ (AdmittingNow(c)' <=> stage # "done")
             /\ \A s : ~At(c, "result", s)'
  BY <1>1, <1>2, <1>3, <1>5 DEF Goto, TypeOK, AdmittingNow, At
<1>6. CASE UNCHANGED reserved /\ Goto(c, "done")
  <2>1. /\ \A d \in Calls : d # c => op'[d] = op[d] /\ pc'[d] = pc[d]
        /\ pc'[c] = "done" /\ AdmittingNow(c)' = AdmittingNow(c)
        /\ \A s : ~At(c, "result", s)'
    BY <1>3, <1>5, <1>6 DEF AdmittingNow
  <2> QED
    BY <1>2, <1>3, <1>4, <1>6, <2>1, QuietKeeps
<1>7. CASE ~TerminalsFull /\ reserved' = reserved + 1 /\ \E stage \in {"calling", "committed"} : Goto(c, stage)
  <2>1. /\ \A d \in Calls : d # c => op'[d] = op[d] /\ pc'[d] = pc[d]
        /\ AdmittingNow(c)' /\ pc'[c] # "terminal_capacity_invariant"
        /\ \A s : ~At(c, "result", s)'
    BY <1>5, <1>7
  <2>2. ReservationsCounted'
    BY <1>1, <1>2, <1>3, <1>7, <2>1, AdmittingCounted
  <2>3. ASSUME Durable
        PROVE  RoomHeld' /\ TerminalRoom'
    <3>1. \A d \in Calls : \A s : At(d, "result", s)' => op'[d] = op[d] /\ At(d, "result", s)
      BY <2>1 DEF At
    <3>2. RoomHeld'
      BY <1>2, <1>3, <1>4, <2>3, <3>1, QuietRoom
    <3>3. /\ Len(terminals) \in Nat /\ reserved \in Nat /\ MaxTerminals \in Nat
          /\ ~(Len(terminals) + reserved >= MaxTerminals)
      BY <1>1, <1>7, LenProperties DEF TypeOK, RelayAssumption, TerminalsFull
    <3>4. Len(terminals') + reserved' <= MaxTerminals
      BY <1>2, <1>7, <3>3
    <3>5. \A d \in Calls : pc'[d] # "terminal_capacity_invariant"
      BY <2>1, <2>3 DEF TerminalRoom
    <3> QED
      BY <3>2, <3>4, <3>5 DEF TerminalRoom
  <2> QED
    BY <1>2, <2>2, <2>3 DEF Durable
<1> QED
  BY <1>6, <1>7 DEF NeedReserves

LEMMA ThrownBooks ==
    ASSUME RelayAssumption, RelayInv, RelayInv', ReservationsCounted, Durable => RoomHeld /\ TerminalRoom,
           NEW c \in Calls, NeedThrown(c)
    PROVE  ReservationsCounted' /\ (Durable' => RoomHeld' /\ TerminalRoom')
<1>1. TypeOK /\ TypeOK' /\ StagesFit
  BY DEF RelayInv
<1>2. /\ UNCHANGED <<ledger, ledgerPartials, request, holding, terminals, op, mode>> /\ pc[c] = "thrown"
      /\ reserved' = IF reserved > 0 THEN reserved - 1 ELSE reserved
  BY DEF NeedThrown, shared, outputs
<1>3. pc'[c] = "done" /\ \A d \in Calls : d # c => op'[d] = op[d] /\ pc'[d] = pc[d]
  BY <1>1, <1>2 DEF NeedThrown, Goto, TypeOK
<1>4. AdmittingNow(c) /\ ~AdmittingNow(c)'
  BY <1>1, <1>2, <1>3 DEF StagesFit, AdmittingNow
<1>5. ReservationsCounted'
  BY <1>1, <1>2, <1>3, <1>4, AdmittingCounted
<1>6. ASSUME Durable
      PROVE  RoomHeld' /\ TerminalRoom'
  <2>1. \A d \in Calls : \A s \in {"calling", "committed"} : At(d, "result", s)' => op'[d] = op[d] /\ At(d, "result", s)
    BY <1>3 DEF At
  <2>2. RoomHeld'
    BY <1>1, <1>2, <1>6, <2>1, LedgerStands, QuietRoom
  <2>3. /\ Len(terminals) \in Nat /\ reserved \in Nat /\ MaxTerminals \in Nat
    BY <1>1, LenProperties DEF TypeOK, RelayAssumption
  <2>4. Len(terminals') + reserved' <= MaxTerminals
    BY <1>2, <1>6, <2>3 DEF TerminalRoom
  <2>5. \A d \in Calls : pc'[d] # "terminal_capacity_invariant"
    BY <1>3, <1>6 DEF TerminalRoom
  <2> QED
    BY <2>2, <2>4, <2>5 DEF TerminalRoom
<1> QED
  BY <1>2, <1>5, <1>6 DEF Durable

LEMMA AdmittedBooks ==
    ASSUME RelayAssumption, RelayInv, RelayInv', ReservationsCounted, Durable => RoomHeld /\ TerminalRoom,
           NEW c \in Calls, NEW waits \in BOOLEAN, NeedAdmitted(c, waits)
    PROVE  ReservationsCounted' /\ (Durable' => RoomHeld' /\ TerminalRoom')
<1>1. TypeOK /\ TypeOK' /\ StagesFit /\ OneAdmitter /\ Undispatched
  BY DEF RelayInv
<1>2. PICK n \in Needs : n = op[c].need
  BY <1>1, CallTyped DEF NeedAdmitted
<1>3. /\ UNCHANGED <<ledger, reserved, terminals, op, mode>> /\ pc[c] = "committed" /\ op[c].type = "need"
      /\ request' = [request EXCEPT ![n] = "matched"] /\ holding' = holding \cup {n}
  BY <1>2 DEF NeedAdmitted, shared
<1>4. pc'[c] = "done" /\ \A d \in Calls : d # c => op'[d] = op[d] /\ pc'[d] = pc[d]
  BY <1>1, <1>3 DEF NeedAdmitted, Goto, TypeOK
<1>5. n \notin holding
  BY <1>1, <1>2, <1>3 DEF OneAdmitter, Undispatched, At
<1>6. ReservationsCounted'
  <2>1. AdmittingNow(c) /\ ~AdmittingNow(c)'
    BY <1>3, <1>4 DEF AdmittingNow
  <2> QED
    BY <1>1, <1>3, <1>4, <1>5, <2>1, AdmittingCounted
<1>7. ASSUME Durable
      PROVE  RoomHeld' /\ TerminalRoom'
  <2>1. \A d \in Calls : \A s \in {"calling", "committed"} : At(d, "result", s)' => op'[d] = op[d] /\ At(d, "result", s)
    BY <1>3, <1>4 DEF At
  <2>2. \A m \in Needs : request'[m] = "matched" => m = n \/ request[m] = "matched"
    BY <1>1, <1>3 DEF TypeOK
  <2>3. RoomHeld'
    BY <1>3, <1>7, <2>1, <2>2 DEF RoomHeld
  <2>4. TerminalRoom'
    BY <1>3, <1>4, <1>7 DEF TerminalRoom
  <2> QED
    BY <2>3, <2>4
<1> QED
  BY <1>3, <1>6, <1>7 DEF Durable

LEMMA PartialBooks ==
    ASSUME RelayAssumption, RelayInv, RelayInv', ReservationsCounted, Durable => RoomHeld /\ TerminalRoom,
           NEW c \in Calls, NEW room \in BOOLEAN, PartialFinish(c, room)
    PROVE  ReservationsCounted' /\ (Durable' => RoomHeld' /\ TerminalRoom')
<1>1. TypeOK
  BY DEF RelayInv
<1>2. /\ UNCHANGED <<ledger, ledgerPartials, request, holding, reserved, terminals, op, mode>>
      /\ pc[c] = "committed" /\ op[c].type = "partial"
  BY DEF PartialFinish, shared
<1>3. pc'[c] = "done" /\ \A d \in Calls : d # c => op'[d] = op[d] /\ pc'[d] = pc[d]
  BY <1>1, <1>2 DEF PartialFinish, Goto, TypeOK
<1>4. /\ AdmittingNow(c)' = AdmittingNow(c) /\ \A s \in {"calling", "committed"} : ~At(c, "result", s)'
      /\ LedgerAdvances /\ Len(terminals') <= Len(terminals)
  BY SMTT(60), <1>1, <1>2, <1>3, LedgerStands, LenProperties DEF AdmittingNow, At, TypeOK
<1> QED
  BY <1>2, <1>3, <1>4, QuietKeeps

\* The end of a request: a RESULT takes the room that was kept for it.
LEMMA EndBooks ==
    ASSUME RelayAssumption, RelayInv, RelayInv', ReservationsCounted, Durable => RoomHeld /\ TerminalRoom,
           NEW c \in Calls, NEW n \in Needs, NEW to \in Terminal, EndStep(c, n, to), Ending(c, n, to)
    PROVE  ReservationsCounted' /\ (Durable' => RoomHeld' /\ TerminalRoom')
<1>1. TypeOK /\ TypeOK' /\ StagesFit /\ InFlightExact /\ IsFiniteSet(Needs)
  BY DEF RelayInv, RelayAssumption
<1>2. /\ UNCHANGED <<ledger, ledgerPartials, mode>>
      /\ \A d \in Calls : d # c => op'[d] = op[d] /\ pc'[d] = pc[d]
      /\ pc'[c] \in {"done", "terminal_capacity_invariant"}
  BY DEF Ending
<1>3. \A m \in Needs : request'[m] = "matched" => request[m] = "matched" /\ m # n
  <2>1. /\ request'[n] = IF request[n] = "none" THEN "none" ELSE to
        /\ \A m \in Needs : m # n => request'[m] = request[m]
    BY <1>1, MarksCounted DEF Ending
  <2> QED
    BY <2>1 DEF Terminal
<1>4. AdmittingNow(c)' = AdmittingNow(c)
  <2>1. ~AdmittingNow(c)
    BY DEF EndStep, ResultFinish, RevokeFinish, ExpireFinish, StatusFinish, ExpireAtOnce, Enter, AdmittingNow
  <2> QED
    BY SMTT(60), <1>2, <2>1 DEF AdmittingNow
<1>5. \A s \in {"calling", "committed"} : ~At(c, "result", s)'
  BY <1>2 DEF At
<1>6. CASE StatusFinish(c)
  <2>1. UNCHANGED <<holding, reserved, terminals>> /\ Goto(c, "done")
    BY <1>6 DEF StatusFinish
  <2>2. pc'[c] = "done" /\ LedgerAdvances /\ Len(terminals') <= Len(terminals)
    BY SMTT(60), <1>1, <1>2, <2>1, LedgerStands, LenProperties DEF Goto, TypeOK
  <2> QED
    BY <1>2, <1>3, <1>4, <1>5, <2>1, <2>2, QuietKeeps
<1>7. CASE ReleaseFastTerminal(n) /\ ~StatusFinish(c)
  <2>1. Admitting' = Admitting
    BY <1>2, <1>4, AdmittingFollows DEF Admitting, AdmittingNow
  <2>2. /\ ReservationsCounted' /\ reserved' <= reserved
        /\ n \in holding => reserved > 0 /\ reserved' = reserved - 1
        /\ holding' = holding \ {n}
    BY <1>1, <1>7, <2>1, ReleaseCounted, ReleasesTyped
  <2>3. ASSUME Durable
        PROVE  RoomHeld' /\ TerminalRoom'
    <3>1. RoomHeld /\ TerminalRoom /\ EndKnown /\ OneResult
      BY <2>3 DEF RelayInv, LedgerDecides
    <3>2. pc[c] = "committed" /\ op[c].need = n /\ op[c].type \in {"result", "revoke", "expire"}
      BY <1>7, <2>3 DEF EndStep, ResultFinish, RevokeFinish, ExpireFinish, ExpireAtOnce
    <3>3. /\ ledger[n] # "matched" /\ (ledger[n] = "completed" => op[c].type = "result")
      BY <3>1, <3>2 DEF EndKnown, At
    <3>4. \A d \in Calls, s \in {"calling", "committed"} : At(d, "result", s)' =>
            d # c /\ op'[d] = op[d] /\ At(d, "result", s)
      BY <1>2, <1>5 DEF At
    <3>5. \A d \in Calls : d # c /\ At(d, "result", "committed") => op[d].need # n
      BY <3>1, <3>2, <3>3 DEF OneResult, EndKnown, At
    <3>6. RoomHeld'
      BY <1>2, <1>3, <2>2, <3>1, <3>3, <3>4, <3>5 DEF RoomHeld
    <3>7. Len(terminals) \in Nat /\ reserved \in Nat /\ reserved' \in Nat /\ MaxTerminals \in Nat
      BY <1>1, LenProperties DEF TypeOK, RelayAssumption
    <3>8. /\ Len(terminals) + reserved <= MaxTerminals
          /\ \A d \in Calls : pc[d] # "terminal_capacity_invariant"
      BY <3>1, <2>3 DEF TerminalRoom
    <3>9. Len(terminals') + reserved' <= MaxTerminals /\ pc'[c] = "done"
      <4>1. ASSUME NEW listens \in BOOLEAN, ResultFinish(c, listens)
            PROVE  Len(terminals') + reserved' <= MaxTerminals /\ pc'[c] = "done"
        <5>1. n \in holding
          BY <3>1, <3>2, <4>1 DEF RoomHeld, ResultFinish, At
        <5>2. Len(terminals) < MaxTerminals /\ reserved' = reserved - 1
          BY <2>2, <3>7, <3>8, <5>1
        <5>3. ~(Len(terminals) >= MaxTerminals)
          BY <3>7, <5>2
        <5>4. /\ terminals' = terminals \/ terminals' = Append(terminals, n)
              /\ Goto(c, "done")
          BY <3>2, <4>1, <5>3 DEF ResultFinish
        <5>5. terminals \in Seq(Needs)
          BY <1>1 DEF TypeOK
        <5>6. Len(terminals') <= Len(terminals) + 1 /\ Len(terminals') \in Nat
          BY <3>7, <5>4, <5>5, AppendProperties
        <5>7. pc'[c] = "done"
          BY <1>1, <5>4 DEF Goto, TypeOK
        <5> QED
          BY <3>7, <3>8, <5>2, <5>6, <5>7
      <4>2. CASE RevokeFinish(c) \/ ExpireFinish(c)
        <5>1. UNCHANGED terminals /\ Goto(c, "done")
          BY <4>2 DEF RevokeFinish, ExpireFinish
        <5>2. pc'[c] = "done"
          BY <1>1, <5>1 DEF Goto, TypeOK
        <5> QED
          BY <2>2, <3>7, <3>8, <5>1, <5>2
      <4> QED
        BY <1>7, <2>3, <4>1, <4>2 DEF EndStep, ExpireAtOnce
    <3>10. \A d \in Calls : pc'[d] # "terminal_capacity_invariant"
      BY <1>2, <3>8, <3>9
    <3> QED
      BY <3>6, <3>9, <3>10 DEF TerminalRoom
  <2> QED
    BY <1>2, <2>2, <2>3 DEF Durable
<1> QED
  BY <1>6, <1>7 DEF EndStep, ResultFinish, RevokeFinish, ExpireFinish, ExpireAtOnce

LEMMA RestartBooks ==
    ASSUME RelayAssumption, TypeOK', Restart
    PROVE  ReservationsCounted' /\ (Durable' => RoomHeld' /\ TerminalRoom')
<1>1. /\ \A n \in Needs : request'[n] = "none"
      /\ holding' = {} /\ reserved' = 0 /\ terminals' = <<>>
      /\ \A c \in Calls : pc'[c] \in {"idle", "done"}
  BY DEF Restart
<1>2. Admitting' = {}
  BY <1>1 DEF Admitting
<1>3. ReservationsCounted'
  BY <1>1, <1>2, FS_EmptySet DEF ReservationsCounted
<1>4. RoomHeld'
  BY <1>1 DEF RoomHeld, At
<1>5. TerminalRoom'
  BY <1>1 DEF TerminalRoom, RelayAssumption
<1> QED
  BY <1>3, <1>4, <1>5

LEMMA BooksInvInit == RelayAssumption /\ Init => BooksInv
<1> SUFFICES ASSUME RelayAssumption, Init PROVE BooksInv
  OBVIOUS
<1>1. /\ \A n \in Needs : request[n] = "none"
      /\ holding = {} /\ reserved = 0 /\ terminals = <<>>
      /\ \A c \in Calls : pc[c] = "idle"
  BY DEF Init
<1>2. Admitting = {}
  BY <1>1 DEF Admitting
<1>3. ReservationsCounted
  BY <1>1, <1>2, FS_EmptySet DEF ReservationsCounted
<1>4. RoomHeld
  BY <1>1 DEF RoomHeld, At
<1>5. TerminalRoom
  BY <1>1 DEF TerminalRoom, RelayAssumption
<1> QED
  BY <1>3, <1>4, <1>5 DEF BooksInv

LEMMA BooksInvNext ==
    ASSUME RelayAssumption, RelayInv, RelayInv', BooksInv, [Next]_vars
    PROVE  BooksInv'
<1> SUFFICES ASSUME ~Maintenance
             PROVE  ReservationsCounted' /\ (Durable' => RoomHeld' /\ TerminalRoom')
  BY DEF BooksInv
<1>1. /\ ReservationsCounted /\ (Durable => RoomHeld /\ TerminalRoom)
      /\ TypeOK /\ TypeOK' /\ StagesFit /\ (EndKnown \/ ~Durable)
  BY DEF BooksInv, RelayInv, LedgerDecides
<1> DEFINE Kept == ReservationsCounted' /\ (Durable' => RoomHeld' /\ TerminalRoom')
<1> SUFFICES Kept
  OBVIOUS
<1>2. ASSUME NEW c \in Calls, NEW n \in Needs,
             \/ NeedArrives(c, n) \/ PartialArrives(c, n) \/ StatusArrives(c, n)
             \/ \E type \in {"result", "revoke", "expire"} : EndArrives(c, n, type)
      PROVE  Kept
  BY <1>1, <1>2, EntersBooks
<1>3. ASSUME NEW c \in Calls, Succeed(c) \/ Throw(c) \/ \E o \in Operations : Recover(c, o)
      PROVE  Kept
  BY <1>1, <1>3, CallsBooks
<1>4. ASSUME NEW c \in Calls, NeedReserves(c) \/ NeedThrown(c)
      PROVE  Kept
  BY <1>1, <1>4, ReservesBooks, ThrownBooks
<1>5. ASSUME NEW c \in Calls, NEW waits \in BOOLEAN, NeedAdmitted(c, waits) \/ PartialFinish(c, waits)
      PROVE  Kept
  BY <1>1, <1>5, AdmittedBooks, PartialBooks
<1>6. ASSUME NEW c \in Calls,
             \/ \E listens \in BOOLEAN : ResultFinish(c, listens)
             \/ RevokeFinish(c) \/ ExpireFinish(c) \/ StatusFinish(c)
             \/ \E n \in Needs : ExpireAtOnce(c, n)
      PROVE  Kept
  <2>1. PICK n \in Needs, to \in Terminal : EndStep(c, n, to) /\ Ending(c, n, to)
    BY <1>1, <1>6, EndStepIs
  <2> QED
    BY <1>1, <2>1, EndBooks
<1>7. CASE \/ \E n \in Needs : \/ PeerAdmits(n) \/ PeerStreams(n) \/ WaiterGone(n)
                               \/ \E to \in Terminal : PeerEnds(n, to)
           \/ \E k \in 1..Len(terminals) : Drain(k)
           \/ UNCHANGED vars
  BY <1>1, <1>7, OutsideBooks
<1>8. CASE Restart
  BY <1>1, <1>8, RestartBooks
<1>9. ~Evict
  BY DEF Evict
<1> HIDE DEF Kept
<1>10. ASSUME NEW c \in Calls, NEW n \in Needs,
              \/ NeedArrives(c, n) \/ PartialArrives(c, n) \/ StatusArrives(c, n)
              \/ ExpireAtOnce(c, n)
              \/ \E type \in {"result", "revoke", "expire"} : EndArrives(c, n, type)
       PROVE  Kept
  BY <1>2, <1>6, <1>10
<1>11. ASSUME NEW c \in Calls,
              \/ Succeed(c) \/ Throw(c) \/ NeedReserves(c) \/ NeedThrown(c)
              \/ \E waits \in BOOLEAN : NeedAdmitted(c, waits)
              \/ \E o \in Operations : Recover(c, o)
              \/ \E listens \in BOOLEAN : ResultFinish(c, listens)
              \/ RevokeFinish(c) \/ ExpireFinish(c) \/ StatusFinish(c)
              \/ \E room \in BOOLEAN : PartialFinish(c, room)
       PROVE  Kept
  BY SMTT(60), <1>3, <1>4, <1>5, <1>6, <1>11
<1> QED
  BY <1>7, <1>8, <1>9, <1>10, <1>11, Zenon DEF Next

\* A relay keeps the ledger it was started with.
LEMMA ModeStands == ASSUME [Next]_vars PROVE UNCHANGED mode
BY ZenonT(60) DEF Next, vars, Succeed, Throw, NeedArrives, PartialArrives, StatusArrives, ExpireAtOnce,
       EndArrives, NeedReserves, NeedThrown, NeedAdmitted, Recover, ResultFinish, RevokeFinish,
       ExpireFinish, PartialFinish, StatusFinish, PeerAdmits, PeerStreams, PeerEnds, WaiterGone,
       Drain, Evict, Restart

\* What the inductive invariant says of the ends.
LEMMA RelayInvMeans ==
    ASSUME RelayInv
    PROVE  /\ DispatchedOnce
           /\ Durable => EndsAreCommitted /\ OneTerminal /\ PartialsInOrder
<1>1. ASSUME OneEndTold, NEW n \in Needs
      PROVE  counted[n] <= 1 /\ Cardinality(Ends(n)) <= 1
  <2>1. CASE Ends(n) = {}
    BY <1>1, <2>1, FS_EmptySet DEF OneEndTold
  <2>2. ASSUME NEW i \in Ends(n)
        PROVE  counted[n] <= 1 /\ Cardinality(Ends(n)) <= 1
    <3>1. Ends(n) = {i}
      BY <1>1, <2>2 DEF OneEndTold
    <3>2. Cardinality({i}) = 1
      BY FS_Singleton
    <3> QED
      BY <1>1, <3>1, <3>2 DEF OneEndTold
  <2> QED
    BY <2>1, <2>2
<1> QED
  BY <1>1 DEF RelayInv, LedgerDecides, OneTerminal

\* Whatever handlers, lost replies, peer relays, evictions, pruning and restarts
\* interleave, with any number of NEEDs and calls: no NEED is dispatched twice,
\* and with a ledger the requester is told the end the ledger holds, once, after
\* PARTIALs in order (server.js, the fast routes).
THEOREM NeedsOnce ==
    ASSUME RelayAssumption
    PROVE  Spec => [](/\ TypeOK /\ DispatchedOnce
                      /\ Durable => EndsAreCommitted /\ OneTerminal /\ PartialsInOrder)
<1>1. Init => RelayInv
  BY RelayInvInit
<1>2. RelayInv /\ [Next]_vars => RelayInv'
  BY RelayInvNext
<1>3. RelayInv => /\ TypeOK /\ DispatchedOnce
                  /\ Durable => EndsAreCommitted /\ OneTerminal /\ PartialsInOrder
  BY RelayInvMeans DEF RelayInv
<1> QED
  BY <1>1, <1>2, <1>3, PTL DEF Spec

\* At a relay that evicts no registered node, the reservations of the requester
\* and the in-flight count of the provider are what the requests hold, and with
\* a ledger a RESULT that was promised room finds it (reserveFastTerminal,
\* releaseFastTerminal, markRequestStatus).
THEOREM Books ==
    ASSUME RelayAssumption, ~Maintenance
    PROVE  Spec => [](TerminalRoom /\ ReservationsCounted /\ InFlightExact)
<1>1. Init => RelayInv /\ BooksInv
  BY RelayInvInit, BooksInvInit
<1>2. RelayInv /\ BooksInv /\ [Next]_vars => RelayInv' /\ BooksInv'
  BY RelayInvNext, BooksInvNext
<1>3. RelayInv /\ BooksInv => TerminalRoom /\ ReservationsCounted /\ InFlightExact
  BY DEF RelayInv, BooksInv, TerminalRoom
<1> QED
  BY <1>1, <1>2, <1>3, PTL DEF Spec
=============================================================================
