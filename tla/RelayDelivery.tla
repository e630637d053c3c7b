--------------------------- MODULE RelayDelivery ---------------------------
(***************************************************************************)
(* How a relay gets events to one node (network/relay/server.js): its      *)
(* WebSocket with backpressure and heartbeat, the long polls of            *)
(* /v1/events and /v1/fast/events, and the three queues behind them        *)
(* (events, fastEvents, fastTerminalEvents).                               *)
(*                                                                         *)
(* An event is the number of its place in the order the relay produced     *)
(* them; its kind says which function delivers it:                         *)
(*   legacy    queue: NEED and RESULT of the legacy path                   *)
(*   critical  queueCritical: the REVOKE of a legacy NEED                  *)
(*   need      queueFast without capacity: NEED and CHAIN_STAGE            *)
(*   partial   queueFast with capacity: PARTIAL and the REVOKE of a NEED   *)
(*   terminal  queueFastTerminal: RESULT                                   *)
(***************************************************************************)
EXTENDS Naturals, Sequences, FiniteSets, SequencesExt

CONSTANTS
    Sockets,       \* the WebSockets the node opens
    MaxEvents,     \* events of a behaviour
    MaxQueued,     \* maxQueuedEventsPerNode
    MaxTerminals,  \* maxFastTerminalReservationsPerRequester
    MaxBuffered    \* maxSocketBufferedBytes, in events

DeliveryAssumption ==
    /\ IsFiniteSet(Sockets) /\ "none" \notin Sockets
    /\ MaxEvents \in Nat /\ MaxQueued \in Nat /\ MaxTerminals \in Nat /\ MaxBuffered \in Nat

Kinds == {"legacy", "critical", "need", "partial", "terminal"}
Queues == {"legacy", "fast", "terminal"}
NoSocket == "none"

VARIABLES
    kind,        \* the kinds of the events so far
    queue,       \* the three queues
    socket,      \* of each WebSocket: its state, the unsent buffer, isAlive
    registered,  \* providerSockets of the node
    waiting,     \* the pending long polls: legacyWaiters and fastWaiters
    session,     \* the session token of the node is valid
    ended        \* whether an event was received or went another way

deliveryVars == <<kind, queue, socket, registered, waiting, session, ended>>

Events == 1..Len(kind)

SocketRecords ==
    [state : {"new", "open", "closing", "closed"}, buffer : Seq(Events), alive : BOOLEAN]
Fates == {"no", "received", "refused", "dropped", "lost", "evicted"}

DeliveryTypeOK ==
    /\ kind \in Seq(Kinds) /\ Len(kind) <= MaxEvents
    /\ queue \in [Queues -> Seq(Events)]
    /\ socket \in [Sockets -> SocketRecords]
    /\ registered \in Sockets \cup {NoSocket}
    /\ waiting \subseteq {"legacy", "fast"} /\ session \in BOOLEAN
    /\ ended \in [Events -> Fates]

DeliveryInit ==
    /\ kind = <<>> /\ queue = [q \in Queues |-> <<>>]
    /\ socket = [s \in Sockets |-> [state |-> "new", buffer |-> <<>>, alive |-> TRUE]]
    /\ registered = NoSocket /\ waiting = {} /\ session = TRUE
    /\ ended = <<>>

---------------------------------------------------------------------------

\* connectedSocket: what is registered may already be closing.
Connected == registered # NoSocket /\ socket[registered].state = "open"
Full == Len(socket[registered].buffer) >= MaxBuffered

\* sendSocketEvent: the outcome and, when it is sent, the buffer.
SocketTakes(capacity) == Connected /\ ~(capacity /\ Full)
SocketFull(capacity) == Connected /\ capacity /\ Full
SendSocketEvent(e) == socket' = [socket EXCEPT ![registered].buffer = Append(@, e)]

Produce(k, fate) == kind' = Append(kind, k) /\ ended' = Append(ended, fate)
New == Len(kind) + 1
End(es, fate) == ended' = [e \in Events |-> IF e \in ToSet(es) THEN fate ELSE ended[e]]

\* The answer to a long poll reaches the node, or its connection is gone.
AnswerWaiter(w, k) ==
    /\ waiting' = waiting \ {w}
    /\ \E fate \in {"received", "lost"} : Produce(k, fate)

\* boundedQueue: the oldest event makes room.
BoundedQueue(q, k) ==
    LET long == Append(queue[q], New)
        dropped == IF Len(long) > MaxQueued THEN {long[1]} ELSE {}
    IN /\ queue' = [queue EXCEPT ![q] = IF dropped = {} THEN long ELSE Tail(long)]
       /\ kind' = Append(kind, k)
       /\ ended' = [e \in 1..New |-> IF e \in dropped THEN "dropped"
                                     ELSE IF e = New THEN "no" ELSE ended[e]]

\* queue: a full socket leaves the event to a poll.
QueueLegacy ==
    \/ /\ SocketTakes(TRUE)
       /\ SendSocketEvent(New) /\ Produce("legacy", "no")
       /\ UNCHANGED <<queue, registered, waiting, session>>
    \/ /\ ~SocketTakes(TRUE) /\ "legacy" \in waiting
       /\ AnswerWaiter("legacy", "legacy")
       /\ UNCHANGED <<queue, socket, registered, session>>
    \/ /\ ~SocketTakes(TRUE) /\ "legacy" \notin waiting
       /\ BoundedQueue("legacy", "legacy")
       /\ UNCHANGED <<socket, registered, waiting, session>>

\* queueCritical: refused rather than queued behind a full socket or queue.
QueueCritical ==
    \/ /\ SocketTakes(TRUE)
       /\ SendSocketEvent(New) /\ Produce("critical", "no")
       /\ UNCHANGED <<queue, registered, waiting, session>>
    \/ /\ ~Connected /\ "legacy" \in waiting
       /\ AnswerWaiter("legacy", "critical")
       /\ UNCHANGED <<queue, socket, registered, session>>
    \/ /\ ~Connected /\ "legacy" \notin waiting /\ Len(queue["legacy"]) < MaxQueued
       /\ BoundedQueue("legacy", "critical")
       /\ UNCHANGED <<socket, registered, waiting, session>>
    \/ /\ \/ SocketFull(TRUE)
          \/ ~Connected /\ "legacy" \notin waiting /\ Len(queue["legacy"]) >= MaxQueued
       /\ Produce("critical", "refused")
       /\ UNCHANGED <<queue, socket, registered, waiting, session>>

\* queueFast.
QueueFast(k) ==
    LET capacity == k = "partial"
    IN \/ /\ SocketTakes(capacity)
          /\ SendSocketEvent(New) /\ Produce(k, "no")
          /\ UNCHANGED <<queue, registered, waiting, session>>
       \/ /\ ~Connected /\ "fast" \in waiting
          /\ AnswerWaiter("fast", k)
          /\ UNCHANGED <<queue, socket, registered, session>>
       \/ /\ ~Connected /\ "fast" \notin waiting
          /\ capacity => Len(queue["fast"]) < MaxQueued
          /\ BoundedQueue("fast", k)
          /\ UNCHANGED <<socket, registered, waiting, session>>
       \/ /\ \/ SocketFull(capacity)
             \/ /\ ~Connected /\ "fast" \notin waiting
                /\ capacity /\ Len(queue["fast"]) >= MaxQueued
          /\ Produce(k, "refused")
          /\ UNCHANGED <<queue, socket, registered, waiting, session>>

\* queueFastTerminal: a full socket is closed, so that the terminal event and
\* what follows go where they will be fetched in order.
QueueFastTerminalOpen ==
    \/ /\ SocketTakes(TRUE)
       /\ SendSocketEvent(New) /\ Produce("terminal", "no")
       /\ UNCHANGED <<queue, registered, waiting, session>>
    \/ /\ ~SocketTakes(TRUE) /\ "fast" \notin waiting
       /\ queue' = [queue EXCEPT !["terminal"] = Append(@, New)] /\ Produce("terminal", "no")
       /\ UNCHANGED <<socket, registered, waiting, session>>

QueueFastTerminal ==
    \/ /\ SocketTakes(TRUE)
       /\ SendSocketEvent(New) /\ Produce("terminal", "no")
       /\ UNCHANGED <<queue, registered, waiting, session>>
    \/ /\ ~SocketTakes(TRUE)
       /\ registered' = IF Connected THEN NoSocket ELSE registered
       /\ socket' = IF Connected THEN [socket EXCEPT ![registered].state = "closing"] ELSE socket
       /\ \/ /\ "fast" \in waiting
             /\ AnswerWaiter("fast", "terminal")
             /\ UNCHANGED queue
          \/ /\ "fast" \notin waiting
             /\ IF Len(queue["terminal"]) >= MaxTerminals
                THEN Produce("terminal", "refused") /\ UNCHANGED queue
                ELSE /\ queue' = [queue EXCEPT !["terminal"] = Append(@, New)]
                     /\ Produce("terminal", "no")
             /\ UNCHANGED waiting
       /\ UNCHANGED session

---------------------------------------------------------------------------

Taken(w) == IF w = "fast" THEN queue["fast"] \o queue["terminal"] ELSE queue["legacy"]

\* GET /v1/events and /v1/fast/events: what is queued is answered at once, or else
\* the poll waits and an earlier one is answered with nothing.
Poll(w) ==
    /\ session
    /\ IF Taken(w) = <<>>
       THEN waiting' = waiting \cup {w} /\ UNCHANGED <<queue, ended>>
       ELSE /\ queue' = [q \in Queues |-> IF w = "fast" <=> q # "legacy" THEN <<>> ELSE queue[q]]
            /\ \E fate \in {"received", "lost"} : End(Taken(w), fate)
            /\ UNCHANGED waiting
    /\ UNCHANGED <<kind, socket, registered, session>>

\* The timer of a poll, or its request being closed.
PollEnds(w) ==
    /\ w \in waiting
    /\ waiting' = waiting \ {w}
    /\ UNCHANGED <<kind, queue, socket, registered, session, ended>>

\* The connection handler: an earlier socket is replaced and the queues are sent in
\* order as far as the new one takes them; if it does not take all it is closed.
Connect(s) ==
    LET all == queue["legacy"] \o queue["fast"] \o queue["terminal"]
        sent == IF Len(all) < MaxBuffered THEN Len(all) ELSE MaxBuffered
        left(q, skipped) == SubSeq(queue[q], (IF sent > skipped THEN sent - skipped ELSE 0) + 1,
                                   Len(queue[q]))
        saturated == sent < Len(all)
        replaced == [p \in Sockets |-> IF p = registered /\ socket[p].state = "open"
                                       THEN [socket[p] EXCEPT !.state = "closing"]
                                       ELSE socket[p]]
    IN /\ session /\ socket[s].state = "new"
       /\ queue' = [legacy |-> left("legacy", 0), fast |-> left("fast", Len(queue["legacy"])),
                    terminal |-> left("terminal", Len(queue["legacy"]) + Len(queue["fast"]))]
       /\ socket' = [replaced EXCEPT ![s] =
                       [state |-> IF saturated THEN "closing" ELSE "open",
                        buffer |-> SubSeq(all, 1, sent), alive |-> TRUE]]
       /\ registered' = IF saturated THEN NoSocket ELSE s
       /\ UNCHANGED <<kind, waiting, session, ended>>

\* The network takes an event from the buffer to the node.
Receive(s) ==
    /\ socket[s].state \in {"open", "closing"} /\ socket[s].buffer # <<>>
    /\ End(<<Head(socket[s].buffer)>>, "received")
    /\ socket' = [socket EXCEPT ![s].buffer = Tail(@)]
    /\ UNCHANGED <<kind, queue, registered, waiting, session>>

\* A socket is gone, and its buffer with it.
Gone(s) == [socket EXCEPT ![s] = [@ EXCEPT !.state = "closed", !.buffer = <<>>]]
LoseBuffer(s) == End(socket[s].buffer, "lost")

\* The close event, after the closing handshake or a failure of the connection.
SocketClosed(s) ==
    /\ socket[s].state = "open" \/ (socket[s].state = "closing" /\ socket[s].buffer = <<>>)
    /\ socket' = Gone(s) /\ LoseBuffer(s)
    /\ registered' = IF registered = s THEN NoSocket ELSE registered
    /\ UNCHANGED <<kind, queue, waiting, session>>

Pong(s) ==
    /\ socket[s].state = "open" /\ ~socket[s].alive
    /\ socket' = [socket EXCEPT ![s].alive = TRUE]
    /\ UNCHANGED <<kind, queue, registered, waiting, session, ended>>

\* A message of a node whose session expired closes its socket, which stays
\* registered until the close event.
MessageWithoutSession(s) ==
    /\ socket[s].state = "open" /\ ~session
    /\ socket' = [socket EXCEPT ![s].state = "closing"]
    /\ UNCHANGED <<kind, queue, registered, waiting, session, ended>>

\* The heartbeat: closing or expired sockets are forgotten, silent ones ended.
Heartbeat ==
    /\ registered # NoSocket
    /\ LET s == registered
       IN \/ /\ socket[s].state # "open" \/ ~session
             /\ registered' = NoSocket
             /\ socket' = [socket EXCEPT ![s].state = IF @ = "open" THEN "closing" ELSE @]
             /\ UNCHANGED ended
          \/ /\ socket[s].state = "open" /\ session /\ ~socket[s].alive
             /\ registered' = NoSocket
             /\ socket' = Gone(s) /\ LoseBuffer(s)
          \/ /\ socket[s].state = "open" /\ session /\ socket[s].alive
             /\ socket' = [socket EXCEPT ![s].alive = FALSE]
             /\ UNCHANGED <<registered, ended>>
    /\ UNCHANGED <<kind, queue, waiting, session>>

SessionExpires ==
    /\ session /\ session' = FALSE
    /\ UNCHANGED <<kind, queue, socket, registered, waiting, ended>>

\* POST /v1/register: a new session, and the socket of the old one is closed.
Register ==
    /\ session' = TRUE
    /\ registered' = NoSocket
    /\ socket' = [s \in Sockets |-> IF s = registered /\ socket[s].state = "open"
                                    THEN [socket[s] EXCEPT !.state = "closing"] ELSE socket[s]]
    /\ UNCHANGED <<kind, queue, waiting, ended>>

\* commitStaleNodeEviction: a silent node without a socket loses its session and
\* what is queued for it.
Evict ==
    /\ session /\ ~Connected
    /\ session' = FALSE
    /\ queue' = [q \in Queues |-> <<>>]
    /\ End(queue["legacy"] \o queue["fast"] \o queue["terminal"], "evicted")
    /\ UNCHANGED <<kind, socket, registered, waiting>>

DeliveryNext ==
    \/ /\ Len(kind) < MaxEvents
       /\ \/ QueueLegacy \/ QueueCritical \/ QueueFastTerminal
          \/ \E k \in {"need", "partial"} : QueueFast(k)
    \/ \E w \in {"legacy", "fast"} : Poll(w) \/ PollEnds(w)
    \/ \E s \in Sockets :
          Connect(s) \/ Receive(s) \/ SocketClosed(s) \/ Pong(s) \/ MessageWithoutSession(s)
    \/ Heartbeat \/ SessionExpires \/ Register \/ Evict

DeliverySpec == DeliveryInit /\ [][DeliveryNext]_deliveryVars

---------------------------------------------------------------------------

(* No fast or terminal event waits in a queue while the node has an open   *)
(* socket or a long poll that would take it, whatever backpressure and     *)
(* heartbeat did in between (queueFast, queueFastTerminal, the connection  *)
(* handler).  Legacy events have this only for long polls: queue leaves    *)
(* them behind a full socket that stays open.                              *)
NothingStranded ==
    /\ Connected \/ "fast" \in waiting => queue["fast"] = <<>> /\ queue["terminal"] = <<>>
    /\ "legacy" \in waiting => queue["legacy"] = <<>>

(* An event is in one place: queued, or under way on one socket, or        *)
(* received, or ended for a reason.  Other events never push a terminal    *)
(* event out, and the queues keep their limits.                            *)
OnePlace ==
    LET places(e) == Cardinality({q \in Queues : e \in ToSet(queue[q])})
                     + Cardinality({s \in Sockets : e \in ToSet(socket[s].buffer)})
                     + (IF ended[e] = "no" THEN 0 ELSE 1)
    IN /\ \A e \in Events : places(e) = 1 /\ (kind[e] = "terminal" => ended[e] # "dropped")
       /\ Len(queue["legacy"]) <= MaxQueued /\ Len(queue["fast"]) <= MaxQueued
       /\ Len(queue["terminal"]) <= MaxTerminals

---------------------------------------------------------------------------

Queued == [q \in Queues |-> ToSet(queue[q])]
Buffered == [s \in Sockets |-> ToSet(socket[s].buffer)]

\* OnePlace of one event.
OneAt(e) ==
    /\ \A q, r \in Queues : e \in Queued[q] /\ e \in Queued[r] => q = r
    /\ \A s, t \in Sockets : e \in Buffered[s] /\ e \in Buffered[t] => s = t
    /\ \A q \in Queues, s \in Sockets : ~(e \in Queued[q] /\ e \in Buffered[s])
    /\ ended[e] = "no" <=> \/ \E q \in Queues : e \in Queued[q]
                           \/ \E s \in Sockets : e \in Buffered[s]

\* NothingStranded and OnePlace, and that no queue and no buffer holds an event twice:
\* taking out its first entry takes the event out.
DeliveryInv ==
    /\ DeliveryTypeOK /\ NothingStranded
    /\ \A q \in Queues : IsInjective(queue[q])
    /\ \A s \in Sockets : /\ IsInjective(socket[s].buffer)
                          /\ socket[s].state = "new" => socket[s].buffer = <<>>
    /\ \A e \in Events : OneAt(e) /\ (ended[e] = "dropped" => kind[e] # "terminal")
    /\ \A q \in {"legacy", "fast"} : /\ \A e \in Queued[q] : kind[e] # "terminal"
                                     /\ Len(queue[q]) <= MaxQueued
    /\ Len(queue["terminal"]) <= MaxTerminals

=============================================================================
