--------------------------- MODULE QuicTransport ---------------------------
(***************************************************************************)
(* network/transport/quic.js with sessions/authenticated-session.js,       *)
(* core/protocol/negotiation.js and admission/need-replay.js: a client and *)
(* a server agree on a session per connection, and the server admits the   *)
(* requests of its sessions.                                               *)
(*                                                                         *)
(* Keys, signatures and digests are ideal: a hello is known by its nonce,  *)
(* here the number of its connection, and a session id is a pair of        *)
(* nonces.  A clock outside the allowed skew is a refusal at any time.     *)
(***************************************************************************)
EXTENDS Naturals, Sequences, FiniteSets, FiniteSetsExt, SequencesExt

CONSTANTS
    Conns,             \* bound on the connections: a set of numbers
    Requests,          \* requests that clients send
    Needs,             \* ids of NEED envelopes
    Protocols,         \* protocol generations peers may advertise
    Semantics,         \* semantics peers may advertise
    ServerOffer,       \* what the server supports and requires
    MaxInFlight,       \* of each admission queue
    MaxQueued,
    MaxEntries,        \* of SessionReplayCache
    MaxSeenNeedIds,
    DurableNeeds,      \* whether a lifecycle ledger is configured
    MaxServerStarts

Queues == {"inbound", "critical", "control"}
Offers == [protocols : SUBSET Protocols \ {{}}, semantics : SUBSET Semantics,
           required : SUBSET Semantics]
NoSession == [id |-> <<>>, agreed |-> <<>>]
Idle == [pc |-> "new", queue |-> "control", lane |-> "control", conn |-> Min(Conns),
         id |-> <<>>, need |-> CHOOSE n \in Needs : TRUE]

VARIABLES
    client,   \* per connection: the phase, offer and session of its client
    server,   \* per connection: serverSessions
    replay,   \* SessionReplayCache.entries, oldest first
    request,  \* per request: kind, need, connection and progress
    waiting,  \* per admission queue: the requests that wait
    seen,     \* NEED ids reserved: in memory, or in the ledger
    handled,  \* per NEED: handler runs, in this process or over the ledger's life
    starts    \* server processes so far, the nonce of their accepts

quicVars == <<client, server, replay, request, waiting, seen, handled, starts>>

QuicTypeOK ==
    /\ \A c \in Conns : client[c].phase \in {"new", "hello", "open", "closed", "leaked"}
    /\ DOMAIN server = Conns
    /\ replay \in Seq(Conns) /\ Len(replay) <= MaxEntries
    /\ \A r \in Requests : request[r].pc \in
         {"new", "sent", "queued", "woken", "admitted", "checked", "handling", "answered"}
    /\ waiting \in [Queues -> Seq(Requests)]
    /\ seen \subseteq Needs
    /\ handled \in [Needs -> Nat]
    /\ starts \in 1..MaxServerStarts

QuicInit ==
    /\ client = [c \in Conns |-> [phase |-> "new", offer |-> ServerOffer, session |-> NoSession]]
    /\ server = [c \in Conns |-> NoSession]
    /\ replay = <<>>
    /\ request = [r \in Requests |-> Idle]
    /\ waiting = [q \in Queues |-> <<>>]
    /\ seen = {}
    /\ handled = [n \in Needs |-> 0]
    /\ starts = 1

---------------------------------------------------------------------------
(* negotiateProtocol and the session handshake.                            *)

Refused == <<>>

\* The highest common generation and the common semantics, when they include
\* every required one.
Negotiate(local, remote, required) ==
    LET common == local.protocols \cap remote.protocols
        semantics == local.semantics \cap remote.semantics
    IN IF common = {} \/ ~(required \subseteq semantics) THEN Refused
       ELSE <<Max(common), semantics>>

\* verifySessionHello: the responder also insists on its own requirements.
Decide(offer) ==
    Negotiate(ServerOffer, offer, offer.required \cup ServerOffer.required)

\* verifySessionAccept: the initiator negotiates again from the responder's
\* signed sets and refuses any other selection.
Confirms(offer, agreed) == agreed = Negotiate(offer, ServerOffer, offer.required)

\* connect, up to its wait for the answer to its hello.
Hello(c) ==
    /\ client[c].phase = "new" /\ \A b \in Conns : b < c => client[b].phase # "new"
    /\ \E o \in Offers : client' = [client EXCEPT ![c].phase = "hello", ![c].offer = o]
    /\ UNCHANGED <<server, replay, request, waiting, seen, handled, starts>>

\* The session-hello of a stream: a hello out of skew, seen before or without
\* agreement is refused; else it is remembered and answered with a session.
\* An answer that does not come leaves the client without a session.
HelloAnswered(c) ==
    LET agreed == Decide(client[c].offer)
        session == [id |-> <<c, starts>>, agreed |-> agreed]
        cache == Append(replay, c)
    IN /\ client[c].phase = "hello"
       /\ \/ /\ client' = [client EXCEPT ![c].phase = "closed", ![c].offer = ServerOffer]
             /\ UNCHANGED <<server, replay>>
          \/ /\ agreed # Refused /\ ~Contains(replay, c)
             /\ replay' = IF Len(cache) > MaxEntries THEN Tail(cache) ELSE cache
             /\ server' = [server EXCEPT ![c] = session]
             /\ \/ client' = [client EXCEPT ![c].phase = "leaked"]
                \/ client' = IF Confirms(client[c].offer, agreed)
                             THEN [client EXCEPT ![c].phase = "open", ![c].session = session]
                             ELSE [client EXCEPT ![c].phase = "closed", ![c].offer = ServerOffer]
       /\ UNCHANGED <<request, waiting, seen, handled, starts>>

\* disconnect, and close for every client.
Disconnect(c) ==
    /\ client[c].phase \in {"open", "leaked"}
    /\ client' = [client EXCEPT ![c].phase = "closed", ![c].session = NoSession,
                                ![c].offer = ServerOffer]
    /\ UNCHANGED <<server, replay, request, waiting, seen, handled, starts>>

---------------------------------------------------------------------------
(* Admission: three queues of class BoundedAdmissionQueue.                 *)

\* The requests of queue q that hold one of its slots.
Running(q) ==
    {r \in Requests : request[r].queue = q /\ request[r].pc \in {"admitted", "checked", "handling"}}

\* requestControl and sendEnvelope: a client with a session sends.
Send(r) ==
    /\ request[r].pc = "new"
    /\ \E c \in Conns, sent \in
            [queue : {"inbound"}, lane : {"control"}, need : Needs] \cup
            [queue : {"critical"}, lane : {"critical"}, need : {Idle.need}] \cup
            [queue : {"control"}, lane : {"control", "background"}, need : {Idle.need}] :
         /\ client[c].phase = "open"
         /\ request' = [request EXCEPT
              ![r] = [pc |-> "sent", queue |-> sent.queue, lane |-> sent.lane, conn |-> c,
                      id |-> client[c].session.id, need |-> sent.need]]
    /\ UNCHANGED <<client, server, replay, waiting, seen, handled, starts>>

\* What is left of a request that was answered.
Answered(reqs, r) == [reqs EXCEPT ![r] = [Idle EXCEPT !.pc = "answered"]]

\* Mutant: background work waits like any other.
RunQueueingAll(r) ==
    LET q == request[r].queue
    IN IF Cardinality(Running(q)) < MaxInFlight THEN "admitted"
       ELSE IF Len(waiting[q]) >= MaxQueued THEN "answered" ELSE "queued"

\* admission.run: a free slot, else a place in the queue, else a refusal.
\* Background work is shed rather than queued, and while the loop lags.
Run(r) ==
    LET q == request[r].queue
        full == Cardinality(Running(q)) >= MaxInFlight
    IN IF ~full THEN "admitted"
       ELSE IF request[r].lane = "background" \/ Len(waiting[q]) >= MaxQueued THEN "answered"
       ELSE "queued"

\* #handleServerStream: only the session of this very connection is served; a
\* request may also be refused for its form, its sender or the load.
Receive(r) ==
    LET q == request[r].queue
        mine == server[request[r].conn].id = request[r].id
    IN /\ request[r].pc = "sent"
       /\ \E pc \in {"answered"} \cup (IF mine THEN {Run(r)} ELSE {}) :
            /\ request' = IF pc = "answered" THEN Answered(request, r)
                          ELSE [request EXCEPT ![r].pc = pc]
            /\ waiting' = IF pc = "queued" THEN [waiting EXCEPT ![q] = Append(@, r)] ELSE waiting
       /\ UNCHANGED <<client, server, replay, seen, handled, starts>>

\* A request settles: its slot is free, and the promise of the oldest that waits
\* is resolved.
Settle(r, reqs) ==
    LET q == request[r].queue
        done == Answered(reqs, r)
    IN IF waiting[q] = <<>> THEN request' = done /\ UNCHANGED waiting
       ELSE /\ request' = [done EXCEPT ![Head(waiting[q])].pc = "woken"]
            /\ waiting' = [waiting EXCEPT ![q] = Tail(@)]

\* It takes a slot a microtask later, whether or not a new call took it before.
Resume(r) ==
    /\ request[r].pc = "woken"
    /\ request' = [request EXCEPT ![r].pc = "admitted"]
    /\ UNCHANGED <<client, server, replay, waiting, seen, handled, starts>>

\* A control request reaches its handler, an envelope its replay guard.  In
\* memory the guard looks and reserves in one step; a ledger is asked first.
AdmitNeed(r) ==
    LET n == request[r].need
    IN /\ request[r].pc = "admitted" /\ request[r].queue = "inbound"
       /\ IF n \in seen \/ (~DurableNeeds /\ Cardinality(seen) >= MaxSeenNeedIds)
          THEN Settle(r, request) /\ UNCHANGED <<seen, handled>>
          ELSE IF DurableNeeds
          THEN request' = [request EXCEPT ![r].pc = "checked"] /\ UNCHANGED <<waiting, seen, handled>>
          ELSE /\ request' = [request EXCEPT ![r].pc = "handling"]
               /\ seen' = seen \cup {n}
               /\ handled' = [handled EXCEPT ![n] = @ + 1]
               /\ UNCHANGED waiting
       /\ UNCHANGED <<client, server, replay, starts>>

\* reserveNeed: the ledger's create arbitrates between all that looked; a
\* reservation whose answer is lost is never handled.
ReserveNeed(r) ==
    LET n == request[r].need
    IN /\ request[r].pc = "checked"
       /\ seen' = seen \cup {n}
       /\ \/ /\ n \notin seen
             /\ handled' = [handled EXCEPT ![n] = @ + 1]
             /\ request' = [request EXCEPT ![r].pc = "handling"] /\ UNCHANGED waiting
          \/ Settle(r, request) /\ UNCHANGED handled
       /\ UNCHANGED <<client, server, replay, starts>>

\* A handler answers, or fails: a failed NEED stays reserved.
Answer(r) ==
    /\ \/ request[r].pc = "handling"
       \/ request[r].pc = "admitted" /\ request[r].queue # "inbound"
    /\ Settle(r, request)
    /\ UNCHANGED <<client, server, replay, seen, handled, starts>>

\* The server process restarts: sessions, caches and queues are gone; only a
\* ledger remembers the NEEDs.
ServerRestarts ==
    /\ starts < MaxServerStarts
    /\ starts' = starts + 1
    /\ server' = [c \in Conns |-> NoSession]
    /\ replay' = <<>>
    /\ waiting' = [q \in Queues |-> <<>>]
    /\ request' = [r \in Requests |-> IF request[r].pc \in {"new", "sent"} THEN request[r]
                                      ELSE Answered(request, r)[r]]
    /\ seen' = IF DurableNeeds THEN seen ELSE {}
    /\ handled' = IF DurableNeeds THEN handled ELSE [n \in Needs |-> 0]
    /\ UNCHANGED client

QuicNext ==
    \/ \E c \in Conns : Hello(c) \/ HelloAnswered(c) \/ Disconnect(c)
    \/ \E r \in Requests :
         Send(r) \/ Receive(r) \/ Resume(r) \/ AdmitNeed(r) \/ ReserveNeed(r) \/ Answer(r)
    \/ ServerRestarts

QuicSpec == QuicInit /\ [][QuicNext]_quicVars

---------------------------------------------------------------------------

(* Both ends of a session hold the same id and the same selection, which   *)
(* meets what each of them requires, unless the server has restarted since *)
(* (verifySessionHello, verifySessionAccept, sessionId).                   *)
SessionsAgree ==
    \A c \in Conns : client[c].phase = "open" =>
        LET mine == client[c].session
        IN /\ server[c] \in {mine, NoSession}
           /\ mine.agreed[1] \in client[c].offer.protocols \cap ServerOffer.protocols
           /\ client[c].offer.required \cup ServerOffer.required \subseteq mine.agreed[2]

(* A NEED reaches the handler once: in one process from memory, over every *)
(* restart with a ledger, however its streams interleave (admit).          *)
NeedHandledOnce == \A n \in Needs : handled[n] <= 1

(* Background work holds slots at most, it never waits for one before      *)
(* control work, and no slot idles while a request waits: as many run or   *)
(* have been woken as there are slots.  More may, when a call enters       *)
(* before a woken one resumes: MCBoundedAdmissionQueueBound shows it       *)
(* (#handleServerStream, BoundedAdmissionQueue.run).                       *)
BackgroundNeverWaits ==
    \A q \in Queues :
        LET woken == {r \in Requests : request[r].queue = q /\ request[r].pc = "woken"}
        IN /\ \A r \in Requests : request[r].pc \in {"queued", "woken"} =>
                                      request[r].lane # "background"
           /\ waiting[q] # <<>> => Cardinality(Running(q) \cup woken) >= MaxInFlight

=============================================================================
