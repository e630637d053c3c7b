---------------------------- MODULE P2pTransport ----------------------------
(***************************************************************************)
(* network/transport/p2p.js: DirectFirstP2P, the routes to one peer.  A    *)
(* send resolves the peer's record, leases a QUIC client, hands it the     *)
(* envelope, and falls back to the relay only while nothing was handed     *)
(* over.  The pool keeps one client per peer; its other peers are          *)
(* independent copies of this state.                                       *)
(*                                                                         *)
(* A binding is the generation of the peer record it was made from.  A     *)
(* connection stands for a pending connect and for the client it yields.   *)
(* Deadlines and idle times pass whenever they are running.                *)
(***************************************************************************)
EXTENDS Naturals, FiniteSets

CONSTANTS
    Sends,              \* the calls of send() that the queue has admitted
    Connections,        \* bound on the connects: a set of numbers
    MaxGeneration,      \* bound on the generations of the peer record
    SupersededRetries,  \* supersededRetries
    MaxFaults           \* bound on retire, forget, sweeps and lost connections

None == 0

ASSUME P2pAssumption ==
    /\ IsFiniteSet(Sends) /\ Connections \subseteq Nat \ {None}
    /\ MaxGeneration \in Nat \ {0} /\ SupersededRetries \in Nat /\ MaxFaults \in Nat

VARIABLES
    send,        \* per send: where it is, its record, its client, its retries
    record,      \* discovery.get(peer): its generation, and whether it is live
    recovery,    \* discoveryRecoveries: the send that leads the recovery, or None
    pool,        \* connections: the client in use, or None
    connecting,  \* connectingByNodeId: the pending connect, or None
    conn,        \* the connections, their leases and retirement
    entered,     \* per send: the transports its envelope has entered
    faults

p2pVars == <<send, record, recovery, pool, connecting, conn, entered, faults>>

SendStates ==
    [pc : {"new", "discovering", "resolved", "discarding", "connecting", "dispatching",
           "rediscovering", "fallback", "relaying", "sent", "failed"},
     gen : 0..MaxGeneration, conn : Connections \cup {None}, leader : Sends \cup {None},
     dispatched : BOOLEAN, tries : 0..SupersededRetries, timeouts : 0..1]

ConnectionStates ==
    [status : {"unused", "pending", "discarded", "failed", "open", "closed", "torn"},
     code : {"none", "timeout", "refused", "superseded"},
     next : Connections \cup {None},
     gen : 0..MaxGeneration, leases : Nat, retired : BOOLEAN]

P2pTypeOK ==
    /\ send \in [Sends -> SendStates]
    /\ record \in [gen : 0..MaxGeneration, live : BOOLEAN]
    /\ recovery \in Sends \cup {None}
    /\ {pool, connecting} \subseteq Connections \cup {None}
    /\ conn \in [Connections -> ConnectionStates]
    /\ entered \in [Sends -> SUBSET {"direct", "relay", "direct-again"}]
    /\ faults \in 0..MaxFaults

P2pInit ==
    /\ send = [s \in Sends |->
                [pc |-> "new", gen |-> 0, conn |-> None, leader |-> None,
                 dispatched |-> FALSE, tries |-> 0, timeouts |-> 0]]
    /\ record \in [gen : {1}, live : BOOLEAN]
    /\ recovery = None /\ pool = None /\ connecting = None
    /\ conn = [w \in Connections |->
                [status |-> "unused", code |-> "none", next |-> None, gen |-> 0,
                 leases |-> 0, retired |-> FALSE]]
    /\ entered = [s \in Sends |-> {}]
    /\ faults = 0

---------------------------------------------------------------------------
(* Clients: leases, retirement, disposal.                                  *)

\* #retireClient: the close waits for the dispatches in flight, unless forced.
RetireClient(cs, w, force) ==
    IF w = None THEN cs
    ELSE IF cs[w].leases > 0 /\ ~force THEN [cs EXCEPT ![w].retired = TRUE]
    ELSE [cs EXCEPT ![w].retired = FALSE, ![w].status = IF force THEN "torn" ELSE "closed"]

\* The function #leaseClient returns: the last lease closes a retired client.
Release(cs, w) ==
    LET left == cs[w].leases - 1
        close == left = 0 /\ cs[w].retired
    IN [cs EXCEPT ![w].leases = left, ![w].retired = @ /\ ~close,
                  ![w].status = IF close /\ @ = "open" THEN "closed" ELSE @]

\* A pending connect nobody is to use: discarded = true.
Abandon(cs, w) == IF w = None THEN cs ELSE [cs EXCEPT ![w].status = "discarded"]

\* #discardConnection: the pending connect and the client both leave.
DiscardConnection(cs, force) ==
    /\ conn' = RetireClient(Abandon(cs, connecting), pool, force)
    /\ connecting' = None
    /\ pool' = None

\* #discardBinding: they leave when they are of generation g.
DiscardBinding(cs, g) ==
    LET c == IF connecting # None /\ cs[connecting].gen = g THEN connecting ELSE None
        p == IF pool # None /\ cs[pool].gen = g THEN pool ELSE None
    IN /\ conn' = RetireClient(Abandon(cs, c), p, FALSE)
       /\ connecting' = IF c # None THEN None ELSE connecting
       /\ pool' = IF p # None THEN None ELSE pool

---------------------------------------------------------------------------
(* Discovery of the record.                                                *)

\* #discover, up to its await: the local record, else join or lead a recovery.
Discovering(s, at) ==
    IF record.live
    THEN send' = [send EXCEPT ![s] = [at EXCEPT !.pc = "resolved", !.gen = record.gen]]
         /\ UNCHANGED recovery
    ELSE LET l == IF recovery = None THEN s ELSE recovery
         IN /\ send' = [send EXCEPT ![s] = [at EXCEPT !.pc = "discovering", !.leader = l]]
            /\ recovery' = l

Discover(s) ==
    /\ send[s].pc = "new"
    /\ Discovering(s, send[s])
    /\ UNCHANGED <<record, pool, connecting, conn, entered, faults>>

\* What the wait for a record leads to: the loop of send, or its end.
Found(at, r) ==
    [at EXCEPT !.leader = None, !.gen = IF r.live THEN r.gen ELSE 0,
               !.pc = IF r.live THEN "resolved" ELSE "fallback"]

\* The record that a refreshed hint, findNode or a walk leaves in discovery.
Refreshed(r) == {r} \cup [gen : r.gen..MaxGeneration, live : {TRUE}]

\* The recovery that l leads ends, by #refreshExactStaleHint or findNode, for
\* its leader and for everyone who joined it.
Recovered(l) ==
    LET waiting == {s \in Sends : send[s].pc = "discovering" /\ send[s].leader = l}
    IN /\ waiting # {}
       /\ \E r \in Refreshed(record) :
            /\ record' = r
            /\ send' = [s \in Sends |-> IF s \in waiting THEN Found(send[s], r) ELSE send[s]]
       /\ recovery' = IF recovery = l THEN None ELSE recovery
       /\ UNCHANGED <<pool, connecting, conn, entered, faults>>

\* The route deadline passes for one waiter: discovery.get decides.  A leader
\* takes its entry along; the recovery runs on for those who joined it.
DiscoveryDeadline(s) ==
    /\ send[s].pc = "discovering"
    /\ send' = [send EXCEPT ![s] = Found(@, record)]
    /\ recovery' = IF recovery = s THEN None ELSE recovery
    /\ UNCHANGED <<record, pool, connecting, conn, entered, faults>>

---------------------------------------------------------------------------
(* #directClient and #connectWithRetry.                                    *)

\* Share the pending connect of this binding, else abandon it and connect.
StartConnect(s) ==
    IF connecting # None /\ conn[connecting].gen = send[s].gen
    THEN /\ send' = [send EXCEPT ![s].pc = "connecting", ![s].conn = connecting]
         /\ UNCHANGED <<connecting, conn>>
    ELSE \E w \in Connections :
           /\ conn[w].status = "unused"
           /\ \A v \in Connections : v < w => conn[v].status # "unused"
           /\ conn' = [Abandon(conn, connecting) EXCEPT
                         ![w].status = "pending", ![w].gen = send[s].gen]
           /\ connecting' = w
           /\ send' = [send EXCEPT ![s].pc = "connecting", ![s].conn = w]

\* Reuse the client of this binding unless it is idle; await the discard of an
\* idle client or of another binding's; else connect.
DirectClient(s) ==
    /\ send[s].pc = "resolved"
    /\ \/ /\ pool # None /\ conn[pool].gen = send[s].gen
          /\ send' = [send EXCEPT ![s].pc = "connecting", ![s].conn = pool]
          /\ UNCHANGED <<pool, connecting, conn>>
       \/ /\ pool # None
          /\ \/ conn[pool].gen = send[s].gen /\ DiscardBinding(conn, send[s].gen)
             \/ conn[pool].gen # send[s].gen /\ DiscardConnection(conn, FALSE)
          /\ send' = [send EXCEPT ![s].pc = "discarding"]
       \/ pool = None /\ StartConnect(s) /\ UNCHANGED pool
    /\ UNCHANGED <<record, recovery, entered, faults>>

\* After that await only the pending connect is looked at, not the pool.
Discarded(s) ==
    /\ send[s].pc = "discarding"
    /\ StartConnect(s)
    /\ UNCHANGED <<record, recovery, pool, entered, faults>>

\* The connect succeeds and its client enters the pool.
Connected(w) ==
    /\ conn[w].status = "pending" /\ connecting = w
    /\ conn' = [conn EXCEPT ![w].status = "open"]
    /\ pool' = w
    /\ connecting' = None
    /\ UNCHANGED <<send, record, recovery, entered, faults>>

\* An abandoned connect succeeds: its client is closed, and those who wait
\* follow the pending connect, else the pooled client, else fail.
ConnectedTooLate(w) ==
    /\ conn[w].status = "discarded"
    /\ conn' = [conn EXCEPT ![w].status = "failed",
                            ![w].code = IF connecting = None /\ pool = None
                                        THEN "superseded" ELSE "none",
                            ![w].next = IF connecting # None THEN connecting ELSE pool]
    /\ UNCHANGED <<send, record, recovery, pool, connecting, entered, faults>>

\* The connect times out, or every attempt is refused.
ConnectFails(w) ==
    /\ conn[w].status \in {"pending", "discarded"}
    /\ \E code \in {"timeout", "refused"} :
         conn' = [conn EXCEPT ![w].status = "failed", ![w].code = code]
    /\ connecting' = IF connecting = w THEN None ELSE connecting
    /\ UNCHANGED <<send, record, recovery, pool, entered, faults>>

\* A waiter of an abandoned connect goes on to what replaced it.
Follow(s) ==
    LET w == send[s].conn
    IN /\ send[s].pc = "connecting" /\ conn[w].next # None
       /\ send' = [send EXCEPT ![s].conn = conn[w].next]
       /\ UNCHANGED <<record, recovery, pool, connecting, conn, entered, faults>>

---------------------------------------------------------------------------
(* send.                                                                   *)

\* Only a send that has handed nothing over may go round its loop again.
Retry(s, code) ==
    /\ ~send[s].dispatched
    /\ \/ code = "superseded" /\ send[s].tries < SupersededRetries
       \/ code = "timeout" /\ send[s].timeouts < 1

\* The catch block of send: the binding is discarded, then the loop goes round
\* again, unless the route deadline is near, or it ends.
Fail(s, code, cs) ==
    LET at == [send[s] EXCEPT !.conn = None]
    IN /\ DiscardBinding(cs, send[s].gen)
       /\ \/ /\ Retry(s, code) /\ code = "superseded"
             /\ Discovering(s, [at EXCEPT !.tries = @ + 1])
          \/ /\ Retry(s, code) /\ code = "timeout"
             /\ send' = [send EXCEPT ![s] = [at EXCEPT !.pc = "rediscovering", !.timeouts = 1]]
             /\ UNCHANGED recovery
          \/ send' = [send EXCEPT ![s] = [at EXCEPT !.pc = "fallback"]] /\ UNCHANGED recovery
       /\ UNCHANGED <<record, faults>>

\* The fault controller refuses the direct path.
DirectRefused(s) ==
    /\ send[s].pc = "resolved" /\ faults < MaxFaults
    /\ LET at == [send[s] EXCEPT !.pc = "fallback"]
       IN DiscardBinding(conn, send[s].gen) /\ send' = [send EXCEPT ![s] = at]
    /\ faults' = faults + 1
    /\ UNCHANGED <<record, recovery, entered>>

\* The connect a send waits for has failed, or the wait passed its deadline.
ConnectRejected(s) ==
    /\ send[s].pc = "connecting"
    /\ LET w == send[s].conn
       IN \/ conn[w].code # "none" /\ Fail(s, conn[w].code, conn)
          \/ conn[w].status \in {"pending", "discarded"} /\ Fail(s, "deadline", conn)
    /\ UNCHANGED entered

\* The client is obtained.  When it has left the pool meanwhile the send fails
\* as superseded; else it is leased and the envelope goes out.
Dispatch(s) ==
    LET w == send[s].conn
    IN /\ send[s].pc = "connecting" /\ conn[w].status \in {"open", "closed", "torn"}
       /\ IF pool # w THEN Fail(s, "superseded", conn) /\ UNCHANGED entered
          ELSE /\ send' = [send EXCEPT ![s].pc = "dispatching", ![s].dispatched = TRUE]
               /\ conn' = [conn EXCEPT ![w].leases = @ + 1]
               /\ entered' = [entered EXCEPT ![s] =
                               @ \cup {IF "direct" \in @ THEN "direct-again" ELSE "direct"}]
               /\ UNCHANGED <<record, recovery, pool, connecting, faults>>

\* The envelope is answered, or fails, or passes the deadline: the lease is
\* released in every case.
DispatchSettles(s) ==
    LET w == send[s].conn
    IN /\ send[s].pc = "dispatching"
       /\ \/ /\ conn' = Release(conn, w)
             /\ send' = [send EXCEPT ![s].pc = "sent", ![s].conn = None]
             /\ UNCHANGED <<record, recovery, pool, connecting, faults>>
          \/ Fail(s, "dispatch", Release(conn, w))
       /\ UNCHANGED entered

\* #forceRediscoverAfterConnectTimeout: a newer binding, or the same one if it
\* is still valid, is tried once more.
Rediscovered(s) ==
    /\ send[s].pc = "rediscovering"
    /\ \E r \in Refreshed(record) :
         /\ record' = r
         /\ send' = [send EXCEPT ![s].pc = IF r.live THEN "resolved" ELSE "fallback",
                                 ![s].gen = IF r.live THEN r.gen ELSE @]
    /\ UNCHANGED <<recovery, pool, connecting, conn, entered, faults>>

FallbackAnyway(s) ==
    /\ send[s].pc = "fallback"
    /\ send' = [send EXCEPT ![s].pc = "relaying", ![s].dispatched = TRUE]
    /\ entered' = [entered EXCEPT ![s] = @ \cup {"relay"}]
    /\ UNCHANGED <<record, recovery, pool, connecting, conn, faults>>

\* The end of send: without a hand-over, and where the caller allows it, the
\* relay takes the envelope; else the direct error is thrown.
Fallback(s) ==
    /\ send[s].pc = "fallback"
    /\ \/ send' = [send EXCEPT ![s].pc = "failed"] /\ UNCHANGED entered
       \/ /\ ~send[s].dispatched
          /\ send' = [send EXCEPT ![s].pc = "relaying", ![s].dispatched = TRUE]
          /\ entered' = [entered EXCEPT ![s] = @ \cup {"relay"}]
    /\ UNCHANGED <<record, recovery, pool, connecting, conn, faults>>

Relayed(s) ==
    /\ send[s].pc = "relaying"
    /\ \E end \in {"sent", "failed"} : send' = [send EXCEPT ![s].pc = end]
    /\ UNCHANGED <<record, recovery, pool, connecting, conn, entered, faults>>

---------------------------------------------------------------------------
(* What happens around the sends.                                          *)

\* retire and forget: the peer changed its generation, or is cut off.
Discard(force) ==
    /\ faults < MaxFaults /\ (pool # None \/ connecting # None)
    /\ DiscardConnection(conn, force)
    /\ faults' = faults + 1
    /\ UNCHANGED <<send, record, recovery, entered>>

\* sweepIdleConnections: an idle client leaves the pool and is retired.
SweepIdleConnections ==
    /\ faults < MaxFaults /\ pool # None
    /\ conn' = RetireClient(conn, pool, FALSE)
    /\ pool' = None
    /\ faults' = faults + 1
    /\ UNCHANGED <<send, record, recovery, connecting, entered>>

\* #watchConnection: the peer closes a connection.
PeerCloses(w) ==
    /\ faults < MaxFaults /\ conn[w].status = "open"
    /\ conn' = [conn EXCEPT ![w].status = "torn"]
    /\ pool' = IF pool = w THEN None ELSE pool
    /\ faults' = faults + 1
    /\ UNCHANGED <<send, record, recovery, connecting, entered>>

\* Discovery ingests a newer record, or lets the one it has expire.
RecordChanges ==
    /\ faults < MaxFaults
    /\ record' \in {[record EXCEPT !.live = FALSE]} \cup
                   [gen : {record.gen + 1} \cap (1..MaxGeneration), live : {TRUE}]
    /\ faults' = faults + 1
    /\ UNCHANGED <<send, recovery, pool, connecting, conn, entered>>

P2pNext ==
    \/ \E s \in Sends :
         \/ Discover(s) \/ Recovered(s) \/ DiscoveryDeadline(s)
         \/ DirectClient(s) \/ Discarded(s) \/ Follow(s)
         \/ DirectRefused(s) \/ ConnectRejected(s) \/ Dispatch(s) \/ DispatchSettles(s)
         \/ Rediscovered(s) \/ Fallback(s) \/ Relayed(s)
    \/ \E w \in Connections :
         Connected(w) \/ ConnectedTooLate(w) \/ ConnectFails(w) \/ PeerCloses(w)
    \/ \E force \in BOOLEAN : Discard(force)
    \/ SweepIdleConnections
    \/ RecordChanges

P2pSpec == P2pInit /\ [][P2pNext]_p2pVars

---------------------------------------------------------------------------

(* An envelope enters one transport at most, however often its send loses  *)
(* its client, times out, finds the peer again or falls back to the relay  *)
(* (send, applicationDispatched).                                          *)
EnvelopeEntersOnce == \A s \in Sends : Cardinality(entered[s]) <= 1

(* No client is closed by this side underneath a dispatch: only forget and *)
(* the peer tear a leased client, whatever sweeps, retires or discards it  *)
(* (#retireClient, #leaseClient).                                          *)
NeverClosedUnderneath ==
    \A w \in Connections : conn[w].leases > 0 => conn[w].status \in {"open", "torn"}

---------------------------------------------------------------------------
(* Why they hold.  The pooled client is open and not retired, the pending  *)
(* connect is pending, and only an open or a torn client is leased; the    *)
(* leases of a client are the dispatches under way on it.  A send that has *)
(* handed its envelope over does not go round its loop again.              *)

Fit(cs, p, c) ==
    /\ cs \in [Connections -> ConnectionStates] /\ {p, c} \subseteq Connections \cup {None}
    /\ p # None => cs[p].status = "open" /\ ~cs[p].retired
    /\ c # None => cs[c].status = "pending"
    /\ \A w \in Connections :
          /\ cs[w].leases > 0 => cs[w].status \in {"open", "torn"}
          /\ cs[w].retired => cs[w].status \in {"open", "torn", "closed"}

\* How far a send is, and the transports its envelope has entered.
Progress(x, e) ==
    /\ x.pc \in {"connecting", "dispatching"} => x.conn # None
    /\ x.dispatched => x.pc \in {"dispatching", "fallback", "relaying", "sent", "failed"}
    /\ ~x.dispatched => e = {} /\ x.pc # "dispatching"
    /\ \E t \in {"direct", "relay", "direct-again"} : e \subseteq {t}

Dispatches(w) == {s \in Sends : send[s].pc = "dispatching" /\ send[s].conn = w}

P2pInv ==
    /\ P2pTypeOK /\ Fit(conn, pool, connecting)
    /\ \A s \in Sends : Progress(send[s], entered[s])
    /\ \A w \in Connections : conn[w].leases = Cardinality(Dispatches(w))
=============================================================================
