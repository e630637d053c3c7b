------------------------------ MODULE QuicRpc ------------------------------
(***************************************************************************)
(* network/discovery/quic-rpc.js: the lanes that admit DHT calls, and the  *)
(* pool of QUIC clients the admitted calls lease.                          *)
(*                                                                         *)
(* A call waits in its lane for a slot, obtains a client for the peer      *)
(* record it was given (a record has a generation), sends one request and  *)
(* settles.  A connection stands for the pending state of a connect and    *)
(* for the client it yields.  Time is a nondeterministic choice: a         *)
(* deadline may pass whenever its timer is set, and an idle client may     *)
(* have expired whenever the pool is swept.                                *)
(***************************************************************************)
EXTENDS Naturals, Sequences, FiniteSets, SequencesExt

CONSTANTS
    Calls,              \* calls of bounded()
    Peers,
    Lanes,              \* RPC_LANES, a sequence in the order of the pump
    LaneLimit,          \* laneLimits, the same for every lane
    PerPeer,            \* perPeerInFlight
    Connections,        \* bound on the connects: a set of numbers
    MaxGeneration,      \* bound on the generations of a peer record
    MaxClients,         \* maxClients
    SupersededRetries   \* supersededRetries

None == 0

VARIABLES
    call,        \* per call: what it asks for and how far it is
    queues,      \* per lane: the calls that wait for a slot
    pool,        \* clients: per peer the connection in use, or None
    connecting,  \* connectingByNodeId: per peer the pending connect, or None
    conn         \* the connections, users among them: clientUsers

rpcVars == <<call, queues, pool, connecting, conn>>

LaneSet == {Lanes[i] : i \in DOMAIN Lanes}
States == {"new", "queued", "admitted", "connecting", "requesting", "done"}

RpcTypeOK ==
    /\ call \in [Calls -> [pc : States, lane : LaneSet, peer : Peers,
                           gen : 1..MaxGeneration, conn : Connections \cup {None},
                           tries : 0..SupersededRetries]]
    /\ queues \in [LaneSet -> Seq(Calls)]
    /\ pool \in [Peers -> Connections \cup {None}]
    /\ connecting \in [Peers -> Connections \cup {None}]
    /\ conn \in [Connections ->
                    [status : {"unused", "pending", "discarded", "open", "late",
                               "released", "torn"},
                     peer : Peers, gen : 1..MaxGeneration, users : Nat,
                     ghosts : Nat, retired : BOOLEAN]]

RpcInit ==
    /\ call = [c \in Calls |-> [pc |-> "new", lane |-> Lanes[1], gen |-> 1, conn |-> None,
                                peer |-> CHOOSE p \in Peers : TRUE, tries |-> 0]]
    /\ queues = [l \in LaneSet |-> <<>>]
    /\ pool = [p \in Peers |-> None]
    /\ connecting = [p \in Peers |-> None]
    /\ conn = [w \in Connections |->
                [status |-> "unused", peer |-> CHOOSE p \in Peers : TRUE, gen |-> 1,
                 users |-> 0, ghosts |-> 0, retired |-> FALSE]]

---------------------------------------------------------------------------
(* RpcLaneScheduler.                                                       *)

\* The calls that hold a slot.
Running == {c \in Calls : call[c].pc \in {"admitted", "connecting", "requesting"}}

\* #canRun: c would stay within its lane's and its peer's limit beside run.
CanRun(calls, c, run) ==
    /\ Cardinality({d \in run : calls[d].lane = calls[c].lane}) < LaneLimit
    /\ Cardinality({d \in run : calls[d].peer = calls[c].peer}) < PerPeer

\* #pump: every lane in turn starts, oldest first, each waiter that can run.
Pump(calls, qs, run) ==
    LET start(r, c) == IF CanRun(calls, c, r) THEN r \cup {c} ELSE r
        lane(r, l) == FoldLeft(start, r, qs[l])
    IN FoldLeft(lane, run, Lanes)

\* The waiters that the pump starts leave their lanes.
Admit(calls, qs, run) ==
    LET started == Pump(calls, qs, run) \ run
    IN /\ call' = [c \in Calls |-> IF c \in started THEN [calls[c] EXCEPT !.pc = "admitted"]
                                   ELSE calls[c]]
       /\ queues' = [l \in LaneSet |-> SelectSeq(qs[l], LAMBDA c : c \notin started)]

\* acquire: with an empty lane and room the call starts, else it waits and the
\* lanes are pumped: a waiter held up by its peer does not hold up the others.
Acquire(c) ==
    /\ call[c].pc = "new"
    /\ \E l \in LaneSet, p \in Peers, g \in 1..MaxGeneration :
         LET asked == [call EXCEPT ![c].lane = l, ![c].peer = p, ![c].gen = g]
         IN IF queues[l] = <<>> /\ CanRun(asked, c, Running)
            THEN call' = [asked EXCEPT ![c].pc = "admitted"] /\ UNCHANGED queues
            ELSE Admit([asked EXCEPT ![c].pc = "queued"],
                       [queues EXCEPT ![l] = Append(@, c)], Running)
    /\ UNCHANGED <<pool, connecting, conn>>

\* The deadline passes in the lane.
ExpireQueued(c) ==
    /\ call[c].pc = "queued"
    /\ queues' = [queues EXCEPT ![call[c].lane] = SelectSeq(@, LAMBDA d : d # c)]
    /\ call' = [call EXCEPT ![c].pc = "done"]
    /\ UNCHANGED <<pool, connecting, conn>>

\* releaseSlot: the call settles and the lanes are pumped.
ReleaseSlot(calls, c) ==
    Admit([calls EXCEPT ![c].pc = "done", ![c].conn = None], queues, Running \ {c})

---------------------------------------------------------------------------
(* The pool.                                                               *)

\* sameOrNewerGeneration: there is a connection w, for generation g or a newer one.
Serves(w, g) == IF w = None THEN FALSE ELSE conn[w].gen >= g

\* #releaseClient and #retireClient: the last user of a retired client
\* disconnects it.
Drop(cs, w, retire) ==
    LET left == cs[w].users - 1
        gone == cs[w].retired \/ retire
    IN [cs EXCEPT ![w].users = left, ![w].retired = gone,
                  ![w].status = IF gone /\ left = 0 /\ @ = "open" THEN "released" ELSE @]

\* #disconnect at once, as forget and #forgetBinding do it.
Tear(cs, w) ==
    IF w = None THEN cs
    ELSE [cs EXCEPT ![w].status = CASE @ = "open" -> "torn"
                                    [] @ = "pending" -> "discarded"
                                    [] OTHER -> @]

\* client(peer), up to its await: share a client or a pending connect of the
\* same or a newer generation, else drop the older one and connect.
Client(c) ==
    LET p == call[c].peer
        g == call[c].gen
        reuse == Serves(pool[p], g)
        share == Serves(connecting[p], g)
    IN /\ call[c].pc = "admitted"
       /\ \/ /\ reuse
             /\ conn' = [conn EXCEPT ![pool[p]].users = @ + 1]
             /\ call' = [call EXCEPT ![c].pc = "requesting", ![c].conn = pool[p]]
             /\ UNCHANGED <<pool, connecting>>
          \/ /\ ~reuse /\ share
             /\ call' = [call EXCEPT ![c].pc = "connecting", ![c].conn = connecting[p]]
             /\ conn' = Tear(conn, pool[p])
             /\ pool' = [pool EXCEPT ![p] = None]
             /\ UNCHANGED connecting
          \/ /\ ~reuse /\ ~share
             /\ \E w \in Connections :
                   /\ conn[w].status = "unused"
                   /\ \A v \in Connections : conn[v].status = "unused" => w <= v
                   /\ call' = [call EXCEPT ![c].pc = "connecting", ![c].conn = w]
                   /\ connecting' = [connecting EXCEPT ![p] = w]
                   /\ conn' = [Tear(Tear(conn, pool[p]), connecting[p]) EXCEPT
                                 ![w].status = "pending", ![w].peer = p, ![w].gen = g]
             /\ pool' = [pool EXCEPT ![p] = None]
       /\ UNCHANGED queues

Waiters(w) == {c \in Calls : call[c].pc = "connecting" /\ call[c].conn = w}

\* quic.connect succeeds for the current connect of its peer: the client is
\* pooled and leased by everyone who awaits it, also by the operations of the
\* calls that timed out meanwhile (ghosts), which no finally will release.
Connected(w) ==
    /\ conn[w].status = "pending"
    /\ pool' = [pool EXCEPT ![conn[w].peer] = w]
    /\ connecting' = [connecting EXCEPT ![conn[w].peer] = None]
    /\ conn' = [conn EXCEPT ![w].status = "open", ![w].ghosts = 0,
                            ![w].users = Cardinality(Waiters(w)) + conn[w].ghosts]
    /\ call' = [c \in Calls |-> IF c \in Waiters(w) THEN [call[c] EXCEPT !.pc = "requesting"]
                                ELSE call[c]]
    /\ UNCHANGED queues

\* The connect was discarded meanwhile: its client is disconnected.
ConnectedLate(w) ==
    /\ conn[w].status = "discarded"
    /\ conn' = [conn EXCEPT ![w].status = "late"]
    /\ UNCHANGED <<call, queues, pool, connecting>>

\* Its waiters turn to the connect or the client that replaced it.
Replaced(w) ==
    LET p == conn[w].peer
        next == connecting[p]
        now == pool[p]
        ghosts == conn[w].ghosts
        n == Cardinality(Waiters(w))
    IN /\ conn[w].status = "late"
       /\ n + ghosts > 0
       /\ \/ /\ Serves(next, conn[w].gen)
             /\ conn' = [conn EXCEPT ![w].ghosts = 0, ![next].ghosts = @ + ghosts]
             /\ call' = [c \in Calls |-> IF c \in Waiters(w) THEN [call[c] EXCEPT !.conn = next]
                                         ELSE call[c]]
          \/ /\ ~Serves(next, conn[w].gen) /\ Serves(now, conn[w].gen)
             /\ conn' = [conn EXCEPT ![w].ghosts = 0, ![now].users = @ + ghosts + n]
             /\ call' = [c \in Calls |-> IF c \in Waiters(w)
                                         THEN [call[c] EXCEPT !.conn = now, !.pc = "requesting"]
                                         ELSE call[c]]
       /\ UNCHANGED <<queues, pool, connecting>>

\* Nothing replaced it: the call fails as superseded and tries again, at most
\* SupersededRetries times.
Superseded(c) ==
    LET w == call[c].conn
        p == call[c].peer
    IN /\ call[c].pc = "connecting"
       /\ conn[w].status = "late"
       /\ ~Serves(connecting[p], conn[w].gen) /\ ~Serves(pool[p], conn[w].gen)
       /\ IF call[c].tries < SupersededRetries
          THEN /\ call' = [call EXCEPT ![c].pc = "admitted", ![c].conn = None, ![c].tries = @ + 1]
               /\ UNCHANGED queues
          ELSE ReleaseSlot(call, c)
       /\ UNCHANGED <<pool, connecting, conn>>

\* quic.connect fails: so does every call that awaits it.  A pending connect is
\* forgotten.
ConnectFails(w) ==
    /\ conn[w].status \in {"pending", "discarded"}
    /\ connecting' = [connecting EXCEPT ![conn[w].peer] = IF @ = w THEN None ELSE @]
    /\ conn' = [conn EXCEPT ![w].status = "torn", ![w].ghosts = 0]
    /\ Admit([c \in Calls |-> IF c \in Waiters(w)
                              THEN [call[c] EXCEPT !.pc = "done", !.conn = None] ELSE call[c]],
             queues, Running \ Waiters(w))
    /\ UNCHANGED pool

\* requestControl answers, with a result or a remote rejection.
Answered(c) ==
    /\ call[c].pc = "requesting"
    /\ conn[call[c].conn].status = "open"
    /\ conn' = Drop(conn, call[c].conn, FALSE)
    /\ ReleaseSlot(call, c)
    /\ UNCHANGED <<pool, connecting>>

RequestFailsClosing(c) ==
    LET w == call[c].conn
        p == call[c].peer
    IN /\ call[c].pc = "requesting"
       /\ conn' = [Drop(conn, w, TRUE) EXCEPT ![w].status = "released"]
       /\ pool' = [pool EXCEPT ![p] = IF @ = w THEN None ELSE @]
       /\ ReleaseSlot(call, c)
       /\ UNCHANGED connecting

\* The request fails or its time is up: its client is retired.
RequestFails(c) ==
    LET w == call[c].conn
        p == call[c].peer
    IN /\ call[c].pc = "requesting"
       /\ conn' = Drop(conn, w, TRUE)
       /\ pool' = [pool EXCEPT ![p] = IF @ = w THEN None ELSE @]
       /\ ReleaseSlot(call, c)
       /\ UNCHANGED connecting

\* Its time is up while it awaits a client: no client to retire or to release.
TimesOutConnecting(c) ==
    /\ call[c].pc = "connecting"
    /\ conn' = [conn EXCEPT ![call[c].conn].ghosts = @ + 1]
    /\ ReleaseSlot(call, c)
    /\ UNCHANGED <<pool, connecting>>

\* sweepClients: idle clients that expired go, and the oldest ones until the
\* pool is within MaxClients.
SweepClients ==
    LET pooled == {p \in Peers : pool[p] # None}
        idle == {p \in pooled : conn[pool[p]].users = 0}
    IN \E gone \in SUBSET idle :
         /\ gone # {}
         /\ gone = idle \/ Cardinality(pooled) - Cardinality(gone) <= MaxClients
         /\ pool' = [p \in Peers |-> IF p \in gone THEN None ELSE pool[p]]
         /\ conn' = [w \in Connections |->
                       IF \E p \in gone : pool[p] = w
                       THEN [conn[w] EXCEPT !.retired = TRUE, !.status = "released"]
                       ELSE conn[w]]
         /\ UNCHANGED <<call, queues, connecting>>

\* #watchClient: the peer closed the connection.
PeerCloses(w) ==
    /\ conn[w].status = "open"
    /\ conn' = [conn EXCEPT ![w].status = "torn"]
    /\ pool' = [p \in Peers |-> IF pool[p] = w THEN None ELSE pool[p]]
    /\ UNCHANGED <<call, queues, connecting>>

\* forget(nodeId): the peer changed its generation, was swept or is partitioned.
Forget(p) ==
    /\ pool[p] # None \/ connecting[p] # None
    /\ conn' = Tear(Tear(conn, connecting[p]), pool[p])
    /\ pool' = [pool EXCEPT ![p] = None]
    /\ connecting' = [connecting EXCEPT ![p] = None]
    /\ UNCHANGED <<call, queues>>

RpcNext ==
    \/ \E c \in Calls :
         \/ Acquire(c)
         \/ ExpireQueued(c)
         \/ Client(c)
         \/ Superseded(c)
         \/ Answered(c)
         \/ RequestFails(c)
         \/ TimesOutConnecting(c)
    \/ \E w \in Connections :
         \/ Connected(w)
         \/ ConnectedLate(w)
         \/ Replaced(w)
         \/ ConnectFails(w)
         \/ PeerCloses(w)
    \/ SweepClients
    \/ \E p \in Peers : Forget(p)

RpcSpec == RpcInit /\ [][RpcNext]_rpcVars
---------------------------------------------------------------------------
\* No waiter is left in its lane that could run: whatever frees a slot of a lane
\* or of a peer (an answer, a failure, a timeout, a connect that fails for
\* several calls at once) starts the waiters of every lane it unblocks.
LanesWorkConserving ==
    \A l \in LaneSet : \A i \in DOMAIN queues[l] : ~CanRun(call, queues[l][i], Running)

\* The pool never closes a client under a running request (only forget, a newer
\* generation or the peer do), never loses an open one that nobody uses, and
\* keeps no closed one.
PoolSound ==
    /\ \A c \in Calls : call[c].pc = "requesting" => conn[call[c].conn].status # "released"
    /\ \A w \in Connections :
         conn[w].status = "open" => conn[w].users > 0 \/ pool[conn[w].peer] = w
    /\ \A p \in Peers : pool[p] # None => conn[pool[p]].status = "open"
============================================================================
