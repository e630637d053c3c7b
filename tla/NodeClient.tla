----------------------------- MODULE NodeClient -----------------------------
(***************************************************************************)
(* TruynNode's session and fast socket (node/client.js): registering,      *)
(* opening and closing the socket, the queue of events and those who wait  *)
(* for one, and chains sent over the socket.  Calls are asynchronous, so   *)
(* several run side by side on one node, and the events of a socket that   *)
(* was given up still arrive.                                              *)
(*                                                                         *)
(* Events are numbered as they arrive.  The relay is RelayDelivery's and   *)
(* RelayChains' subject; here it answers in any way it may.                *)
(***************************************************************************)
EXTENDS Naturals, Sequences, FiniteSets, SequencesExt

CONSTANTS
    Registrations,  \* calls of register()
    Readers,        \* calls of nextCompactSocketEvent()
    Chains,         \* calls of compactChain()
    MaxSockets, MaxEvents

Sockets == 1..MaxSockets
None == 0

VARIABLES
    reg,            \* of each registration: pc, and its token
    relaySession,   \* the token the relay gave last
    sessionToken,   \* the node's
    socket,         \* state of every socket opened so far
    fastSocket,     \* the current socket, or None
    connecting,     \* the socket of fastSocketConnectPromise, or None
    queue,          \* fastSocketQueue
    waiters,        \* fastSocketWaiters, the oldest first
    reader,         \* of each reader: pc, the socket it awaits, the event it got
    chainWaiters,   \* fastSocketChainWaiters
    chain,          \* of each chain: pc, and the socket that carried it
    arrived         \* events received

clientVars == <<reg, relaySession, sessionToken, socket, fastSocket, connecting, queue, waiters,
                reader, chainWaiters, chain, arrived>>

ClientTypeOK ==
    /\ \A r \in Registrations : reg[r].pc \in {"new", "sent", "done", "failed"}
    /\ \A s \in DOMAIN socket : socket[s] \in {"connecting", "open", "closing", "closed"}
    /\ {fastSocket, connecting} \subseteq DOMAIN socket \cup {None}
    /\ queue \in Seq(1..arrived) /\ waiters \in Seq(Readers) /\ chainWaiters \subseteq Chains
    /\ \A r \in Readers : reader[r].pc \in {"new", "ensure", "ready", "wait", "verify", "done", "failed"}
    /\ \A c \in Chains : chain[c].pc \in {"new", "wait", "http", "done", "failed"}

ClientInit ==
    /\ reg = [r \in Registrations |-> [pc |-> "new", token |-> None]]
    /\ relaySession = None /\ sessionToken = None
    /\ socket = <<>> /\ fastSocket = None /\ connecting = None
    /\ queue = <<>> /\ waiters = <<>> /\ chainWaiters = {} /\ arrived = 0
    /\ reader = [r \in Readers |-> [pc |-> "new", on |-> None, event |-> 0]]
    /\ chain = [c \in Chains |-> [pc |-> "new", on |-> None]]

IsOpen(s) == s # None /\ socket[s] = "open"

\* rejectFastSocketWaiters and rejectFastSocketChainWaiters: all of them, whichever
\* socket they wait on.
RejectWaiters ==
    /\ waiters' = <<>>
    /\ reader' = [r \in Readers |-> IF r \in ToSet(waiters) THEN [reader[r] EXCEPT !.pc = "failed"] ELSE reader[r]]

RejectChainWaiters ==
    /\ chainWaiters' = {}
    /\ chain' = [c \in Chains |-> IF c \in chainWaiters THEN [chain[c] EXCEPT !.pc = "failed"] ELSE chain[c]]

\* closeFastSocket: a socket that is still connecting is forgotten and not closed.
CloseFastSocket ==
    /\ fastSocket' = None /\ connecting' = None
    /\ socket' = IF IsOpen(fastSocket) THEN [socket EXCEPT ![fastSocket] = "closing"] ELSE socket
    /\ RejectWaiters /\ RejectChainWaiters

Close ==
    /\ fastSocket # None \/ connecting # None
    /\ CloseFastSocket
    /\ UNCHANGED <<reg, relaySession, sessionToken, queue, arrived>>

---------------------------------------------------------------------------

\* register: the socket and the session go before the request does.
Register(r) ==
    /\ reg[r].pc = "new"
    /\ CloseFastSocket
    /\ sessionToken' = None
    /\ reg' = [reg EXCEPT ![r].pc = "sent"]
    /\ UNCHANGED <<relaySession, queue, arrived>>

\* The relay makes a new session, which ends the one before it.
RelayRegisters(r) ==
    /\ reg[r].pc = "sent" /\ reg[r].token = None
    /\ relaySession' = relaySession + 1
    /\ reg' = [reg EXCEPT ![r].token = relaySession + 1]
    /\ UNCHANGED <<sessionToken, socket, fastSocket, connecting, queue, waiters, reader, chainWaiters, chain, arrived>>

\* The answer: taken when it confirms what was advertised, refused otherwise.
Registered(r) ==
    /\ reg[r].pc = "sent" /\ reg[r].token # None
    /\ reg' = [reg EXCEPT ![r].pc = "done"]
    /\ sessionToken' = reg[r].token
    /\ UNCHANGED <<relaySession, socket, fastSocket, connecting, queue, waiters, reader, chainWaiters, chain, arrived>>

RegisterFails(r) ==
    /\ reg[r].pc = "sent"
    /\ reg' = [reg EXCEPT ![r].pc = "failed"]
    /\ UNCHANGED <<relaySession, sessionToken, socket, fastSocket, connecting, queue, waiters, reader,
                   chainWaiters, chain, arrived>>

---------------------------------------------------------------------------

\* nextCompactSocketEvent, ensureFastSocket: the open socket, the one being connected,
\* or a new one.
NextEvent(r) ==
    /\ reader[r].pc = "new" /\ sessionToken # None
    /\ \/ /\ IsOpen(fastSocket)
          /\ reader' = [reader EXCEPT ![r].pc = "ready"]
          /\ UNCHANGED <<socket, connecting>>
       \/ /\ ~IsOpen(fastSocket) /\ connecting # None
          /\ reader' = [reader EXCEPT ![r].pc = "ensure", ![r].on = connecting]
          /\ UNCHANGED <<socket, connecting>>
       \/ /\ ~IsOpen(fastSocket) /\ connecting = None /\ Len(socket) < MaxSockets
          /\ socket' = Append(socket, "connecting")
          /\ connecting' = Len(socket) + 1
          /\ reader' = [reader EXCEPT ![r].pc = "ensure", ![r].on = Len(socket) + 1]
    /\ UNCHANGED <<reg, relaySession, sessionToken, fastSocket, queue, waiters, chainWaiters, chain, arrived>>

\* 'open': the socket becomes the current one, even if it was given up meanwhile.
SocketOpens(s) ==
    /\ s \in DOMAIN socket /\ socket[s] = "connecting"
    /\ socket' = [socket EXCEPT ![s] = "open"]
    /\ fastSocket' = s /\ connecting' = None
    /\ reader' = [r \in Readers |-> IF reader[r].pc = "ensure" /\ reader[r].on = s
                                    THEN [reader[r] EXCEPT !.pc = "ready"] ELSE reader[r]]
    /\ UNCHANGED <<reg, relaySession, sessionToken, queue, waiters, chainWaiters, chain, arrived>>

\* 'error' and 'close' of a socket that did not open.
SocketFails(s) ==
    /\ s \in DOMAIN socket /\ socket[s] = "connecting"
    /\ socket' = [socket EXCEPT ![s] = "closed"]
    /\ connecting' = None
    /\ waiters' = <<>>
    /\ reader' = [r \in Readers |->
          IF r \in ToSet(waiters) \/ (reader[r].pc = "ensure" /\ reader[r].on = s)
          THEN [reader[r] EXCEPT !.pc = "failed"] ELSE reader[r]]
    /\ RejectChainWaiters
    /\ UNCHANGED <<reg, relaySession, sessionToken, fastSocket, queue, arrived>>

\* 'close' of a socket that was open.
SocketCloses(s) ==
    /\ s \in DOMAIN socket /\ socket[s] \in {"open", "closing"}
    /\ socket' = [socket EXCEPT ![s] = "closed"]
    /\ fastSocket' = IF fastSocket = s THEN None ELSE fastSocket
    /\ RejectWaiters /\ RejectChainWaiters
    /\ UNCHANGED <<reg, relaySession, sessionToken, connecting, queue, arrived>>

\* The rest of nextCompactSocketEvent, one turn later: an event of the queue, or wait.
TakeOrWait(r) ==
    /\ reader[r].pc = "ready"
    /\ IF queue # <<>>
       THEN /\ reader' = [reader EXCEPT ![r].pc = "verify", ![r].event = Head(queue)]
            /\ queue' = Tail(queue)
            /\ UNCHANGED waiters
       ELSE /\ reader' = [reader EXCEPT ![r].pc = "wait"]
            /\ waiters' = Append(waiters, r)
            /\ UNCHANGED queue
    /\ UNCHANGED <<reg, relaySession, sessionToken, socket, fastSocket, connecting, chainWaiters, chain, arrived>>

\* verifyCompactEvent, once the event is the reader's alone: who signed it may have to
\* be asked of the relay.
Verified(r) ==
    /\ reader[r].pc = "verify"
    /\ reader' = [reader EXCEPT ![r].pc = "done"]
    /\ UNCHANGED <<reg, relaySession, sessionToken, socket, fastSocket, connecting, queue, waiters,
                   chainWaiters, chain, arrived>>

\* resolveIdentity throws: the session is gone or the request fails, and the event
\* goes with the call.
VerifyFails(r) ==
    /\ reader[r].pc = "verify"
    /\ reader' = [reader EXCEPT ![r].pc = "failed"]
    /\ UNCHANGED <<reg, relaySession, sessionToken, socket, fastSocket, connecting, queue, waiters,
                   chainWaiters, chain, arrived>>

EventTimeout(r) ==
    /\ reader[r].pc = "wait"
    /\ reader' = [reader EXCEPT ![r].pc = "failed"]
    /\ waiters' = SelectSeq(waiters, LAMBDA w : w # r)
    /\ UNCHANGED <<reg, relaySession, sessionToken, socket, fastSocket, connecting, queue, chainWaiters, chain, arrived>>

---------------------------------------------------------------------------

\* deliverFastSocketEvent: to the one who waits longest, or to the queue.
DeliverEvent ==
    IF waiters # <<>>
    THEN /\ reader' = [reader EXCEPT ![Head(waiters)].pc = "verify", ![Head(waiters)].event = arrived + 1]
         /\ waiters' = Tail(waiters)
         /\ UNCHANGED queue
    ELSE /\ queue' = Append(queue, arrived + 1)
         /\ UNCHANGED <<waiters, reader>>

\* 'message' with an event, on any socket that is open or closing.
Event(s) ==
    /\ s \in DOMAIN socket /\ socket[s] \in {"open", "closing"} /\ arrived < MaxEvents
    /\ arrived' = arrived + 1
    /\ DeliverEvent
    /\ UNCHANGED <<reg, relaySession, sessionToken, socket, fastSocket, connecting, chainWaiters, chain>>

\* ERROR without the id of a chain that waits: everybody is told.
ErrorMessage(s) ==
    /\ s \in DOMAIN socket /\ socket[s] \in {"open", "closing"} /\ (waiters # <<>> \/ chainWaiters # {})
    /\ RejectWaiters /\ RejectChainWaiters
    /\ UNCHANGED <<reg, relaySession, sessionToken, socket, fastSocket, connecting, queue, arrived>>

\* compactChain: over the socket when it is open.
SendChain(c) ==
    /\ chain[c].pc = "new" /\ sessionToken # None
    /\ IF IsOpen(fastSocket)
       THEN /\ chain' = [chain EXCEPT ![c] = [pc |-> "wait", on |-> fastSocket]]
            /\ chainWaiters' = chainWaiters \cup {c}
       ELSE /\ chain' = [chain EXCEPT ![c].pc = "http"]
            /\ UNCHANGED chainWaiters
    /\ UNCHANGED <<reg, relaySession, sessionToken, socket, fastSocket, connecting, queue, waiters, reader, arrived>>

\* Mutant: the timer of a chain leaves its waiter behind.
LeaveWaiter(c) == UNCHANGED chainWaiters

ForgetWaiter(c) == chainWaiters' = chainWaiters \ {c}

\* CHAIN_RESULT or ERROR for c on the socket that carried it; without a waiter it is dropped.
ChainAnswer(c, pc) ==
    /\ c \in chainWaiters /\ socket[chain[c].on] \in {"open", "closing"}
    /\ chain' = [chain EXCEPT ![c].pc = pc]
    /\ chainWaiters' = chainWaiters \ {c}
    /\ UNCHANGED <<reg, relaySession, sessionToken, socket, fastSocket, connecting, queue, waiters, reader, arrived>>

\* The timer, or the send that failed; over HTTP the answer of the request.
ChainFails(c) ==
    /\ chain[c].pc = "wait"
    /\ chain' = [chain EXCEPT ![c].pc = "failed"]
    /\ ForgetWaiter(c)
    /\ UNCHANGED <<reg, relaySession, sessionToken, socket, fastSocket, connecting, queue, waiters, reader, arrived>>

HttpChain(c, pc) ==
    /\ chain[c].pc = "http"
    /\ chain' = [chain EXCEPT ![c].pc = pc]
    /\ UNCHANGED <<reg, relaySession, sessionToken, socket, fastSocket, connecting, queue, waiters, reader,
                   chainWaiters, arrived>>

ClientNext ==
    \/ \E r \in Registrations : Register(r) \/ RelayRegisters(r) \/ Registered(r) \/ RegisterFails(r)
    \/ \E r \in Readers : NextEvent(r) \/ TakeOrWait(r) \/ Verified(r) \/ VerifyFails(r) \/ EventTimeout(r)
    \/ \E s \in Sockets : SocketOpens(s) \/ SocketFails(s) \/ SocketCloses(s) \/ Event(s) \/ ErrorMessage(s)
    \/ \E c \in Chains :
          \/ SendChain(c) \/ ChainFails(c)
          \/ \E pc \in {"done", "failed"} : ChainAnswer(c, pc) \/ HttpChain(c, pc)
    \/ Close

ClientSpec == ClientInit /\ [][ClientNext]_clientVars

---------------------------------------------------------------------------

Takers == {r \in Readers : reader[r].event # 0}
Taken == {reader[r].event : r \in Takers}

(* Through reconnects, timeouts and errors, with sockets that open late    *)
(* and close late, every event that arrived is still queued, in the order  *)
(* of arrival, or was handed to exactly one reader, who returns it, is     *)
(* finding out who signed it or failed in doing so, which loses it: no     *)
(* reader that was rejected or timed out takes an event with it; nobody    *)
(* waits while an event is queued, and each who waits is waiting once; and *)
(* a chain has a waiter exactly as long as its call is open, which is      *)
(* never when the socket that carries it has closed                        *)
(* (deliverFastSocketEvent, nextCompactSocketEvent, compactChain).         *)
EventsHandedOnce ==
    /\ queue = [i \in 1..Len(queue) |-> arrived - Len(queue) + i]
    /\ Taken = 1..arrived - Len(queue) /\ Cardinality(Taken) = Cardinality(Takers)
    /\ \A r \in Readers : /\ reader[r].pc \in {"verify", "done"} => r \in Takers
                          /\ r \in Takers => reader[r].pc \in {"verify", "done", "failed"}
    /\ queue # <<>> => waiters = <<>>
    /\ \A r \in Readers : (reader[r].pc = "wait") <=> (r \in ToSet(waiters))
    /\ Len(waiters) = Cardinality(ToSet(waiters))
    /\ \A c \in Chains : /\ (chain[c].pc = "wait") <=> (c \in chainWaiters)
                         /\ c \in chainWaiters => socket[chain[c].on] \in {"open", "closing"}

=============================================================================
