---------------------------- MODULE SdkLocalNode ----------------------------
(***************************************************************************)
(* The TypeScript SDK's local node (sdk/typescript/src/local-node.ts):     *)
(* callers wait for events of their kind, one pump reads the runtime while *)
(* anyone waits, and what nobody waits for is kept for a later caller.     *)
(*                                                                         *)
(* One action is the code between two awaits.  The pump's promise settles  *)
(* one turn after its loop ends, and callers may come in that turn.        *)
(***************************************************************************)
EXTENDS Naturals, Sequences, FiniteSets, SequencesExt

CONSTANTS
    Callers,
    Kinds,            \* kinds of events; a caller waits for one of them or for any
    MaxEvents,        \* bound: events that arrive
    MaxWaits,         \* bound: calls of waitForEvent
    HasSocket         \* the runtime has nextSocketEvent

AnyKind == "any"

VARIABLES
    waiters,          \* eventWaiters, in the order of the set
    wants,            \* wants[c]: the kind that caller c waits for
    pending,          \* pendingEvents
    pump,             \* eventPumpPromise, by where its loop is
    closed,
    incoming,         \* events the runtime holds, by kind and number
    arrived, waits,
    handed            \* history: of each event, the callers that got it

localVars == <<waiters, wants, pending, pump, closed, incoming, arrived, waits, handed>>

LocalInit ==
    /\ waiters = <<>> /\ wants = [c \in Callers |-> AnyKind]
    /\ pending = <<>> /\ pump = "none" /\ closed = FALSE
    /\ incoming = <<>> /\ arrived = 0 /\ waits = 0
    /\ handed = [n \in 1..MaxEvents |-> {}]

Waiting(c) == \E i \in DOMAIN waiters : waiters[i] = c
Matches(c, e) == wants[c] \in {AnyKind, e.kind}
Dropped(s, c) == SelectSeq(s, LAMBDA x : x # c)

\* The runtime receives an event: it is held until someone reads it.
Arrive(k) ==
    /\ arrived < MaxEvents
    /\ arrived' = arrived + 1
    /\ incoming' = Append(incoming, [kind |-> k, n |-> arrived + 1])
    /\ UNCHANGED <<waiters, wants, pending, pump, closed, waits, handed>>

-----------------------------------------------------------------------------
\* dispatchEvent, of one event after the other: the first waiter that matches
\* gets it and waits no more, or the event is pending.
Step(st, e) ==
    LET fit == {i \in DOMAIN st.waiters : Matches(st.waiters[i], e)}
        i == CHOOSE j \in fit : \A k \in fit : j <= k
    IN IF fit = {} THEN [st EXCEPT !.pending = Append(@, e)]
       ELSE [st EXCEPT !.waiters = RemoveAt(@, i), !.handed = [@ EXCEPT ![e.n] = @ \cup {st.waiters[i]}]]

Dispatch(events) ==
    LET end == FoldLeft(Step, [waiters |-> waiters, pending |-> pending, handed |-> handed], events)
    IN waiters' = end.waiters /\ pending' = end.pending /\ handed' = end.handed

\* The condition of the pump's loop.
Loop(ws, shut) == IF ~shut /\ ws # <<>> THEN IF HasSocket THEN "socket" ELSE "poll" ELSE "ended"

\* waitForEvent: a pending event at once, or a waiter and a pump that runs.
TakePending(c, k) ==
    LET fit == {i \in DOMAIN pending : k \in {AnyKind, pending[i].kind}}
        i == CHOOSE j \in fit : \A l \in fit : j <= l
    IN /\ fit # {}
       /\ pending' = RemoveAt(pending, i)
       /\ handed' = [handed EXCEPT ![pending[i].n] = @ \cup {c}]
       /\ UNCHANGED <<waiters, wants, pump>>

EnsureEventPump(ws) == IF pump = "none" THEN Loop(ws, closed) ELSE pump

WaitForEvent(c, k) ==
    /\ ~Waiting(c) /\ waits < MaxWaits
    /\ waits' = waits + 1
    /\ \/ TakePending(c, k)
       \/ /\ \A i \in DOMAIN pending : k \notin {AnyKind, pending[i].kind}
          /\ ~closed
          /\ waiters' = Append(waiters, c)
          /\ wants' = [wants EXCEPT ![c] = k]
          /\ pump' = EnsureEventPump(waiters')
          /\ UNCHANGED <<pending, handed>>
    /\ UNCHANGED <<closed, incoming, arrived>>

\* The timer or the signal of a waiter; streamEvents waits again.
GivesUp(c) ==
    /\ Waiting(c)
    /\ waiters' = Dropped(waiters, c)
    /\ UNCHANGED <<wants, pending, pump, closed, incoming, arrived, waits, handed>>

-----------------------------------------------------------------------------
PumpSocket ==
    /\ pump = "socket" /\ incoming # <<>>
    /\ Dispatch(<<Head(incoming)>>)
    /\ incoming' = Tail(incoming)
    /\ pump' = Loop(waiters', closed)
    /\ UNCHANGED <<wants, closed, arrived, waits>>

\* A timeout of nextSocketEvent, or the pause after a socket that closed.
PumpAgain ==
    /\ pump \in {"socket", "pause"}
    /\ pump' = Loop(waiters, closed)
    /\ UNCHANGED <<waiters, wants, pending, closed, incoming, arrived, waits, handed>>

SocketFails(to) ==
    /\ pump = "socket"
    /\ pump' = to
    /\ UNCHANGED <<waiters, wants, pending, closed, incoming, arrived, waits, handed>>

PumpPoll ==
    /\ pump = "poll"
    /\ Dispatch(incoming)
    /\ incoming' = <<>>
    /\ pump' = Loop(waiters', closed)
    /\ UNCHANGED <<wants, closed, arrived, waits>>

\* poll() fails: everyone who waits is told.
PumpFails ==
    /\ pump = "poll"
    /\ waiters' = <<>> /\ pump' = "ended"
    /\ UNCHANGED <<wants, pending, closed, incoming, arrived, waits, handed>>

PumpSettles ==
    /\ pump = "ended"
    /\ pump' = IF ~closed /\ waiters # <<>> THEN Loop(waiters, closed) ELSE "none"
    /\ UNCHANGED <<waiters, wants, pending, closed, incoming, arrived, waits, handed>>

Close ==
    /\ ~closed
    /\ closed' = TRUE /\ waiters' = <<>>
    /\ UNCHANGED <<wants, pending, pump, incoming, arrived, waits, handed>>

LocalNext ==
    \/ \E k \in Kinds : Arrive(k)
    \/ \E c \in Callers : GivesUp(c) \/ \E k \in Kinds \cup {AnyKind} : WaitForEvent(c, k)
    \/ PumpSocket \/ PumpAgain \/ SocketFails("poll") \/ SocketFails("pause")
    \/ PumpPoll \/ PumpFails \/ PumpSettles \/ Close

LocalSpec == LocalInit /\ [][LocalNext]_localVars

-----------------------------------------------------------------------------
\* The shape of the local node's state.
LocalTypeOK ==
    /\ pump \in {"none", "socket", "poll", "pause", "ended"}
    /\ Len(waiters) <= Cardinality(Callers) /\ Len(pending) <= arrived
    /\ \A c \in Callers : wants[c] \in Kinds \cup {AnyKind}

Held(s, n) == Cardinality({i \in DOMAIN s : s[i].n = n})

\* However callers come, give up and close while the pump waits: whoever waits
\* has a pump that reads for them and no event kept that they would take; each
\* event is in one place, or was handed to one caller.
EventsFindTheirCaller ==
    /\ waiters # <<>> => ~closed /\ pump # "none"
    /\ \A i \in DOMAIN waiters, j \in DOMAIN pending : ~Matches(waiters[i], pending[j])
    /\ \A n \in 1..arrived : Held(incoming, n) + Held(pending, n) + Cardinality(handed[n]) = 1
=============================================================================
