----------------------- MODULE BoundedAdmissionQueue -----------------------
(***************************************************************************)
(* network/admission/bounded-queue.js: the admission queue that bounds how *)
(* many tasks a node runs at once and how many callers may wait for a      *)
(* slot.  Each element of Calls is one call of run(task).                  *)
(*                                                                         *)
(* The queue lives on one JavaScript event loop: a call's code runs        *)
(* without interruption between two awaits.  A caller parked on            *)
(* `await new Promise(...)` whose promise has been resolved does not run   *)
(* at once: its continuation is a microtask, and continuations that were   *)
(* queued before it run first.  Those callers are in the sequence waking,  *)
(* in the order in which their continuations will run.                     *)
(***************************************************************************)
EXTENDS Naturals, Sequences, FiniteSets

CONSTANTS
    Calls,          \* the calls of run()
    MaxInFlight,    \* this.maxInFlight
    MaxQueued       \* this.maxQueued

ASSUME BoundsAssumption ==
    /\ IsFiniteSet(Calls)
    /\ MaxInFlight \in Nat \ {0}
    /\ MaxQueued \in Nat

VARIABLES
    pc,         \* where each call of run() stands
    inFlight,   \* this.inFlight
    queue,      \* this.queue: the parked calls, oldest first
    waking,     \* parked calls already resolved, in the order they will resume
    admitted,   \* this.admitted
    rejected,   \* this.rejected
    completed,  \* this.completed
    failed      \* this.failed

vars == <<pc, inFlight, queue, waking, admitted, rejected, completed, failed>>

Stages == {"idle", "queued", "waking", "running", "settled", "refused"}

Outcomes == {"completed", "failed"}     \* how task() settles

At(stage) == {c \in Calls : pc[c] = stage}

Init ==
    /\ pc = [c \in Calls |-> "idle"]
    /\ inFlight = 0
    /\ queue = <<>>
    /\ waking = <<>>
    /\ admitted = 0
    /\ rejected = 0
    /\ completed = 0
    /\ failed = 0

-----------------------------------------------------------------------------
\* Mutants of Finish: the finally block forgets to wake the next call; the
\* slot is given back in the catch block and again in the finally block.
FinishWithoutHandover(c, outcome) ==
    /\ pc[c] = "running"
    /\ inFlight' = inFlight - 1
    /\ completed' = IF outcome = "completed" THEN completed + 1 ELSE completed
    /\ failed' = IF outcome = "failed" THEN failed + 1 ELSE failed
    /\ pc' = [pc EXCEPT ![c] = "settled"]
    /\ UNCHANGED <<queue, waking, admitted, rejected>>

FinishReleasingTwice(c, outcome) ==
    /\ pc[c] = "running"
    /\ inFlight' = IF outcome = "failed" THEN inFlight - 2 ELSE inFlight - 1
    /\ completed' = IF outcome = "completed" THEN completed + 1 ELSE completed
    /\ failed' = IF outcome = "failed" THEN failed + 1 ELSE failed
    /\ pc' = [pc EXCEPT ![c] = "settled"]
    /\ UNCHANGED <<queue, waking, admitted, rejected>>

-----------------------------------------------------------------------------
\* run(): every slot is busy and the waiting line is full.
Reject(c) ==
    /\ pc[c] = "idle"
    /\ inFlight >= MaxInFlight
    /\ Len(queue) >= MaxQueued
    /\ pc' = [pc EXCEPT ![c] = "refused"]
    /\ rejected' = rejected + 1
    /\ UNCHANGED <<inFlight, queue, waking, admitted, completed, failed>>

\* run(): every slot is busy; park the call.
Enqueue(c) ==
    /\ pc[c] = "idle"
    /\ inFlight >= MaxInFlight
    /\ Len(queue) < MaxQueued
    /\ pc' = [pc EXCEPT ![c] = "queued"]
    /\ queue' = Append(queue, c)
    /\ admitted' = admitted + 1
    /\ UNCHANGED <<inFlight, waking, rejected, completed, failed>>

\* run(): a slot is free; the call takes it without ever awaiting.
Start(c) ==
    /\ pc[c] = "idle"
    /\ inFlight < MaxInFlight
    /\ pc' = [pc EXCEPT ![c] = "running"]
    /\ inFlight' = inFlight + 1
    /\ admitted' = admitted + 1
    /\ UNCHANGED <<queue, waking, rejected, completed, failed>>

\* The continuation of the call resolved first runs: it takes a slot
\* without looking at inFlight again.
Resume ==
    /\ waking # <<>>
    /\ pc' = [pc EXCEPT ![Head(waking)] = "running"]
    /\ inFlight' = inFlight + 1
    /\ waking' = Tail(waking)
    /\ UNCHANGED <<queue, admitted, rejected, completed, failed>>

\* task() settles: count the outcome, give the slot back and resolve the
\* oldest parked call, if there is one.
Finish(c, outcome) ==
    /\ pc[c] = "running"
    /\ inFlight' = inFlight - 1
    /\ completed' = IF outcome = "completed" THEN completed + 1 ELSE completed
    /\ failed' = IF outcome = "failed" THEN failed + 1 ELSE failed
    /\ IF queue = <<>>
         THEN /\ pc' = [pc EXCEPT ![c] = "settled"]
              /\ UNCHANGED <<queue, waking>>
         ELSE /\ pc' = [pc EXCEPT ![c] = "settled", ![Head(queue)] = "waking"]
              /\ queue' = Tail(queue)
              /\ waking' = Append(waking, Head(queue))
    /\ UNCHANGED <<admitted, rejected>>

Next ==
    \/ Resume
    \/ \E c \in Calls :
        \/ Reject(c)
        \/ Enqueue(c)
        \/ Start(c)
        \/ \E outcome \in Outcomes : Finish(c, outcome)

Spec == Init /\ [][Next]_vars

\* Promise continuations always run, and every task settles.
Fairness ==
    /\ WF_vars(Resume)
    /\ \A c \in Calls : WF_vars(\E outcome \in Outcomes : Finish(c, outcome))

FairSpec == Spec /\ Fairness

-----------------------------------------------------------------------------
\* Every variable has its type.
TypeOK ==
    /\ pc \in [Calls -> Stages]
    /\ inFlight \in Nat
    /\ queue \in Seq(Calls)
    /\ waking \in Seq(Calls)
    /\ admitted \in Nat
    /\ rejected \in Nat
    /\ completed \in Nat
    /\ failed \in Nat

\* A sequence of calls lists exactly the calls of one stage, each once.
Lists(seq, stage) ==
    /\ \A i \in 1..Len(seq) : pc[seq[i]] = stage
    /\ \A i, j \in 1..Len(seq) : seq[i] = seq[j] => i = j
    /\ \A c \in At(stage) : \E i \in 1..Len(seq) : seq[i] = c

\* A call is in the waiting line exactly while it is parked, and in the list
\* of woken calls exactly while its continuation is pending.
ParkedOnce == Lists(queue, "queued") /\ Lists(waking, "waking")

\* No call waits in line while a slot is idle that nobody is about to take:
\* the woken calls that have not resumed yet account for every idle slot.
\* It is what makes the hand-over in the finally block sufficient.
WorkConserving == queue # <<>> => inFlight + Len(waking) >= MaxInFlight

\* "explicit accept-or-backpressure accounting with zero silent loss": every
\* admitted call is running, parked, woken or counted as settled, every call
\* that left is counted once, and inFlight is the number of running tasks.
ZeroSilentLoss ==
    /\ admitted = inFlight + Len(queue) + Len(waking) + Cardinality(At("settled"))
    /\ inFlight = Cardinality(At("running"))
    /\ completed + failed = Cardinality(At("settled"))
    /\ rejected = Cardinality(At("refused"))

\* A parked call always gets its turn: it is never forgotten in the line,
\* however calls that start meanwhile interleave with it.
ParkedCallSettles(c) == pc[c] = "queued" ~> pc[c] = "settled"

\* "queued/excess work must not run early": never more than maxInFlight tasks
\* at once.
InFlightBounded == inFlight <= MaxInFlight

\* The inductive invariant: the types, the agreement between the two sequences
\* and the stages of the calls, work conservation and the accounting.
IInv == TypeOK /\ ParkedOnce /\ WorkConserving /\ ZeroSilentLoss
=============================================================================
