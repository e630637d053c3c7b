---------------------------- MODULE AdapterHost ----------------------------
(***************************************************************************)
(* adapters/sdk/index.js TruynAdapterHost, run by the provider loop of     *)
(* runtime/service.js: NEEDs come from the relay, at most MaxConcurrent    *)
(* execute at a time, MaxPending wait, a REVOKE cancels, stop() aborts and *)
(* drains within a time limit, and start() resumes what stop() preserved.  *)
(* With an effect ledger the intent to execute is committed before any     *)
(* external call; the ledger and the relay outlive the process.            *)
(*                                                                         *)
(* An execution <<n, k>> is one executeNeed() of NEED n; k tells it from   *)
(* the executions of n that outlived a stop().  Its steps are the          *)
(* stretches between two awaits.  A chain stage uses no ledger and runs as *)
(* a NEED does when Ledger = FALSE.                                        *)
(***************************************************************************)
EXTENDS Naturals, Sequences, FiniteSets, SequencesExt, TLAPS

CONSTANTS
    Needs,
    Ledger,         \* an effect ledger is configured
    Paid,           \* requirePaidNeedLedger
    Senders,        \* who signs a REVOKE: "requester", "stranger"
    MaxConcurrent,  \* maxConcurrentExecutions
    MaxPending,     \* maxPendingExecutions
    MaxTombstones,  \* maxCancellationTombstones
    MaxDeliveries,  \* bound on the deliveries of a NEED that schedule it
    MaxRetries,     \* bound on the stop() calls of the retry loop
    MaxRestarts,    \* bound on restarts of the process
    MaxFaults       \* bound on ledger calls that fail

HostAssumption ==
    /\ Ledger \in BOOLEAN
    /\ Paid \in BOOLEAN /\ (Paid => Ledger)
    /\ Senders \subseteq {"requester", "stranger"}
    /\ {MaxConcurrent, MaxTombstones, MaxDeliveries} \subseteq Nat \ {0}
    /\ {MaxPending, MaxRetries, MaxRestarts, MaxFaults} \subseteq Nat

VARIABLES
    running, loop,              \* this.running and the state of this.loopPromise
    inFlight, pending,          \* this.inFlight and this.pendingNeeds, in order
    cancelled,                  \* this.cancelledNeedIds, oldest first
    pc, aborted, billing,       \* each execution: step, signal, reservation
    supervisor,                 \* where runProvider()'s loop stands
    stop, interrupted,          \* the two stop() calls and their executionStates
    effect,                     \* the durable effect of each NEED
    executed, answered, unsettled,  \* history, see below
    deliveries, retries, restarts, faults

hostVars == <<running, loop, inFlight, pending, cancelled>>
runVars == <<pc, aborted, billing>>
serviceVars == <<supervisor, stop, interrupted>>
history == <<executed, answered, unsettled>>
bounds == <<deliveries, retries, restarts, faults>>
vars == <<hostVars, runVars, serviceVars, effect, history, bounds>>

\* Every stop() leaves at most one execution of a NEED behind.
Executions == Needs \X (1..(MaxRetries + 2))

Steps == {"access", "begin", "billing", "deny", "abandon", "release", "context",
          "verify", "execute", "finish", "settle", "answer", "catch", "refuse"}

Live(r) == pc[r] \in Steps

Callers == {"retry", "shutdown"}

Init ==
    /\ running = FALSE
    /\ loop = "none"
    /\ inFlight = <<>>
    /\ pending = <<>>
    /\ cancelled = <<>>
    /\ pc = [r \in Executions |-> "idle"]
    /\ aborted = [r \in Executions |-> FALSE]
    /\ billing = [r \in Executions |-> "none"]
    /\ supervisor = "start"
    /\ stop = [c \in Callers |-> "no"]
    /\ interrupted = [c \in Callers |-> <<>>]
    /\ effect = [n \in Needs |-> "none"]
    /\ executed = [n \in Needs |-> 0]      \* calls of adapter.execute()
    /\ answered = {}                       \* NEEDs whose RESULT the relay took
    /\ unsettled = {}                      \* reservations an execution left behind
    /\ deliveries = [n \in Needs |-> 0]
    /\ retries = 0
    /\ restarts = 0
    /\ faults = 0

\* The RESULT of n was taken, and its adapter called (Invoke): history that is
\* kept where there is a ledger, which alone promises something about it.
Taken(n) == IF Ledger THEN answered \cup {n} ELSE answered

InFlight(n) == \E r \in ToSet(inFlight) : r[1] = n

\* A REVOKE by the requester of n is remembered.
Cancelled(n) == \E i \in 1..Len(cancelled) :
    cancelled[i].need = n /\ cancelled[i].from = "requester"

-----------------------------------------------------------------------------
\* The executions of n that are over and that no stop() holds on to.
Free(n, at) ==
    {k \in 1..(MaxRetries + 2) :
        at[<<n, k>>] = "idle" /\ \A c \in Callers : <<n, k>> \notin ToSet(interrupted[c])}

\* startNeed() for each NEED of `needs`, when the executions stand at `at`
\* and `flying` are in flight.
StartNeeds(needs, at, flying) ==
    LET started == [i \in 1..Len(needs) |-> <<needs[i], CHOOSE k \in Free(needs[i], at) : TRUE>>]
    IN  /\ \A i \in 1..Len(needs) : Free(needs[i], at) # {}    \* bound
        /\ pc' = [r \in Executions |-> IF r \in ToSet(started) THEN "access" ELSE at[r]]
        /\ inFlight' = flying \o started

\* drainPendingNeeds(): take waiting NEEDs while there is room, drop those
\* cancelled, start the others.
DrainPendingNeeds(on, at, flying) ==
    LET wanted(k) == SelectSeq(SubSeq(pending, 1, k), LAMBDA n : ~Cancelled(n))
        room == MaxConcurrent - Len(flying)
        taken == IF ~on \/ Len(flying) >= MaxConcurrent THEN 0
                 ELSE CHOOSE k \in 0..Len(pending) :
                        /\ k = Len(pending) \/ Len(wanted(k)) = room
                        /\ k = 0 \/ Len(wanted(k - 1)) < room
    IN  /\ pending' = SubSeq(pending, taken + 1, Len(pending))
        /\ StartNeeds(wanted(taken), at, flying)

\* executeNeed() of r is over with its reservation at b: finally() of
\* startNeed() frees its place, if it still has one, and drains.
End(r, b) ==
    /\ billing' = [billing EXCEPT ![r] = "none"]
    /\ aborted' = [aborted EXCEPT ![r] = FALSE]
    /\ unsettled' = IF b = "reserved" THEN unsettled \cup {r[1]} ELSE unsettled
    /\ DrainPendingNeeds(running, [pc EXCEPT ![r] = "idle"], SelectSeq(inFlight, LAMBDA x : x # r))

\* executeNeed() of r goes on at the given step.
Goto(r, step, b) ==
    /\ pc' = [pc EXCEPT ![r] = step]
    /\ billing' = [billing EXCEPT ![r] = b]
    /\ UNCHANGED <<unsettled, inFlight, pending, aborted>>

\* What no step of an execution touches.
Others == UNCHANGED <<running, loop, cancelled, serviceVars, deliveries, retries, restarts>>

\* settleBilling(): finalize the reservation, if there is one; errors are kept.
Settled(r) == IF billing[r] = "reserved" THEN "settled" ELSE billing[r]

\* finishEffect(): a started effect gets its outcome, any other keeps it.
FinishEffect(n, outcome) ==
    effect' = [effect EXCEPT ![n] = IF @ = "started" THEN outcome ELSE @]

\* A ledger call that fails, before or after it took effect.
LedgerFault(n, outcome) ==
    /\ faults < MaxFaults
    /\ faults' = faults + 1
    /\ FinishEffect(n, outcome) \/ UNCHANGED effect

\* A refusal goes out unless the NEED was cancelled meanwhile.
RefuseUnlessAborted(r) ==
    IF aborted[r] THEN End(r, billing[r]) ELSE Goto(r, "refuse", billing[r])

-----------------------------------------------------------------------------
\* accessPolicy.authorize() and, for paid NEEDs, the first verification.
Access(r, ok) ==
    /\ pc[r] = "access"
    /\ IF ok THEN Goto(r, IF Ledger THEN "begin" ELSE "billing", billing[r])
             ELSE RefuseUnlessAborted(r)
    /\ Others
    /\ UNCHANGED <<effect, executed, answered, faults>>

\* beginEffect(): commit the intent, or leave the NEED to whoever did.
BeginEffect(r) ==
    /\ pc[r] = "begin"
    /\ Others
    /\ UNCHANGED <<executed, answered>>
    /\ \/ /\ effect[r[1]] = "none"
          /\ effect' = [effect EXCEPT ![r[1]] = "started"]
          /\ Goto(r, "billing", billing[r])
          /\ UNCHANGED faults
       \/ /\ effect[r[1]] # "none"
          /\ End(r, billing[r])
          /\ UNCHANGED <<effect, faults>>
       \/ /\ faults < MaxFaults
          /\ faults' = faults + 1
          /\ effect' \in {effect, [effect EXCEPT ![r[1]] = IF @ = "none" THEN "started" ELSE @]}
          /\ End(r, billing[r])

\* billingPolicy.authorize(): authorized with or without a reservation to
\* finalize, denied, or the call throws.
Authorize(r) ==
    /\ pc[r] = "billing"
    /\ Others
    /\ UNCHANGED <<effect, executed, answered, faults>>
    /\ \/ \E b \in {"none", "reserved"} :
            Goto(r, IF ~aborted[r] THEN "context" ELSE IF Ledger THEN "abandon" ELSE "release", b)
       \/ IF Ledger THEN Goto(r, "deny", billing[r]) ELSE RefuseUnlessAborted(r)
       \/ End(r, billing[r])

\* Billing was denied: the effect failed, nothing was executed.
Deny(r) ==
    /\ pc[r] = "deny"
    /\ Others
    /\ UNCHANGED <<executed, answered>>
    /\ \/ FinishEffect(r[1], "failed") /\ RefuseUnlessAborted(r) /\ UNCHANGED faults
       \/ LedgerFault(r[1], "failed") /\ End(r, billing[r])

\* Cancelled while billing was authorized: the effect is left unknown.
Abandon(r) ==
    /\ pc[r] = "abandon"
    /\ Others
    /\ UNCHANGED <<executed, answered>>
    /\ \/ FinishEffect(r[1], "unknown") /\ Goto(r, "release", billing[r]) /\ UNCHANGED faults
       \/ LedgerFault(r[1], "unknown") /\ End(r, billing[r])

\* settleBilling() of a cancelled execution, which then returns.
Release(r) ==
    /\ pc[r] = "release"
    /\ End(r, Settled(r))
    /\ Others
    /\ UNCHANGED <<effect, executed, answered, faults>>

\* adapter.execute() is called.
Invoke(r) ==
    /\ Goto(r, "execute", billing[r])
    /\ executed' = IF Ledger THEN [executed EXCEPT ![r[1]] = @ + 1] ELSE executed

\* materializeContextRefs(): it may throw, or find the NEED cancelled.
Context(r) ==
    /\ pc[r] = "context"
    /\ Others
    /\ UNCHANGED <<effect, answered, faults>>
    /\ \/ Goto(r, "catch", billing[r]) /\ UNCHANGED executed
       \/ aborted[r] /\ Goto(r, "release", billing[r]) /\ UNCHANGED executed
       \/ ~aborted[r] /\ Paid /\ Goto(r, "verify", billing[r]) /\ UNCHANGED executed
       \/ ~aborted[r] /\ ~Paid /\ Invoke(r)

\* The second verification of a paid NEED; a REVOKE may come during it.
Verify(r, ok) ==
    /\ pc[r] = "verify"
    /\ IF ok THEN Invoke(r) ELSE Goto(r, "catch", billing[r]) /\ UNCHANGED executed
    /\ Others
    /\ UNCHANGED <<effect, answered, faults>>

\* Where an execution goes when the adapter has returned and the effect is
\* recorded.
AfterExecute(r) == IF aborted[r] THEN "release" ELSE "settle"

\* adapter.execute() returns or throws, at any time or never.
ExecuteEnds(r, ok) ==
    /\ pc[r] = "execute"
    /\ Goto(r, IF ~ok THEN "catch" ELSE IF Ledger THEN "finish" ELSE AfterExecute(r), billing[r])
    /\ Others
    /\ UNCHANGED <<effect, executed, answered, faults>>

\* The effect is completed before anything can fail downstream.
Finish(r) ==
    /\ pc[r] = "finish"
    /\ Others
    /\ UNCHANGED <<executed, answered>>
    /\ \/ FinishEffect(r[1], "completed") /\ Goto(r, AfterExecute(r), billing[r]) /\ UNCHANGED faults
       \/ LedgerFault(r[1], "completed") /\ Goto(r, "catch", billing[r])

\* settleBilling() of a completed execution.
Settle(r) ==
    /\ pc[r] = "settle"
    /\ IF aborted[r] THEN End(r, Settled(r)) ELSE Goto(r, "answer", Settled(r))
    /\ Others
    /\ UNCHANGED <<effect, executed, answered, faults>>

\* sendTerminal() of the RESULT; the call may throw, before or after the relay
\* took it.
Answer(r) ==
    /\ pc[r] = "answer"
    /\ \/ answered' = Taken(r[1]) /\ End(r, billing[r])
       \/ answered' \in {answered, Taken(r[1])} /\ Goto(r, "catch", billing[r])
    /\ Others
    /\ UNCHANGED <<effect, executed, faults>>

\* Mutant: an execution that threw is recorded as failed.
CatchAsFailed(r) ==
    /\ pc[r] = "catch"
    /\ FinishEffect(r[1], "failed")
    /\ End(r, billing[r])
    /\ Others
    /\ UNCHANGED <<executed, answered, faults>>

\* catch: with a ledger the effect is left unknown, the reservation and the
\* requester to reconciliation; without one, settle and refuse.
Catch(r) ==
    /\ pc[r] = "catch"
    /\ Others
    /\ UNCHANGED <<executed, answered>>
    /\ \/ Ledger /\ End(r, billing[r]) /\ FinishEffect(r[1], "unknown") /\ UNCHANGED faults
       \/ Ledger /\ End(r, billing[r]) /\ LedgerFault(r[1], "unknown")
       \/ /\ ~Ledger
          /\ UNCHANGED <<effect, faults>>
          /\ IF aborted[r] THEN End(r, Settled(r)) ELSE Goto(r, "refuse", Settled(r))

\* sendTerminal() of a failure, taken by the relay or not.
Refuse(r) ==
    /\ pc[r] = "refuse"
    /\ End(r, billing[r])
    /\ Others
    /\ UNCHANGED <<effect, executed, answered, faults>>

-----------------------------------------------------------------------------
\* scheduleNeed() of a NEED the loop polled, running or not: start it, let it
\* wait, or refuse it as busy.  What is in flight, waiting or cancelled is
\* not scheduled again.
ScheduleNeed(n) ==
    /\ loop = "polling"
    /\ ~InFlight(n)
    /\ n \notin ToSet(pending)
    /\ ~Cancelled(n)
    /\ deliveries[n] < MaxDeliveries
    /\ deliveries' = [deliveries EXCEPT ![n] = @ + 1]
    /\ IF Len(inFlight) < MaxConcurrent
       THEN StartNeeds(<<n>>, pc, inFlight) /\ UNCHANGED pending
       ELSE /\ pending' = IF Len(pending) < MaxPending THEN Append(pending, n) ELSE pending
            /\ UNCHANGED <<pc, inFlight>>
    /\ UNCHANGED <<running, loop, cancelled, aborted, billing, serviceVars, effect, history,
                   retries, restarts, faults>>

\* rememberCancellation(): the newest at the end, the oldest dropped.
RememberCancellation(n, from) ==
    LET kept == SelectSeq(cancelled, LAMBDA t : t.need # n)
        all == Append(kept, [need |-> n, from |-> from])
    IN  cancelled' = SubSeq(all, IF Len(all) > MaxTombstones THEN 2 ELSE 1, Len(all))

\* Mutant: a REVOKE of a waiting NEED is only remembered.
RevokeKeepsPending(n, from) ==
    /\ loop = "polling"
    /\ RememberCancellation(n, from)
    /\ UNCHANGED <<running, loop, pc, inFlight, billing, serviceVars, effect, history,
                   bounds, pending, aborted>>

\* A polled REVOKE of n: remember it, drop n if it waits, else abort its
\* execution.  Only the requester's counts.
Revoke(n, from) ==
    /\ loop = "polling"
    /\ RememberCancellation(n, from)
    /\ LET own == from = "requester"
           waits == n \in ToSet(pending)
       IN  /\ pending' = IF own THEN SelectSeq(pending, LAMBDA m : m # n) ELSE pending
           /\ aborted' = [r \in Executions |->
                aborted[r] \/ (own /\ ~waits /\ r[1] = n /\ r \in ToSet(inFlight))]
    /\ UNCHANGED <<running, loop, pc, inFlight, billing, serviceVars, effect, history, bounds>>

\* The poll fails for good, or returns after running was cleared.
LoopEnds(failed) ==
    /\ loop = "polling"
    /\ failed = running
    /\ loop' = "ended"
    /\ running' = FALSE
    /\ UNCHANGED <<inFlight, pending, cancelled, runVars, serviceVars, effect, history, bounds>>

-----------------------------------------------------------------------------
\* stop() until its first await: abort what is in flight, drop what waits
\* unless it is to be preserved.
StopBegins(c) ==
    /\ running' = FALSE
    /\ interrupted' = [interrupted EXCEPT ![c] = inFlight]
    /\ aborted' = [r \in Executions |-> aborted[r] \/ r \in ToSet(inFlight)]
    /\ pending' = IF c = "retry" THEN pending ELSE <<>>
    /\ stop' = [stop EXCEPT ![c] = IF loop = "polling" THEN "loops" ELSE "drain"]

\* The loop that stop() waits for has ended.
StopDrains(c) ==
    /\ stop[c] = "loops"
    /\ loop # "polling"
    /\ stop' = [stop EXCEPT ![c] = "drain"]
    /\ UNCHANGED <<hostVars, runVars, supervisor, interrupted, effect, history, bounds>>

\* Has settleWithin() settled: every interrupted execution has ended.
Drained(c) == \A r \in ToSet(interrupted[c]) : ~Live(r)

\* The NEEDs that stop({ preserveDequeuedWork: true }) queues again.
Preserved(c, flying) ==
    LET needs == [i \in 1..Len(interrupted[c]) |-> interrupted[c][i][1]]
    IN  SelectSeq(needs, LAMBDA n :
            /\ ~Cancelled(n)
            /\ n \notin ToSet(pending)
            /\ \A r \in ToSet(flying) : r[1] # n)

\* Mutant: stop() waits for the executions however long they take.
StopReturnsDrained(c, drained) ==
    /\ drained
    /\ stop[c] = "drain"
    /\ Drained(c)
    /\ pending' = IF c = "retry" THEN pending \o Preserved(c, inFlight) ELSE pending
    /\ interrupted' = [interrupted EXCEPT ![c] = <<>>]
    /\ IF c = "retry"
       THEN /\ stop' = [stop EXCEPT ![c] = "no"]
            /\ supervisor' = "sleep"
            /\ loop' = "none"
       ELSE /\ stop' = [stop EXCEPT ![c] = "done"]
            /\ UNCHANGED <<supervisor, loop>>
    /\ UNCHANGED <<inFlight, running, cancelled, runVars, effect, history, bounds>>

\* stop() returns: executions that outlive the time limit lose their place.
StopReturns(c, drained) ==
    /\ stop[c] = "drain"
    /\ drained => Drained(c)
    /\ LET flying == IF drained THEN inFlight
                     ELSE SelectSeq(inFlight, LAMBDA r : r \notin ToSet(interrupted[c]))
       IN  /\ inFlight' = flying
           /\ pending' = IF c = "retry" THEN pending \o Preserved(c, flying) ELSE pending
    /\ interrupted' = [interrupted EXCEPT ![c] = <<>>]
    /\ IF c = "retry"
       THEN /\ stop' = [stop EXCEPT ![c] = "no"]
            /\ supervisor' = "sleep"
            /\ loop' = "none"
       ELSE /\ stop' = [stop EXCEPT ![c] = "done"]
            /\ UNCHANGED <<supervisor, loop>>
    /\ UNCHANGED <<running, cancelled, runVars, effect, history, bounds>>

-----------------------------------------------------------------------------
\* runProvider()'s catch: leave when shutting down, else stop and try again.
Retry ==
    IF stop["shutdown"] # "no"
    THEN /\ supervisor' = "done"
         /\ UNCHANGED <<running, pending, aborted, stop, interrupted, retries>>
    ELSE /\ retries < MaxRetries
         /\ retries' = retries + 1
         /\ supervisor' = "stop"
         /\ StopBegins("retry")

\* start() after publishCapabilities(): resume what waits and poll.
Start ==
    /\ supervisor = "start"
    /\ running' = TRUE
    /\ loop' = "polling"
    /\ supervisor' = "race"
    /\ DrainPendingNeeds(TRUE, pc, inFlight)
    /\ UNCHANGED <<cancelled, aborted, billing, stop, interrupted, effect, history, bounds>>

\* publishCapabilities() throws.
StartFails ==
    /\ supervisor = "start"
    /\ Retry
    /\ UNCHANGED <<loop, inFlight, cancelled, pc, billing, effect, history,
                   deliveries, restarts, faults>>

\* The loop's promise settles.
RaceOver ==
    /\ supervisor = "race"
    /\ loop = "ended"
    /\ Retry
    /\ UNCHANGED <<loop, inFlight, cancelled, pc, billing, effect, history,
                   deliveries, restarts, faults>>

\* The pause before the next attempt is over.
Wake ==
    /\ supervisor = "sleep"
    /\ supervisor' = IF stop["shutdown"] = "no" THEN "start" ELSE "done"
    /\ UNCHANGED <<hostVars, runVars, stop, interrupted, effect, history, bounds>>

\* SIGTERM or SIGINT.
Shutdown ==
    /\ stop["shutdown"] = "no"
    /\ StopBegins("shutdown")
    /\ UNCHANGED <<loop, inFlight, cancelled, pc, billing, supervisor, effect, history, bounds>>

\* The process is gone, with all that it held in memory.
Gone ==
    /\ running' = FALSE
    /\ loop' = "none"
    /\ inFlight' = <<>>
    /\ pending' = <<>>
    /\ cancelled' = <<>>
    /\ pc' = [r \in Executions |-> "idle"]
    /\ aborted' = [r \in Executions |-> FALSE]
    /\ billing' = [r \in Executions |-> "none"]
    /\ interrupted' = [c \in Callers |-> <<>>]
    /\ UNCHANGED <<effect, history>>

\* shutdown() after `await loop`: process.exit().
Exit ==
    /\ stop["shutdown"] = "done"
    /\ supervisor = "done"
    /\ stop' = [stop EXCEPT !["shutdown"] = "exited"]
    /\ Gone
    /\ UNCHANGED <<supervisor, bounds>>

\* The process is killed, or has exited, and starts again.
Restart ==
    /\ restarts < MaxRestarts
    /\ restarts' = restarts + 1
    /\ supervisor' = "start"
    /\ stop' = [c \in Callers |-> "no"]
    /\ Gone
    /\ UNCHANGED <<deliveries, retries, faults>>

-----------------------------------------------------------------------------
Execute(r) ==
    \/ \E ok \in BOOLEAN : Access(r, ok) \/ Verify(r, ok) \/ ExecuteEnds(r, ok)
    \/ BeginEffect(r) \/ Authorize(r) \/ Deny(r) \/ Abandon(r) \/ Release(r) \/ Context(r)
    \/ Finish(r) \/ Settle(r) \/ Answer(r) \/ Catch(r) \/ Refuse(r)

Next ==
    \/ \E r \in Executions : Execute(r)
    \/ \E n \in Needs : ScheduleNeed(n) \/ \E from \in Senders : Revoke(n, from)
    \/ \E failed \in BOOLEAN : LoopEnds(failed)
    \/ \E c \in Callers : StopDrains(c) \/ \E drained \in BOOLEAN : StopReturns(c, drained)
    \/ Start \/ StartFails \/ RaceOver \/ Wake \/ Shutdown \/ Exit \/ Restart

Spec == Init /\ [][Next]_vars

\* A poll returns (the relay answers within the long-poll time) and the timer
\* of settleWithin() fires.  Nothing is assumed of the adapter.
Fairness ==
    /\ WF_vars(LoopEnds(FALSE))
    /\ \A c \in Callers :
        /\ WF_vars(StopDrains(c))
        /\ WF_vars(\E drained \in BOOLEAN : StopReturns(c, drained))

FairSpec == Spec /\ Fairness

-----------------------------------------------------------------------------
\* The part of the types that an execution and its ledger entry have.
ExecutionTypeOK ==
    /\ pc \in [Executions -> Steps \cup {"idle"}]
    /\ aborted \in [Executions -> BOOLEAN]
    /\ billing \in [Executions -> {"none", "reserved", "settled"}]
    /\ effect \in [Needs -> {"none", "started", "completed", "failed", "unknown"}]
    /\ executed \in [Needs -> Nat]
    /\ answered \in SUBSET Needs
    /\ unsettled \in SUBSET Needs

\* Every variable has its type.
TypeOK ==
    /\ ExecutionTypeOK
    /\ running \in BOOLEAN
    /\ loop \in {"none", "polling", "ended"}
    /\ inFlight \in Seq(Executions)
    /\ pending \in Seq(Needs)
    /\ cancelled \in Seq([need : Needs, from : Senders])
    /\ supervisor \in {"start", "race", "stop", "sleep", "done"}
    /\ stop \in [Callers -> {"no", "loops", "drain", "done", "exited"}]
    /\ interrupted \in [Callers -> Seq(Executions)]

\* "Reconnect/redelivery cannot silently execute the same paid work twice":
\* with a ledger the adapter is called at most once for a NEED, through
\* redelivery, cancellation, stop and restart, killed processes and ledger
\* calls whose answer is lost.
ExecutedAtMostOnce == Ledger => \A n \in Needs : executed[n] <= 1

\* The ledger tells the truth about the outside: what was executed is never
\* recorded as failed (which would invite a second try), what is recorded as
\* completed was executed, and what was answered is recorded as completed,
\* even when the answer was taken and its call failed.
EffectTellsTruth ==
    Ledger => \A n \in Needs :
        /\ executed[n] > 0 => effect[n] \in {"started", "completed", "unknown"}
        /\ effect[n] = "completed" => executed[n] > 0
        /\ n \in answered => effect[n] = "completed"

\* An execution that ends leaves its billing reservation unsettled only when
\* a ledger holds its effect for reconciliation.
ReservationsAccounted ==
    \A n \in unsettled : Ledger /\ effect[n] \in {"started", "completed", "unknown"}

\* While the requester's REVOKE is remembered, the NEED waits nowhere and
\* whatever still executes it has been told to abort.
CancelledWorkStops ==
    \A n \in Needs : Cancelled(n) =>
        /\ n \notin ToSet(pending)
        /\ \A r \in Executions : (r[1] = n /\ Live(r)) => aborted[r]

\* No NEED is held twice, and the work held stays within the two limits
\* together, although stop() queues interrupted NEEDs without looking.
HeldOnceAndBounded ==
    LET held == [i \in 1..Len(inFlight) |-> inFlight[i][1]] \o pending
    IN  /\ IsInjective(held)
        /\ Len(held) <= MaxConcurrent + MaxPending

\* stop() returns within its time limit whatever the adapter does
\* (tests/dx3-bounded-shutdown.test.js).
StopIsBounded ==
    \A c \in Callers : stop[c] \in {"loops", "drain"} ~> stop[c] \notin {"loops", "drain"}

-----------------------------------------------------------------------------
(***************************************************************************)
(* Proofs.  What the effect ledger promises rests on where an execution    *)
(* stands once the intent is committed: only one execution of a NEED is    *)
(* past beginEffect(), and its step tells the effect and whether the       *)
(* adapter was called.  A reservation is held only past billing.           *)
(***************************************************************************)

\* The steps that follow beginEffect() when there is a ledger.
PastBegin == {"billing", "deny", "abandon", "release", "context", "verify", "execute",
              "finish", "settle", "answer", "catch"}

\* One execution of a NEED at a time is past beginEffect().
OneIsPastBegin ==
    Ledger => \A r, x \in Executions :
        pc[r] \in PastBegin /\ pc[x] \in PastBegin /\ r[1] = x[1] => r = x

\* The step of an execution tells the effect, and whether the adapter ran.
StepTellsEffect(r) ==
    Ledger =>
        /\ pc[r] \in PastBegin => effect[r[1]] \notin {"none", "failed"}
        /\ pc[r] \in {"billing", "deny", "abandon", "context", "verify"}
                => effect[r[1]] = "started" /\ executed[r[1]] = 0
        /\ pc[r] \in {"execute", "finish"} => effect[r[1]] = "started" /\ executed[r[1]] = 1
        /\ pc[r] \in {"settle", "answer"} => effect[r[1]] = "completed"

\* The effect tells how often the adapter ran.
EffectTellsCalls(n) ==
    Ledger =>
        /\ executed[n] <= 1
        /\ effect[n] \in {"none", "failed"} => executed[n] = 0
        /\ effect[n] = "completed" => executed[n] = 1
        /\ n \in answered => effect[n] = "completed"

\* A reservation is held only between billing and its settlement, by an
\* execution that will settle it or leave it to the ledger.
ReservationHeld(r) ==
    /\ billing[r] = "reserved" =>
        pc[r] \in {"abandon", "release", "context", "verify", "execute", "finish", "settle", "catch"}
    /\ Ledger /\ pc[r] \in {"billing", "deny"} => r[1] \notin unsettled
    /\ ~Ledger => pc[r] \notin {"begin", "deny", "abandon", "finish"}

Accounted(n) == n \in unsettled => Ledger /\ effect[n] \in {"started", "completed", "unknown"}

EffectInv ==
    /\ ExecutionTypeOK
    /\ OneIsPastBegin
    /\ \A r \in Executions : StepTellsEffect(r) /\ ReservationHeld(r)
    /\ \A n \in Needs : EffectTellsCalls(n) /\ Accounted(n)

\* Execution r moves; others stay, or are started.
Moves(r) ==
    /\ pc' \in [Executions -> Steps \cup {"idle"}]
    /\ billing' \in [Executions -> {"none", "reserved", "settled"}]
    /\ aborted' \in [Executions -> BOOLEAN]
    /\ \A x \in Executions \ {r} :
        /\ pc'[x] = pc[x] \/ (pc[x] = "idle" /\ pc'[x] = "access")
        /\ billing'[x] = billing[x]

\* Only the NEED n is affected.
Affects(n) ==
    /\ effect' \in [Needs -> {"none", "started", "completed", "failed", "unknown"}]
    /\ executed' \in [Needs -> Nat]
    /\ answered' \in SUBSET Needs
    /\ unsettled' \in SUBSET Needs
    /\ \A m \in Needs \ {n} :
        /\ effect'[m] = effect[m]
        /\ executed'[m] = executed[m]
        /\ m \in answered' <=> m \in answered
        /\ m \in unsettled' <=> m \in unsettled

\* With a ledger, an execution that affects its NEED is past beginEffect(), or
\* begins the effect.
Owns(r) ==
    Ledger =>
        \/ pc[r] \in PastBegin
        \/ effect[r[1]] = "none"
        \/ /\ effect'[r[1]] = effect[r[1]]
           /\ executed'[r[1]] = executed[r[1]]
           /\ r[1] \in unsettled' <=> r[1] \in unsettled
           /\ pc'[r] \notin PastBegin

LEMMA NeedOfExecution == \A r \in Executions : r[1] \in Needs
BY DEF Executions

\* startNeed() moves idle executions to their first step and no other.
LEMMA StartMoves ==
    ASSUME NEW needs, NEW at \in [Executions -> Steps \cup {"idle"}], NEW flying,
           StartNeeds(needs, at, flying)
    PROVE  /\ pc' \in [Executions -> Steps \cup {"idle"}]
           /\ \A x \in Executions : pc'[x] = at[x] \/ (at[x] = "idle" /\ pc'[x] = "access")
<1> DEFINE started == [i \in 1..Len(needs) |-> <<needs[i], CHOOSE k \in Free(needs[i], at) : TRUE>>]
<1>1. ASSUME NEW x \in Executions, x \in ToSet(started)
      PROVE  at[x] = "idle"
  <2>1. PICK i \in 1..Len(needs) : x = <<needs[i], CHOOSE k \in Free(needs[i], at) : TRUE>>
    BY <1>1 DEF ToSet
  <2>2. \E k : k \in Free(needs[i], at)
    BY DEF StartNeeds
  <2>3. (CHOOSE k \in Free(needs[i], at) : TRUE) \in Free(needs[i], at)
    BY <2>2
  <2> QED
    BY <2>1, <2>3 DEF Free
<1>2. pc' = [r \in Executions |-> IF r \in ToSet(started) THEN "access" ELSE at[r]]
  BY DEF StartNeeds
<1> HIDE DEF started
<1> QED
  BY <1>1, <1>2 DEF Steps

\* drainPendingNeeds() too.
LEMMA DrainMoves ==
    ASSUME NEW on, NEW at \in [Executions -> Steps \cup {"idle"}], NEW flying,
           DrainPendingNeeds(on, at, flying)
    PROVE  /\ pc' \in [Executions -> Steps \cup {"idle"}]
           /\ \A x \in Executions : pc'[x] = at[x] \/ (at[x] = "idle" /\ pc'[x] = "access")
<1>1. PICK needs : StartNeeds(needs, at, flying)
  BY DEF DrainPendingNeeds
<1> QED
  BY <1>1, StartMoves

\* What a step to another stretch of executeNeed() changes.
LEMMA GotoMoves ==
    ASSUME NEW r \in Executions, NEW step \in Steps, NEW b \in {"none", "reserved", "settled"},
           ExecutionTypeOK, Goto(r, step, b)
    PROVE  /\ Moves(r)
           /\ pc'[r] = step /\ billing'[r] = b /\ unsettled' = unsettled
BY DEF Goto, Moves, ExecutionTypeOK

\* What the end of executeNeed() changes.
LEMMA EndMoves ==
    ASSUME NEW r \in Executions, NEW b, ExecutionTypeOK, End(r, b)
    PROVE  /\ Moves(r)
           /\ pc'[r] \in {"idle", "access"} /\ billing'[r] = "none"
           /\ unsettled' = IF b = "reserved" THEN unsettled \cup {r[1]} ELSE unsettled
<1> DEFINE at == [pc EXCEPT ![r] = "idle"]
<1>1. at \in [Executions -> Steps \cup {"idle"}]
  BY DEF ExecutionTypeOK
<1>2. PICK flying : DrainPendingNeeds(running, at, flying)
  BY DEF End
<1> HIDE DEF at
<1>3. /\ pc' \in [Executions -> Steps \cup {"idle"}]
      /\ \A x \in Executions : pc'[x] = at[x] \/ (at[x] = "idle" /\ pc'[x] = "access")
  BY <1>1, <1>2, DrainMoves
<1>4. /\ pc'[r] \in {"idle", "access"}
      /\ \A x \in Executions \ {r} : pc'[x] = pc[x] \/ (pc[x] = "idle" /\ pc'[x] = "access")
  BY <1>3 DEF at, ExecutionTypeOK
<1> QED
  BY <1>3, <1>4 DEF Moves, End, ExecutionTypeOK

\* A step of one execution keeps the invariant when it keeps it for this
\* execution and its NEED.
LEMMA StepKeeps ==
    ASSUME NEW r \in Executions, EffectInv, Moves(r), Affects(r[1]), Owns(r),
           StepTellsEffect(r)', ReservationHeld(r)', EffectTellsCalls(r[1])', Accounted(r[1])'
    PROVE  EffectInv'
<1>1. ExecutionTypeOK'
  BY DEF Moves, Affects, ExecutionTypeOK
<1>2. OneIsPastBegin'
  <2> SUFFICES ASSUME Ledger, NEW x \in Executions, NEW y \in Executions, x # y, x[1] = y[1],
                      pc'[x] \in PastBegin, pc'[y] \in PastBegin
               PROVE  FALSE
    BY DEF OneIsPastBegin
  <2>1. \A z \in Executions \ {r} : pc'[z] \in PastBegin => pc[z] \in PastBegin
    BY DEF Moves, PastBegin
  <2>2. \A z \in Executions : pc[z] \in PastBegin => effect[z[1]] # "none"
    BY DEF EffectInv, StepTellsEffect
  <2> QED
    BY <2>1, <2>2 DEF EffectInv, OneIsPastBegin, Owns
<1>3. ASSUME NEW x \in Executions PROVE StepTellsEffect(x)' /\ ReservationHeld(x)'
  <2>1. CASE x = r
    BY <2>1
  <2>2. CASE x # r /\ x[1] # r[1]
    <3>1. x[1] \in Needs
      BY NeedOfExecution
    <3>2. StepTellsEffect(x) /\ ReservationHeld(x)
      BY DEF EffectInv
    <3> QED
      BY <2>2, <3>1, <3>2 DEF Moves, Affects, StepTellsEffect, ReservationHeld, PastBegin
  <2>3. CASE x # r /\ x[1] = r[1]
    <3>1. StepTellsEffect(x) /\ ReservationHeld(x)
      BY DEF EffectInv
    <3>2. Ledger /\ pc[x] \in PastBegin => pc[r] \notin PastBegin /\ effect[r[1]] # "none"
      BY <2>3, <3>1 DEF EffectInv, OneIsPastBegin, StepTellsEffect
    <3> QED
      BY <2>3, <3>1, <3>2 DEF Moves, Owns, StepTellsEffect, ReservationHeld, PastBegin
  <2> QED
    BY <2>1, <2>2, <2>3
<1>4. ASSUME NEW n \in Needs PROVE EffectTellsCalls(n)' /\ Accounted(n)'
  BY DEF EffectInv, Affects, EffectTellsCalls, Accounted
<1> QED
  BY <1>1, <1>2, <1>3, <1>4 DEF EffectInv

\* Steps of an execution, one lemma for each.  Before billing it has no
\* effect and no reservation.
LEMMA AccessKeeps ==
    ASSUME NEW r \in Executions, NEW ok \in BOOLEAN, EffectInv, Access(r, ok), Ledger \in BOOLEAN
    PROVE  EffectInv'
<1>1. r[1] \in Needs /\ StepTellsEffect(r) /\ ReservationHeld(r) /\ EffectTellsCalls(r[1]) /\ Accounted(r[1])
  BY NeedOfExecution DEF EffectInv
<1>2. ExecutionTypeOK
  BY DEF EffectInv
<1>3. Moves(r) /\ Affects(r[1])
  BY SMTT(60), <1>1, <1>2, GotoMoves, EndMoves
  DEF Access, RefuseUnlessAborted, Affects, ExecutionTypeOK, Steps
<1>4. Owns(r)
  BY <1>1, <1>2, GotoMoves, EndMoves
  DEF Access, RefuseUnlessAborted, Owns, ReservationHeld, ExecutionTypeOK, Steps, PastBegin
<1>5. StepTellsEffect(r)' /\ EffectTellsCalls(r[1])'
  BY SMTT(60), <1>1, <1>2, GotoMoves, EndMoves
  DEF Access, RefuseUnlessAborted, StepTellsEffect, EffectTellsCalls, ExecutionTypeOK, Steps, PastBegin
<1>6. ReservationHeld(r)' /\ Accounted(r[1])'
  BY <1>1, <1>2, GotoMoves, EndMoves
  DEF Access, RefuseUnlessAborted, StepTellsEffect, ReservationHeld, Accounted, ExecutionTypeOK, Steps, PastBegin
<1> QED
  BY <1>3, <1>4, <1>5, <1>6, StepKeeps

LEMMA BeginEffectKeeps ==
    ASSUME NEW r \in Executions, EffectInv, BeginEffect(r), Ledger \in BOOLEAN
    PROVE  EffectInv'
<1>1. r[1] \in Needs /\ StepTellsEffect(r) /\ ReservationHeld(r) /\ EffectTellsCalls(r[1]) /\ Accounted(r[1])
  BY NeedOfExecution DEF EffectInv
<1>2. ExecutionTypeOK
  BY DEF EffectInv
<1>3. Moves(r) /\ Affects(r[1])
  BY <1>1, <1>2, GotoMoves, EndMoves
  DEF BeginEffect, Affects, ExecutionTypeOK, Steps
<1>4. Owns(r)
  BY <1>1, <1>2, GotoMoves, EndMoves
  DEF BeginEffect, Owns, ReservationHeld, ExecutionTypeOK, Steps, PastBegin
<1>5. StepTellsEffect(r)' /\ EffectTellsCalls(r[1])'
  BY SMTT(60), <1>1, <1>2, GotoMoves, EndMoves
  DEF BeginEffect, StepTellsEffect, EffectTellsCalls, ExecutionTypeOK, Steps, PastBegin
<1>6. ReservationHeld(r)' /\ Accounted(r[1])'
  BY SMTT(60), <1>1, <1>2, GotoMoves, EndMoves
  DEF BeginEffect, StepTellsEffect, ReservationHeld, Accounted, ExecutionTypeOK, Steps, PastBegin
<1> QED
  BY <1>3, <1>4, <1>5, <1>6, StepKeeps

LEMMA AuthorizeKeeps ==
    ASSUME NEW r \in Executions, EffectInv, Authorize(r), Ledger \in BOOLEAN
    PROVE  EffectInv'
<1>1. r[1] \in Needs /\ StepTellsEffect(r) /\ ReservationHeld(r) /\ EffectTellsCalls(r[1]) /\ Accounted(r[1])
  BY NeedOfExecution DEF EffectInv
<1>2. ExecutionTypeOK
  BY DEF EffectInv
<1>3. Moves(r) /\ Affects(r[1])
  BY SMTT(60), <1>1, <1>2, GotoMoves, EndMoves
  DEF Authorize, RefuseUnlessAborted, Affects, ExecutionTypeOK, Steps
<1>4. Owns(r)
  BY <1>1, <1>2, GotoMoves, EndMoves
  DEF Authorize, RefuseUnlessAborted, Owns, ExecutionTypeOK, Steps, PastBegin
<1>5. StepTellsEffect(r)' /\ EffectTellsCalls(r[1])'
  BY <1>1, <1>2, GotoMoves, EndMoves
  DEF Authorize, RefuseUnlessAborted, StepTellsEffect, EffectTellsCalls, ExecutionTypeOK, Steps, PastBegin
<1>6. ReservationHeld(r)' /\ Accounted(r[1])'
  BY <1>1, <1>2, GotoMoves, EndMoves
  DEF Authorize, RefuseUnlessAborted, StepTellsEffect, ReservationHeld, Accounted, ExecutionTypeOK, Steps, PastBegin
<1> QED
  BY <1>3, <1>4, <1>5, <1>6, StepKeeps

LEMMA DenyKeeps ==
    ASSUME NEW r \in Executions, EffectInv, Deny(r), Ledger \in BOOLEAN
    PROVE  EffectInv'
<1>1. r[1] \in Needs /\ StepTellsEffect(r) /\ ReservationHeld(r) /\ EffectTellsCalls(r[1]) /\ Accounted(r[1])
  BY NeedOfExecution DEF EffectInv
<1>2. ExecutionTypeOK
  BY DEF EffectInv
<1>3. Moves(r) /\ Affects(r[1])
  BY SMTT(60), <1>1, <1>2, GotoMoves, EndMoves
  DEF Deny, RefuseUnlessAborted, FinishEffect, LedgerFault, Affects, ExecutionTypeOK, Steps
<1>4. Owns(r)
  BY <1>1, <1>2, GotoMoves, EndMoves
  DEF Deny, RefuseUnlessAborted, FinishEffect, LedgerFault, Owns, ExecutionTypeOK, Steps, PastBegin
<1>5. StepTellsEffect(r)' /\ EffectTellsCalls(r[1])'
  BY SMTT(60), <1>1, <1>2, GotoMoves, EndMoves
  DEF Deny, RefuseUnlessAborted, FinishEffect, LedgerFault, StepTellsEffect, EffectTellsCalls, ExecutionTypeOK, Steps, PastBegin
<1>6. ReservationHeld(r)' /\ Accounted(r[1])'
  BY SMTT(60), <1>1, <1>2, GotoMoves, EndMoves
  DEF Deny, RefuseUnlessAborted, FinishEffect, LedgerFault, StepTellsEffect, ReservationHeld, Accounted, ExecutionTypeOK, Steps, PastBegin
<1> QED
  BY <1>3, <1>4, <1>5, <1>6, StepKeeps

LEMMA AbandonKeeps ==
    ASSUME NEW r \in Executions, EffectInv, Abandon(r), Ledger \in BOOLEAN
    PROVE  EffectInv'
<1>1. r[1] \in Needs /\ StepTellsEffect(r) /\ ReservationHeld(r) /\ EffectTellsCalls(r[1]) /\ Accounted(r[1])
  BY NeedOfExecution DEF EffectInv
<1>2. ExecutionTypeOK
  BY DEF EffectInv
<1>3. Moves(r) /\ Affects(r[1])
  BY SMTT(60), <1>1, <1>2, GotoMoves, EndMoves
  DEF Abandon, FinishEffect, LedgerFault, Affects, ExecutionTypeOK, Steps
<1>4. Owns(r)
  BY <1>1, <1>2, GotoMoves, EndMoves
  DEF Abandon, FinishEffect, LedgerFault, Owns, ExecutionTypeOK, Steps, PastBegin
<1>5. StepTellsEffect(r)' /\ EffectTellsCalls(r[1])'
  BY SMTT(60), <1>1, <1>2, GotoMoves, EndMoves
  DEF Abandon, FinishEffect, LedgerFault, StepTellsEffect, EffectTellsCalls, ExecutionTypeOK, Steps, PastBegin
<1>6. ReservationHeld(r)' /\ Accounted(r[1])'
  BY SMTT(60), <1>1, <1>2, GotoMoves, EndMoves
  DEF Abandon, FinishEffect, LedgerFault, StepTellsEffect, ReservationHeld, Accounted, ExecutionTypeOK, Steps, PastBegin
<1> QED
  BY <1>3, <1>4, <1>5, <1>6, StepKeeps

LEMMA ReleaseKeeps ==
    ASSUME NEW r \in Executions, EffectInv, Release(r), Ledger \in BOOLEAN
    PROVE  EffectInv'
<1>1. r[1] \in Needs /\ StepTellsEffect(r) /\ ReservationHeld(r) /\ EffectTellsCalls(r[1]) /\ Accounted(r[1])
  BY NeedOfExecution DEF EffectInv
<1>2. ExecutionTypeOK
  BY DEF EffectInv
<1>3. Moves(r) /\ Affects(r[1])
  BY <1>1, <1>2, GotoMoves, EndMoves
  DEF Release, Settled, Affects, ExecutionTypeOK, Steps
<1>4. Owns(r)
  BY <1>1, <1>2, GotoMoves, EndMoves
  DEF Release, Settled, Owns, ExecutionTypeOK, Steps, PastBegin
<1>5. StepTellsEffect(r)' /\ EffectTellsCalls(r[1])'
  BY SMTT(60), <1>1, <1>2, GotoMoves, EndMoves
  DEF Release, Settled, StepTellsEffect, EffectTellsCalls, ExecutionTypeOK, Steps, PastBegin
<1>6. ReservationHeld(r)' /\ Accounted(r[1])'
  BY <1>1, <1>2, GotoMoves, EndMoves
  DEF Release, Settled, StepTellsEffect, ReservationHeld, Accounted, ExecutionTypeOK, Steps, PastBegin
<1> QED
  BY <1>3, <1>4, <1>5, <1>6, StepKeeps

LEMMA ContextKeeps ==
    ASSUME NEW r \in Executions, EffectInv, Context(r), Ledger \in BOOLEAN
    PROVE  EffectInv'
<1>1. r[1] \in Needs /\ StepTellsEffect(r) /\ ReservationHeld(r) /\ EffectTellsCalls(r[1]) /\ Accounted(r[1])
  BY NeedOfExecution DEF EffectInv
<1>2. ExecutionTypeOK
  BY DEF EffectInv
<1>3. Moves(r) /\ Affects(r[1])
  BY SMTT(60), <1>1, <1>2, GotoMoves, EndMoves
  DEF Context, Invoke, Affects, ExecutionTypeOK, Steps
<1>4. Owns(r)
  BY <1>1, <1>2, GotoMoves, EndMoves
  DEF Context, Invoke, Owns, ExecutionTypeOK, Steps, PastBegin
<1>5. StepTellsEffect(r)' /\ EffectTellsCalls(r[1])'
  BY SMTT(60), <1>1, <1>2, GotoMoves, EndMoves
  DEF Context, Invoke, StepTellsEffect, EffectTellsCalls, ExecutionTypeOK, Steps, PastBegin
<1>6. ReservationHeld(r)' /\ Accounted(r[1])'
  BY SMTT(60), <1>1, <1>2, GotoMoves, EndMoves
  DEF Context, Invoke, StepTellsEffect, ReservationHeld, Accounted, ExecutionTypeOK, Steps, PastBegin
<1> QED
  BY <1>3, <1>4, <1>5, <1>6, StepKeeps

LEMMA VerifyKeeps ==
    ASSUME NEW r \in Executions, NEW ok \in BOOLEAN, EffectInv, Verify(r, ok), Ledger \in BOOLEAN
    PROVE  EffectInv'
<1>1. r[1] \in Needs /\ StepTellsEffect(r) /\ ReservationHeld(r) /\ EffectTellsCalls(r[1]) /\ Accounted(r[1])
  BY NeedOfExecution DEF EffectInv
<1>2. ExecutionTypeOK
  BY DEF EffectInv
<1>3. Moves(r) /\ Affects(r[1])
  BY <1>1, <1>2, GotoMoves, EndMoves
  DEF Verify, Invoke, Affects, ExecutionTypeOK, Steps
<1>4. Owns(r)
  BY <1>1, <1>2, GotoMoves, EndMoves
  DEF Verify, Invoke, Owns, ExecutionTypeOK, Steps, PastBegin
<1>5. StepTellsEffect(r)' /\ EffectTellsCalls(r[1])'
  BY SMTT(60), <1>1, <1>2, GotoMoves, EndMoves
  DEF Verify, Invoke, StepTellsEffect, EffectTellsCalls, ExecutionTypeOK, Steps, PastBegin
<1>6. ReservationHeld(r)' /\ Accounted(r[1])'
  BY SMTT(60), <1>1, <1>2, GotoMoves, EndMoves
  DEF Verify, Invoke, StepTellsEffect, ReservationHeld, Accounted, ExecutionTypeOK, Steps, PastBegin
<1> QED
  BY <1>3, <1>4, <1>5, <1>6, StepKeeps

LEMMA ExecuteEndsKeeps ==
    ASSUME NEW r \in Executions, NEW ok \in BOOLEAN, EffectInv, ExecuteEnds(r, ok), Ledger \in BOOLEAN
    PROVE  EffectInv'
<1>1. r[1] \in Needs /\ StepTellsEffect(r) /\ ReservationHeld(r) /\ EffectTellsCalls(r[1]) /\ Accounted(r[1])
  BY NeedOfExecution DEF EffectInv
<1>2. ExecutionTypeOK
  BY DEF EffectInv
<1>3. Moves(r) /\ Affects(r[1])
  BY <1>1, <1>2, GotoMoves, EndMoves
  DEF ExecuteEnds, AfterExecute, Affects, ExecutionTypeOK, Steps
<1>4. Owns(r)
  BY <1>1, <1>2, GotoMoves, EndMoves
  DEF ExecuteEnds, AfterExecute, Owns, ExecutionTypeOK, Steps, PastBegin
<1>5. StepTellsEffect(r)' /\ EffectTellsCalls(r[1])'
  BY <1>1, <1>2, GotoMoves, EndMoves
  DEF ExecuteEnds, AfterExecute, StepTellsEffect, EffectTellsCalls, ExecutionTypeOK, Steps, PastBegin
<1>6. ReservationHeld(r)' /\ Accounted(r[1])'
  BY SMTT(60), <1>1, <1>2, GotoMoves, EndMoves
  DEF ExecuteEnds, AfterExecute, StepTellsEffect, ReservationHeld, Accounted, ExecutionTypeOK, Steps, PastBegin
<1> QED
  BY <1>3, <1>4, <1>5, <1>6, StepKeeps

LEMMA FinishKeeps ==
    ASSUME NEW r \in Executions, EffectInv, Finish(r), Ledger \in BOOLEAN
    PROVE  EffectInv'
<1>1. r[1] \in Needs /\ StepTellsEffect(r) /\ ReservationHeld(r) /\ EffectTellsCalls(r[1]) /\ Accounted(r[1])
  BY NeedOfExecution DEF EffectInv
<1>2. ExecutionTypeOK
  BY DEF EffectInv
<1>3. Moves(r) /\ Affects(r[1])
  BY SMTT(60), <1>1, <1>2, GotoMoves, EndMoves
  DEF Finish, AfterExecute, FinishEffect, LedgerFault, Affects, ExecutionTypeOK, Steps
<1>4. Owns(r)
  BY <1>1, <1>2, GotoMoves, EndMoves
  DEF Finish, AfterExecute, FinishEffect, LedgerFault, Owns, ExecutionTypeOK, Steps, PastBegin
<1>5. StepTellsEffect(r)' /\ EffectTellsCalls(r[1])'
  BY SMTT(60), <1>1, <1>2, GotoMoves, EndMoves
  DEF Finish, AfterExecute, FinishEffect, LedgerFault, StepTellsEffect, EffectTellsCalls, ExecutionTypeOK, Steps, PastBegin
<1>6. ReservationHeld(r)' /\ Accounted(r[1])'
  BY SMTT(60), <1>1, <1>2, GotoMoves, EndMoves
  DEF Finish, AfterExecute, FinishEffect, LedgerFault, StepTellsEffect, ReservationHeld, Accounted, ExecutionTypeOK, Steps, PastBegin
<1> QED
  BY <1>3, <1>4, <1>5, <1>6, StepKeeps

LEMMA SettleKeeps ==
    ASSUME NEW r \in Executions, EffectInv, Settle(r), Ledger \in BOOLEAN
    PROVE  EffectInv'
<1>1. r[1] \in Needs /\ StepTellsEffect(r) /\ ReservationHeld(r) /\ EffectTellsCalls(r[1]) /\ Accounted(r[1])
  BY NeedOfExecution DEF EffectInv
<1>2. ExecutionTypeOK
  BY DEF EffectInv
<1>3. Moves(r) /\ Affects(r[1])
  BY <1>1, <1>2, GotoMoves, EndMoves
  DEF Settle, Settled, Affects, ExecutionTypeOK, Steps
<1>4. Owns(r)
  BY <1>1, <1>2, GotoMoves, EndMoves
  DEF Settle, Settled, Owns, ExecutionTypeOK, Steps, PastBegin
<1>5. StepTellsEffect(r)' /\ EffectTellsCalls(r[1])'
  BY <1>1, <1>2, GotoMoves, EndMoves
  DEF Settle, Settled, StepTellsEffect, EffectTellsCalls, ExecutionTypeOK, Steps, PastBegin
<1>6. ReservationHeld(r)' /\ Accounted(r[1])'
  BY <1>1, <1>2, GotoMoves, EndMoves
  DEF Settle, Settled, StepTellsEffect, ReservationHeld, Accounted, ExecutionTypeOK, Steps, PastBegin
<1> QED
  BY <1>3, <1>4, <1>5, <1>6, StepKeeps

LEMMA AnswerKeeps ==
    ASSUME NEW r \in Executions, EffectInv, Answer(r), Ledger \in BOOLEAN
    PROVE  EffectInv'
<1>1. r[1] \in Needs /\ StepTellsEffect(r) /\ ReservationHeld(r) /\ EffectTellsCalls(r[1]) /\ Accounted(r[1])
  BY NeedOfExecution DEF EffectInv
<1>2. ExecutionTypeOK
  BY DEF EffectInv
<1>3. Moves(r) /\ Affects(r[1])
  BY SMTT(60), <1>1, <1>2, GotoMoves, EndMoves
  DEF Answer, Taken, Affects, ExecutionTypeOK, Steps
<1>4. Owns(r)
  BY <1>1, <1>2, GotoMoves, EndMoves
  DEF Answer, Taken, Owns, ExecutionTypeOK, Steps, PastBegin
<1>5. StepTellsEffect(r)' /\ EffectTellsCalls(r[1])'
  BY <1>1, <1>2, GotoMoves, EndMoves
  DEF Answer, Taken, StepTellsEffect, EffectTellsCalls, ExecutionTypeOK, Steps, PastBegin
<1>6. ReservationHeld(r)' /\ Accounted(r[1])'
  BY SMTT(60), <1>1, <1>2, GotoMoves, EndMoves
  DEF Answer, Taken, StepTellsEffect, ReservationHeld, Accounted, ExecutionTypeOK, Steps, PastBegin
<1> QED
  BY <1>3, <1>4, <1>5, <1>6, StepKeeps

LEMMA CatchKeeps ==
    ASSUME NEW r \in Executions, EffectInv, Catch(r), Ledger \in BOOLEAN
    PROVE  EffectInv'
<1>1. r[1] \in Needs /\ StepTellsEffect(r) /\ ReservationHeld(r) /\ EffectTellsCalls(r[1]) /\ Accounted(r[1])
  BY NeedOfExecution DEF EffectInv
<1>2. ExecutionTypeOK
  BY DEF EffectInv
<1>3. Moves(r) /\ Affects(r[1])
  BY SMTT(60), <1>1, <1>2, GotoMoves, EndMoves
  DEF Catch, Settled, FinishEffect, LedgerFault, Affects, ExecutionTypeOK, Steps
<1>4. Owns(r)
  BY <1>1, <1>2, GotoMoves, EndMoves
  DEF Catch, Settled, FinishEffect, LedgerFault, Owns, ExecutionTypeOK, Steps, PastBegin
<1>5. StepTellsEffect(r)' /\ EffectTellsCalls(r[1])'
  BY SMTT(60), <1>1, <1>2, GotoMoves, EndMoves
  DEF Catch, Settled, FinishEffect, LedgerFault, StepTellsEffect, EffectTellsCalls, ExecutionTypeOK, Steps, PastBegin
<1>6. ReservationHeld(r)' /\ Accounted(r[1])'
  BY SMTT(60), <1>1, <1>2, GotoMoves, EndMoves
  DEF Catch, Settled, FinishEffect, LedgerFault, StepTellsEffect, ReservationHeld, Accounted, ExecutionTypeOK, Steps, PastBegin
<1> QED
  BY <1>3, <1>4, <1>5, <1>6, StepKeeps

LEMMA RefuseKeeps ==
    ASSUME NEW r \in Executions, EffectInv, Refuse(r), Ledger \in BOOLEAN
    PROVE  EffectInv'
<1>1. r[1] \in Needs /\ StepTellsEffect(r) /\ ReservationHeld(r) /\ EffectTellsCalls(r[1]) /\ Accounted(r[1])
  BY NeedOfExecution DEF EffectInv
<1>2. ExecutionTypeOK
  BY DEF EffectInv
<1>3. Moves(r) /\ Affects(r[1])
  BY <1>1, <1>2, GotoMoves, EndMoves
  DEF Refuse, Affects, ExecutionTypeOK, Steps
<1>4. Owns(r)
  BY <1>1, <1>2, GotoMoves, EndMoves
  DEF Refuse, Owns, ReservationHeld, ExecutionTypeOK, Steps, PastBegin
<1>5. StepTellsEffect(r)' /\ EffectTellsCalls(r[1])'
  BY <1>1, <1>2, GotoMoves, EndMoves
  DEF Refuse, StepTellsEffect, EffectTellsCalls, ExecutionTypeOK, Steps, PastBegin
<1>6. ReservationHeld(r)' /\ Accounted(r[1])'
  BY <1>1, <1>2, GotoMoves, EndMoves
  DEF Refuse, StepTellsEffect, ReservationHeld, Accounted, ExecutionTypeOK, Steps, PastBegin
<1> QED
  BY <1>3, <1>4, <1>5, <1>6, StepKeeps

\* The host and the provider loop start executions and tell them to abort.
LEMMA HostKeeps ==
    ASSUME EffectInv, UNCHANGED <<billing, effect, history>>,
           pc' \in [Executions -> Steps \cup {"idle"}], aborted' \in [Executions -> BOOLEAN],
           \A x \in Executions : pc'[x] = pc[x] \/ (pc[x] = "idle" /\ pc'[x] = "access")
    PROVE  EffectInv'
<1>1. ExecutionTypeOK'
  BY DEF EffectInv, ExecutionTypeOK, history
<1>2. OneIsPastBegin'
  <2>1. \A x \in Executions : pc'[x] \in PastBegin => pc[x] \in PastBegin
    BY DEF PastBegin
  <2> QED
    BY <2>1 DEF EffectInv, OneIsPastBegin
<1>3. ASSUME NEW x \in Executions PROVE StepTellsEffect(x)' /\ ReservationHeld(x)'
  <2>1. StepTellsEffect(x) /\ ReservationHeld(x)
    BY DEF EffectInv
  <2> QED
    BY <2>1 DEF history, StepTellsEffect, ReservationHeld, PastBegin
<1>4. ASSUME NEW n \in Needs PROVE EffectTellsCalls(n)' /\ Accounted(n)'
  BY DEF EffectInv, history, EffectTellsCalls, Accounted
<1> QED
  BY <1>1, <1>2, <1>3, <1>4 DEF EffectInv

\* The steps of the host.
LEMMA HostStepsKeep ==
    ASSUME EffectInv,
           \/ \E n \in Needs : ScheduleNeed(n) \/ \E from \in Senders : Revoke(n, from)
           \/ \E failed \in BOOLEAN : LoopEnds(failed)
           \/ \E c \in Callers : StopDrains(c) \/ \E drained \in BOOLEAN : StopReturns(c, drained)
           \/ Start \/ StartFails \/ RaceOver \/ Wake \/ Shutdown
    PROVE  EffectInv'
<1>1. /\ pc \in [Executions -> Steps \cup {"idle"}]
      /\ aborted \in [Executions -> BOOLEAN]
  BY DEF EffectInv, ExecutionTypeOK
<1>2. ASSUME NEW n \in Needs, ScheduleNeed(n) PROVE EffectInv'
  <2>1. UNCHANGED <<billing, effect, history, aborted>>
    BY <1>2 DEF ScheduleNeed
  <2>2. StartNeeds(<<n>>, pc, inFlight) \/ UNCHANGED pc
    BY <1>2 DEF ScheduleNeed
  <2> QED
    BY <1>1, <2>1, <2>2, StartMoves, HostKeeps
<1>3. ASSUME NEW n \in Needs, NEW from \in Senders, Revoke(n, from) PROVE EffectInv'
  <2>1. UNCHANGED <<pc, billing, effect, history>>
    BY <1>3 DEF Revoke
  <2>2. aborted' \in [Executions -> BOOLEAN]
    BY <1>1, <1>3 DEF Revoke
  <2> QED
    BY <1>1, <2>1, <2>2, HostKeeps
<1>4. ASSUME NEW failed \in BOOLEAN, LoopEnds(failed) PROVE EffectInv'
  BY <1>1, <1>4, HostKeeps DEF LoopEnds, runVars
<1>5. ASSUME NEW c \in Callers, StopDrains(c) PROVE EffectInv'
  BY <1>1, <1>5, HostKeeps DEF StopDrains, runVars
<1>6. ASSUME NEW c \in Callers, NEW drained \in BOOLEAN, StopReturns(c, drained) PROVE EffectInv'
  BY <1>1, <1>6, HostKeeps DEF StopReturns, runVars
<1>7. ASSUME Start PROVE EffectInv'
  <2>1. UNCHANGED <<billing, effect, history, aborted>> /\ DrainPendingNeeds(TRUE, pc, inFlight)
    BY <1>7 DEF Start
  <2> QED
    BY <1>1, <2>1, DrainMoves, HostKeeps
<1>8. ASSUME NEW c \in Callers, StopBegins(c) PROVE aborted' \in [Executions -> BOOLEAN]
  BY <1>1, <1>8 DEF StopBegins
<1>9. ASSUME Retry PROVE aborted' \in [Executions -> BOOLEAN]
  BY <1>1, <1>8, <1>9 DEF Retry, Callers
<1>10. ASSUME StartFails \/ RaceOver PROVE EffectInv'
  <2>1. UNCHANGED <<pc, billing, effect, history>> /\ Retry
    BY <1>10 DEF StartFails, RaceOver
  <2> QED
    BY <1>1, <1>9, <2>1, HostKeeps
<1>11. ASSUME Wake PROVE EffectInv'
  BY <1>1, <1>11, HostKeeps DEF Wake, runVars
<1>12. ASSUME Shutdown PROVE EffectInv'
  <2>1. UNCHANGED <<pc, billing, effect, history>> /\ StopBegins("shutdown")
    BY <1>12 DEF Shutdown
  <2> QED
    BY <1>1, <1>8, <2>1, HostKeeps DEF Callers
<1> QED
  BY <1>2, <1>3, <1>4, <1>5, <1>6, <1>7, <1>10, <1>11, <1>12

\* A process that is gone forgets its executions and reservations, and leaves
\* every effect as it stands.
LEMMA GoneKeeps == EffectInv /\ Gone => EffectInv'
<1> SUFFICES ASSUME EffectInv, Gone PROVE EffectInv'
  OBVIOUS
<1>1. ExecutionTypeOK'
  BY DEF EffectInv, ExecutionTypeOK, Gone, history
<1>2. \A r \in Executions : pc'[r] = "idle" /\ billing'[r] = "none"
  BY DEF Gone
<1>3. OneIsPastBegin' /\ \A r \in Executions : StepTellsEffect(r)' /\ ReservationHeld(r)'
  BY <1>2 DEF OneIsPastBegin, StepTellsEffect, ReservationHeld, PastBegin
<1>4. \A n \in Needs : EffectTellsCalls(n)' /\ Accounted(n)'
  BY DEF EffectInv, Gone, history, EffectTellsCalls, Accounted
<1> QED
  BY <1>1, <1>3, <1>4 DEF EffectInv

LEMMA EffectInvInit == Init => EffectInv
<1> SUFFICES ASSUME Init PROVE EffectInv
  OBVIOUS
<1>1. ExecutionTypeOK
  BY DEF Init, ExecutionTypeOK
<1>2. \A r \in Executions : pc[r] = "idle" /\ billing[r] = "none"
  BY DEF Init
<1>3. OneIsPastBegin /\ \A r \in Executions : StepTellsEffect(r) /\ ReservationHeld(r)
  BY <1>2 DEF OneIsPastBegin, StepTellsEffect, ReservationHeld, PastBegin
<1>4. \A n \in Needs : EffectTellsCalls(n) /\ Accounted(n)
  BY DEF Init, EffectTellsCalls, Accounted
<1> QED
  BY <1>1, <1>3, <1>4 DEF EffectInv

LEMMA EffectInvNext ==
    ASSUME HostAssumption, EffectInv, [Next]_vars
    PROVE  EffectInv'
<1>1. Ledger \in BOOLEAN
  BY DEF HostAssumption
<1>2. ASSUME NEW r \in Executions, Execute(r) PROVE EffectInv'
  BY <1>1, <1>2, AccessKeeps, BeginEffectKeeps, AuthorizeKeeps, DenyKeeps, AbandonKeeps,
     ReleaseKeeps, ContextKeeps, VerifyKeeps, ExecuteEndsKeeps, FinishKeeps, SettleKeeps,
     AnswerKeeps, CatchKeeps, RefuseKeeps DEF Execute
<1>3. ASSUME Exit \/ Restart PROVE EffectInv'
  BY <1>3, GoneKeeps DEF Exit, Restart
<1>4. CASE UNCHANGED vars
  BY <1>4, HostKeeps DEF EffectInv, ExecutionTypeOK, vars, runVars
<1> QED
  BY <1>2, <1>3, <1>4, HostStepsKeep DEF Next

\* What the invariant says of the effects: the three properties the runs check.
LEMMA EffectInvMeans ==
    EffectInv => ExecutionTypeOK /\ ExecutedAtMostOnce /\ EffectTellsTruth /\ ReservationsAccounted
<1> SUFFICES ASSUME EffectInv
             PROVE  ExecutionTypeOK /\ ExecutedAtMostOnce /\ EffectTellsTruth /\ ReservationsAccounted
  OBVIOUS
<1>1. \A n \in Needs :
        /\ executed[n] \in Nat
        /\ effect[n] \in {"none", "started", "completed", "failed", "unknown"}
  BY DEF EffectInv, ExecutionTypeOK
<1>2. ExecutedAtMostOnce /\ EffectTellsTruth
  BY <1>1 DEF EffectInv, EffectTellsCalls, ExecutedAtMostOnce, EffectTellsTruth
<1>3. ReservationsAccounted
  BY DEF EffectInv, ExecutionTypeOK, Accounted, ReservationsAccounted
<1> QED
  BY <1>2, <1>3 DEF EffectInv

\* Whatever the relay redelivers and whoever revokes, however executions,
\* stop(), retries and restarts of the process interleave and wherever a
\* ledger call fails: with an effect ledger executeNeed() calls the adapter
\* at most once for a NEED.
THEOREM AtMostOnce ==
    ASSUME HostAssumption
    PROVE  Spec => []ExecutedAtMostOnce
<1>1. EffectInv /\ [Next]_vars => EffectInv'
  BY EffectInvNext
<1> QED
  BY <1>1, EffectInvInit, EffectInvMeans, PTL DEF Spec

\* beginEffect() and finishEffect() never record as failed what was executed
\* nor as completed what was not, and what the relay took is recorded so.
THEOREM LedgerTruth ==
    ASSUME HostAssumption
    PROVE  Spec => []EffectTellsTruth
<1>1. EffectInv /\ [Next]_vars => EffectInv'
  BY EffectInvNext
<1> QED
  BY <1>1, EffectInvInit, EffectInvMeans, PTL DEF Spec

\* An execution of executeNeed() that ends without settleBilling() leaves its
\* reservation to an effect that reconciliation will find.
THEOREM Reservations ==
    ASSUME HostAssumption
    PROVE  Spec => []ReservationsAccounted
<1>1. EffectInv /\ [Next]_vars => EffectInv'
  BY EffectInvNext
<1> QED
  BY <1>1, EffectInvInit, EffectInvMeans, PTL DEF Spec
=============================================================================
