-------------------------- MODULE ProviderGovernor --------------------------
(***************************************************************************)
(* The provider rate governor                                              *)
(* (adapters/providers/common/provider-rate-governor.js): concurrent       *)
(* callers of one deployment key, the two token buckets, the shared        *)
(* cooldown a 429 starts, and the budget that the response headers report. *)
(*                                                                         *)
(* One action is what runs between two awaits of run().  Time is counted   *)
(* in ticks; a bucket refills at the tick instead of at its next use,      *)
(* which is the same (refill caps a linear growth).  Jitter is left out.   *)
(***************************************************************************)
EXTENDS Integers, FiniteSets, FiniteSetsExt

CONSTANTS
  Callers,        \* concurrent run() calls of one key
  Capacity,       \* Capacity[b]: bucket b in {"rpm", "tpm"} when it is full
  Rate,           \* Rate[b]: what bucket b gains in a tick
  TokensOf,       \* TokensOf[c]: estimatedTokens of the caller
  Reports,        \* [tokens, requests, reset] a response may report; NoLimit
                  \* is a header that is missing
  HeaderReserve,  \* config.tpm * headerReserveRatio, kept for other processes
  Hints,          \* retry delays a 429 may carry
  MaxRetries, MaxWait,
  MaxLate,        \* by how many ticks a timer may be late
  MaxTime         \* model bound: ticks of a behaviour

VARIABLES
  now,
  shared,         \* config.admission and config.onThrottle are given
  bucket,         \* bucket[b]: Bucket.tokens, negative after an overdraft
  cooldown,       \* cooldownUntil
  header,         \* [tokens, requests, reset] learnt; NoLimit stands for null
  call            \* call[c]: one run() and its telemetry

governorVars == <<now, shared, bucket, cooldown, header, call>>

Buckets == {"rpm", "tpm"}
NoLimit == 100
Over == {"returned", "limited", "cancelled", "failed"}

Larger(a, b) == IF a > b THEN a ELSE b
Smaller(a, b) == IF a < b THEN a ELSE b
Amount(c, b) == IF b = "rpm" THEN 1 ELSE TokensOf[c]

NewCall == [at |-> "idle", attempts |-> 0, throttled |-> 0, waited |-> 0,
            until |-> 0, wait |-> 0, late |-> 0, calm |-> TRUE, aborted |-> FALSE]

GovernorInit ==
  /\ now = 0
  /\ shared \in BOOLEAN
  /\ bucket = Capacity
  /\ cooldown = 0
  /\ header = [tokens |-> NoLimit, requests |-> NoLimit, reset |-> 0]
  /\ call = [c \in Callers |-> NewCall]

-----------------------------------------------------------------------------
\* An amount above the capacity is admitted when the bucket is full.
WaitFor(b, amount) ==
  LET need == Smaller(amount, Capacity[b])
      missing == need - bucket[b]
  IN  IF missing <= 0 THEN 0 ELSE (missing + Rate[b] - 1) \div Rate[b]

HeaderWait(c) ==
  IF /\ header.reset > now
     /\ header.tokens - HeaderReserve < TokensOf[c] \/ header.requests < 1
  THEN header.reset - now ELSE 0

AdmissionDelay(c, cool) ==
  Max({0, cool - now, HeaderWait(c)} \cup {WaitFor(b, Amount(c, b)) : b \in Buckets})

Spent(limit, amount) == IF limit = NoLimit THEN limit ELSE limit - amount

\* The attempt starts: the buckets and the reported budget are charged.
Take(c, r, cool) ==
  /\ bucket' = [b \in Buckets |-> bucket[b] - Amount(c, b)]
  /\ header' = IF header.reset > now
               THEN [header EXCEPT !.tokens = Spent(@, TokensOf[c]),
                                   !.requests = Spent(@, 1)]
               ELSE header
  /\ call' = [call EXCEPT ![c] = [r EXCEPT !.at = "asking", !.attempts = @ + 1,
                                           !.calm = cool <= now]]

Ends(c, r, how) == /\ call' = [call EXCEPT ![c] = [r EXCEPT !.at = how]]
                   /\ UNCHANGED <<bucket, header>>

\* One pass of the loop of run(), up to its first await.
Pass(c, r, cool) ==
  LET wait == AdmissionDelay(c, cool) IN
  \/ r.aborted /\ Ends(c, r, "cancelled")
  \/ ~r.aborted /\ wait > 0 /\ r.waited + wait > MaxWait /\ Ends(c, r, "limited")
  \/ /\ ~r.aborted /\ wait > 0 /\ r.waited + wait <= MaxWait
     /\ Ends(c, [r EXCEPT !.wait = wait, !.until = now + wait], "sleeping")
  \/ ~r.aborted /\ wait = 0 /\ shared /\ Ends(c, r, "admitting")
  \/ ~r.aborted /\ wait = 0 /\ ~shared /\ Take(c, r, cool)

Run(c) ==
  /\ call[c].at = "idle"
  /\ Pass(c, call[c], cooldown)
  /\ UNCHANGED <<now, shared, cooldown>>

\* What is counted is the wait that was planned, or more when the timer was late.
Wake(c) ==
  LET late == now - call[c].until IN
  /\ call[c].at = "sleeping"
  /\ late >= 0
  /\ Pass(c, [call[c] EXCEPT !.waited = @ + call[c].wait + late, !.late = late,
                             !.until = 0, !.wait = 0], cooldown)
  /\ UNCHANGED <<now, shared, cooldown>>

\* The shared coordinator answers after a wait of its own, or rejects.
Admitted(c, wait) ==
  LET r == [call[c] EXCEPT !.waited = @ + wait] IN
  /\ call[c].at = "admitting"
  /\ \/ r.waited > MaxWait /\ Ends(c, r, "limited")
     \/ r.waited <= MaxWait /\ r.aborted /\ Ends(c, r, "cancelled")
     \/ r.waited <= MaxWait /\ ~r.aborted /\ Take(c, r, cooldown)
  /\ UNCHANGED <<now, shared, cooldown>>

\* The coordinator, the attempt or onThrottle throws.
Fails(c) ==
  /\ call[c].at \in {"admitting", "asking", "backing"}
  /\ Ends(c, call[c], "failed")
  /\ UNCHANGED <<now, shared, cooldown>>

\* signal aborts: a sleeper rejects at once, the others when they next look.
Abort(c) ==
  /\ ~call[c].aborted
  /\ call[c].at \in {"sleeping", "admitting", "asking", "throttled", "backing"}
  /\ Ends(c, [call[c] EXCEPT !.aborted = TRUE],
          IF call[c].at = "sleeping" THEN "cancelled" ELSE call[c].at)
  /\ UNCHANGED <<now, shared, cooldown>>

-----------------------------------------------------------------------------
\* An answer out of order may only shrink a budget that is still running.
Learn(old, reported) ==
  IF reported = NoLimit THEN old
  ELSE IF header.reset > now THEN Smaller(old, reported) ELSE reported

ObserveHeaders(h) ==
  IF h.tokens = NoLimit /\ h.requests = NoLimit THEN header
  ELSE [tokens |-> Learn(header.tokens, h.tokens),
        requests |-> Learn(header.requests, h.requests),
        reset |-> now + h.reset]

Answer(c, h) ==
  /\ call[c].at = "asking"
  /\ header' = ObserveHeaders(h)
  /\ \/ call' = [call EXCEPT ![c].at = "returned"]
     \/ call' = [call EXCEPT ![c].at = "throttled", ![c].throttled = @ + 1]
  /\ UNCHANGED <<now, shared, bucket, cooldown>>

GivesUp(r, hint) == r.throttled > MaxRetries \/ r.waited + hint > MaxWait

\* After a 429 is not retried, or the loop runs again.
Decide(c, r, hint, cool) ==
  \/ GivesUp(r, hint) /\ Ends(c, [r EXCEPT !.wait = 0], "limited")
  \/ ~GivesUp(r, hint) /\ Pass(c, [r EXCEPT !.wait = 0], cool)

\* The body is cancelled: the whole key cools down, then the caller decides,
\* after onThrottle when there is one.
CoolDown(c, hint) ==
  LET cool == Larger(cooldown, now + hint) IN
  /\ call[c].at = "throttled"
  /\ cooldown' = cool
  /\ \/ shared /\ Ends(c, [call[c] EXCEPT !.wait = hint], "backing")
     \/ ~shared /\ Decide(c, call[c], hint, cool)
  /\ UNCHANGED <<now, shared>>

Backed(c) ==
  /\ call[c].at = "backing"
  /\ Decide(c, call[c], call[c].wait, cooldown)
  /\ UNCHANGED <<now, shared, cooldown>>

\* A tick passes no sleeper that is due for longer than MaxLate.
Tick ==
  /\ now < MaxTime
  /\ \A c \in Callers : call[c].at = "sleeping" => call[c].until + MaxLate > now
  /\ now' = now + 1
  /\ bucket' = [b \in Buckets |-> Smaller(Capacity[b], bucket[b] + Rate[b])]
  /\ UNCHANGED <<shared, cooldown, header, call>>

GovernorNext ==
  \/ Tick
  \/ \E c \in Callers :
       \/ Run(c) \/ Wake(c) \/ Fails(c) \/ Abort(c) \/ Backed(c)
       \/ \E wait \in Hints : Admitted(c, wait)
       \/ \E h \in Reports : Answer(c, h)
       \/ \E hint \in Hints : CoolDown(c, hint)

GovernorSpec == GovernorInit /\ [][GovernorNext]_governorVars

-----------------------------------------------------------------------------
\* The shape of the governor's state.
GovernorTypeOK ==
  /\ now \in 0 .. MaxTime /\ shared \in BOOLEAN
  /\ \A b \in Buckets : bucket[b] <= Capacity[b]
  /\ cooldown \in Nat
  /\ header.reset \in Nat /\ header.tokens <= NoLimit /\ header.requests <= NoLimit
  /\ \A c \in Callers : /\ call[c].at \in Over \cup {"idle", "sleeping", "admitting",
                                                     "asking", "throttled", "backing"}
                        /\ call[c].attempts \in Nat /\ call[c].throttled \in Nat

AttemptCost(b) == MapThenSumSet(LAMBDA c : call[c].attempts * Amount(c, b), Callers)

\* By how much the largest request exceeds a full bucket.
Excess(b) == Max({0} \cup {Amount(c, b) - Capacity[b] : c \in Callers})

\* However the callers interleave, a governor without a shared coordinator
\* never starts more attempts than the full bucket and the time since then
\* allow, except for what one request above the capacity, which waits for the
\* full bucket, overdraws; and none while the key cools down after another
\* caller's 429.  No caller asks more than maxRetries + 1 times, or plans to
\* sleep past maxWaitMs in total: one that goes on has waited longer only by
\* as much as its last timer was late.
PacedAndBounded ==
  /\ ~shared => \A b \in Buckets :
        /\ AttemptCost(b) <= Capacity[b] + Excess(b) + Rate[b] * now
        /\ bucket[b] >= - Excess(b)
  /\ \A c \in Callers :
       /\ ~shared /\ call[c].at = "asking" => call[c].calm
       /\ call[c].attempts <= MaxRetries + 1
       /\ call[c].at = "sleeping" => call[c].waited + call[c].wait <= MaxWait
       /\ call[c].at # "limited" => call[c].waited <= MaxWait + call[c].late
=============================================================================
