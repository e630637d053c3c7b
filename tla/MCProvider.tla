----------------------------- MODULE MCProvider -----------------------------
(***************************************************************************)
(* The parts of a provider node that must go on whatever happens, in one   *)
(* run: each behaviour is one of the admission queue, of the durable inbox *)
(* or of the adapter host with an effect ledger, and focus tells which.    *)
(* The variables of the other parts keep their initial values.             *)
(***************************************************************************)
EXTENDS BoundedAdmissionQueue, FiniteSetTheorems, SequenceTheorems, TLAPS

CONSTANTS
    Envelopes, Arrivals, MaxCompleted, MaxFailures, MaxCrashes,     \* the inbox
    PaidNeed                                                        \* the host

VARIABLES
    focus,
    up, entries, file, writes, broken, todo, id, outlived, failures, crashes, \* the inbox,
    inboxInFlight, inboxPc,                                         \* its inFlight and pc
    running, loop, pending, cancelled, aborted, billing, supervisor, stop, interrupted,
    effect, executed, answered, unsettled, deliveries, retries, restarts, faults,
    hostInFlight, hostPc                                            \* the adapter host

Inbox == INSTANCE DurableInbox WITH
    Ids <- Envelopes, Calls <- Arrivals,
    inFlight <- inboxInFlight, pc <- inboxPc

Host == INSTANCE AdapterHost WITH
    Needs <- {PaidNeed}, Ledger <- TRUE, Paid <- TRUE, Senders <- {"requester", "stranger"},
    MaxConcurrent <- 1, MaxPending <- 1, MaxTombstones <- 1, MaxDeliveries <- 2,
    MaxRetries <- 1, MaxRestarts <- 1, MaxFaults <- 1,
    inFlight <- hostInFlight, pc <- hostPc

inboxVars == <<up, entries, file, writes, broken, inboxInFlight, todo, id, inboxPc,
               outlived, failures, crashes>>
hostVars == <<running, loop, hostInFlight, pending, cancelled, hostPc, aborted, billing, supervisor,
              stop, interrupted, effect, executed, answered, unsettled, deliveries, retries,
              restarts, faults>>

ASSUME ProviderConstants == Inbox!InboxAssumption /\ Host!HostAssumption

MCInit ==
    /\ focus \in {"queue", "inbox", "host"}
    /\ Init /\ Inbox!Init /\ Host!Init

MCNext ==
    \/ focus = "queue" /\ Next /\ UNCHANGED <<focus, inboxVars, hostVars>>
    \/ focus = "inbox" /\ Inbox!Next /\ UNCHANGED <<focus, vars, hostVars>>
    \/ focus = "host" /\ Host!Next /\ UNCHANGED <<focus, vars, inboxVars>>

\* The fairness each part assumes, where it is in focus.
MCFairness ==
    /\ WF_vars(focus = "queue" /\ Resume)
    /\ \A c \in Calls : WF_vars(focus = "queue" /\ \E outcome \in Outcomes : Finish(c, outcome))
    /\ WF_inboxVars(focus = "inbox" /\ Inbox!Write)
    /\ WF_inboxVars(focus = "inbox" /\ Inbox!Restart)
    /\ \A c \in Inbox!Runs : WF_inboxVars(focus = "inbox" /\
        (Inbox!HandlerReturns(c) \/ Inbox!HandlerThrows(c) \/ Inbox!EntryMissing(c)))
    /\ \A i \in Envelopes : WF_inboxVars(focus = "inbox" /\
        (Inbox!RunPending(i, i) \/ Inbox!RecoverSkips(i)))
    /\ WF_hostVars(focus = "host" /\ Host!LoopEnds(FALSE))
    /\ \A c \in Host!Callers :
        /\ WF_hostVars(focus = "host" /\ Host!StopDrains(c))
        /\ WF_hostVars(focus = "host" /\ \E drained \in BOOLEAN : Host!StopReturns(c, drained))

MCSpec == MCInit /\ [][MCNext]_<<focus, vars, inboxVars, hostVars>> /\ MCFairness

-----------------------------------------------------------------------------
\* HandlersRunDurableWork, and the types of the inbox: no handler runs on an
\* envelope the file does not know, through failed writes and crashes, unless
\* another run completed it and it was trimmed.
InboxIsDurable == Inbox!TypeOK /\ Inbox!HandlersRunDurableWork

\* A parked call gets its turn (for one call, which is as good as any).
ParkedCallsSettle == ParkedCallSettles(CHOOSE c \in Calls : TRUE)

\* Pending work of the inbox is run to an outcome (for one envelope, which is as
\* good as any).
InboxRecovers == Inbox!PendingWorkIsRecovered(CHOOSE i \in Envelopes : TRUE)

\* ExecutedAtMostOnce, EffectTellsTruth and ReservationsAccounted: redelivery,
\* revocation, retry, shutdown and a killed process never execute paid work
\* twice, the effect ledger never denies or invents an execution, and a
\* reservation stays open only for reconciliation.
PaidEffectsSound ==
    /\ Host!ExecutionTypeOK /\ Host!ExecutedAtMostOnce
    /\ Host!EffectTellsTruth /\ Host!ReservationsAccounted

\* StopIsBounded: stop() returns whatever the adapter does.
StopReturnsInTime == Host!StopIsBounded

-----------------------------------------------------------------------------
(***************************************************************************)
(* The admission queue, for every number of calls and every pair of        *)
(* bounds.  Its inductive invariant IInv adds to work conservation and to  *)
(* the accounting that the two sequences list the parked calls exactly.    *)
(***************************************************************************)

\* Sets of calls are finite, and one element counts one.
LEMMA CallSets ==
    ASSUME NEW S \in SUBSET Calls, NEW c \in Calls
    PROVE  /\ Cardinality(S) \in Nat
           /\ c \notin S => Cardinality(S \cup {c}) = Cardinality(S) + 1
           /\ c \in S => Cardinality(S \ {c}) = Cardinality(S) - 1
<1>1. IsFiniteSet(S) BY FS_Subset, BoundsAssumption
<1> QED BY <1>1, FS_CardinalityType, FS_AddElement, FS_RemoveElement

\* What the accounting says, with the types the arithmetic needs.
LEMMA Balance ==
    ASSUME IInv
    PROVE  /\ admitted = inFlight + Len(queue) + Len(waking) + Cardinality(At("settled"))
           /\ Len(queue) \in Nat /\ Len(waking) \in Nat
           /\ admitted \in Nat /\ inFlight \in Nat
           /\ Cardinality(At("settled")) \in Nat
BY SMTT(60) DEF IInv, TypeOK, ZeroSilentLoss

LEMMA InitIInv == Init => IInv
<1> SUFFICES ASSUME Init PROVE IInv OBVIOUS
<1>1. TypeOK BY DEF Init, TypeOK, Stages
<1>2. ParkedOnce BY DEF Init, ParkedOnce, Lists, At
<1>3. WorkConserving BY DEF Init, WorkConserving
<1>4. ZeroSilentLoss
  <2>1. At("running") = {} /\ At("settled") = {} /\ At("refused") = {}
    BY DEF Init, At
  <2>2. admitted = inFlight + Len(queue) + Len(waking) + Cardinality(At("settled"))
    BY <2>1, FS_EmptySet DEF Init
  <2>3. Cardinality({}) = 0 BY FS_EmptySet
  <2>4. completed + failed = 0 /\ inFlight = 0 /\ rejected = 0 BY DEF Init
  <2> QED BY <2>1, <2>2, <2>3, <2>4, Zenon DEF ZeroSilentLoss
<1> QED BY <1>1, <1>2, <1>3, <1>4 DEF IInv

LEMMA RejectIInv == \A c \in Calls : IInv /\ Reject(c) => IInv'
<1> SUFFICES ASSUME NEW c \in Calls, IInv, Reject(c) PROVE IInv' OBVIOUS
<1> USE DEF Reject
<1>1. TypeOK' BY DEF IInv, TypeOK, Stages
<1>2. ParkedOnce' BY DEF IInv, TypeOK, ParkedOnce, Lists, At
<1>3. WorkConserving' BY DEF IInv, WorkConserving
<1>4. ZeroSilentLoss'
  <2>1. /\ At("running")' = At("running")
        /\ At("settled")' = At("settled")
        /\ At("refused")' = At("refused") \cup {c} /\ c \notin At("refused")
        /\ At("refused") \in SUBSET Calls
    BY DEF IInv, TypeOK, At
  <2>2. Cardinality(At("refused") \cup {c}) = Cardinality(At("refused")) + 1
    BY <2>1, CallSets
  <2> QED BY <2>1, <2>2 DEF IInv, TypeOK, ZeroSilentLoss
<1> QED BY <1>1, <1>2, <1>3, <1>4 DEF IInv

LEMMA EnqueueIInv == \A c \in Calls : IInv /\ Enqueue(c) => IInv'
<1> SUFFICES ASSUME NEW c \in Calls, IInv, Enqueue(c) PROVE IInv' OBVIOUS
<1> USE DEF Enqueue
<1>1. TypeOK' BY DEF IInv, TypeOK, Stages
<1>2. ParkedOnce'
  <2>1. Lists(queue, "queued")' BY DEF IInv, TypeOK, ParkedOnce, Lists, At
  <2>2. Lists(waking, "waking")' BY DEF IInv, TypeOK, ParkedOnce, Lists, At
  <2> QED BY <2>1, <2>2 DEF ParkedOnce
<1>3. WorkConserving' BY BoundsAssumption DEF IInv, TypeOK, WorkConserving
<1>4. ZeroSilentLoss'
  <2>1. /\ At("running")' = At("running")
        /\ At("settled")' = At("settled")
        /\ At("refused")' = At("refused")
    BY DEF IInv, TypeOK, At
  <2>2. Len(queue') = Len(queue) + 1 BY DEF IInv, TypeOK
  <2>3. (admitted = inFlight + Len(queue) + Len(waking) + Cardinality(At("settled")))'
    BY <2>1, <2>2, Balance
  <2> QED BY <2>1, <2>3 DEF IInv, TypeOK, ZeroSilentLoss
<1> QED BY <1>1, <1>2, <1>3, <1>4 DEF IInv

LEMMA StartIInv == \A c \in Calls : IInv /\ Start(c) => IInv'
<1> SUFFICES ASSUME NEW c \in Calls, IInv, Start(c) PROVE IInv' OBVIOUS
<1> USE DEF Start
<1>1. TypeOK' BY DEF IInv, TypeOK, Stages
<1>2. ParkedOnce'
  <2>1. Lists(queue, "queued")' BY DEF IInv, TypeOK, ParkedOnce, Lists, At
  <2>2. Lists(waking, "waking")' BY DEF IInv, TypeOK, ParkedOnce, Lists, At
  <2> QED BY <2>1, <2>2 DEF ParkedOnce
<1>3. WorkConserving' BY BoundsAssumption DEF IInv, TypeOK, WorkConserving
<1>4. ZeroSilentLoss'
  <2>1. /\ At("running")' = At("running") \cup {c} /\ c \notin At("running")
        /\ At("settled")' = At("settled")
        /\ At("refused")' = At("refused")
        /\ At("running") \in SUBSET Calls
    BY DEF IInv, TypeOK, At
  <2>2. Cardinality(At("running") \cup {c}) = Cardinality(At("running")) + 1
    BY <2>1, CallSets
  <2>3. (admitted = inFlight + Len(queue) + Len(waking) + Cardinality(At("settled")))'
    BY SMTT(60), <2>1, Balance
  <2> QED BY <2>1, <2>2, <2>3 DEF IInv, TypeOK, ZeroSilentLoss
<1> QED BY <1>1, <1>2, <1>3, <1>4 DEF IInv

\* Removing the head of a sequence that lists the calls of a stage: what is
\* left lists the others.
LEMMA DropHead ==
    ASSUME NEW seq \in Seq(Calls), seq # <<>>,
           \A i, j \in 1..Len(seq) : seq[i] = seq[j] => i = j
    PROVE  /\ Head(seq) \in Calls /\ Head(seq) = seq[1] /\ 1 \in 1..Len(seq)
           /\ Tail(seq) \in Seq(Calls) /\ Len(Tail(seq)) = Len(seq) - 1
           /\ Len(seq) \in Nat \ {0}
           /\ \A i \in 1..Len(Tail(seq)) :
                /\ i + 1 \in 1..Len(seq) /\ Tail(seq)[i] = seq[i + 1]
                /\ Tail(seq)[i] # Head(seq) /\ Tail(seq)[i] \in Calls
           /\ \A i, j \in 1..Len(Tail(seq)) : Tail(seq)[i] = Tail(seq)[j] => i = j
           /\ \A i \in 1..Len(seq) : seq[i] # Head(seq) =>
                i - 1 \in 1..Len(Tail(seq)) /\ Tail(seq)[i - 1] = seq[i]
OBVIOUS

LEMMA ResumeIInv == IInv /\ Resume => IInv'
<1> SUFFICES ASSUME IInv, Resume PROVE IInv' OBVIOUS
<1> DEFINE h == Head(waking)
           w == Tail(waking)
<1>0. /\ waking \in Seq(Calls) /\ waking # <<>>
      /\ \A i, j \in 1..Len(waking) : waking[i] = waking[j] => i = j
  BY DEF IInv, TypeOK, ParkedOnce, Lists, Resume
<1>d. /\ h \in Calls /\ h = waking[1] /\ 1 \in 1..Len(waking)
      /\ w \in Seq(Calls) /\ Len(w) = Len(waking) - 1 /\ Len(waking) \in Nat \ {0}
      /\ \A i \in 1..Len(w) : /\ i + 1 \in 1..Len(waking) /\ w[i] = waking[i + 1]
                              /\ w[i] # h /\ w[i] \in Calls
      /\ \A i, j \in 1..Len(w) : w[i] = w[j] => i = j
      /\ \A i \in 1..Len(waking) : waking[i] # h =>
                i - 1 \in 1..Len(w) /\ w[i - 1] = waking[i]
  BY <1>0, DropHead
<1>a. /\ pc' = [pc EXCEPT ![h] = "running"] /\ waking' = w
      /\ inFlight' = inFlight + 1
      /\ UNCHANGED <<queue, admitted, rejected, completed, failed>>
  BY DEF Resume
<1> HIDE DEF h, w
<1>b. pc[h] = "waking" BY <1>d DEF IInv, ParkedOnce, Lists
<1>1. TypeOK' BY <1>a, <1>d DEF IInv, TypeOK, Stages
<1>2. ParkedOnce'
  <2>1. Lists(queue, "queued")'
    BY <1>a, <1>b, <1>d DEF IInv, TypeOK, ParkedOnce, Lists, At
  <2>2. \A i \in 1..Len(w) : pc'[w[i]] = "waking"
    BY <1>a, <1>d DEF IInv, TypeOK, ParkedOnce, Lists
  <2>3. \A d \in At("waking")' : \E i \in 1..Len(w) : w[i] = d
    <3> SUFFICES ASSUME NEW d \in At("waking")' PROVE \E i \in 1..Len(w) : w[i] = d
      OBVIOUS
    <3>1. d \in At("waking") /\ d # h BY <1>a, <1>d DEF At, IInv, TypeOK
    <3>2. PICK k \in 1..Len(waking) : waking[k] = d
      BY <3>1 DEF IInv, ParkedOnce, Lists
    <3> QED BY <3>1, <3>2, <1>d
  <2> QED BY <2>1, <2>2, <2>3, <1>a, <1>d DEF ParkedOnce, Lists
<1>3. WorkConserving' BY <1>a, <1>d, BoundsAssumption DEF IInv, TypeOK, WorkConserving
<1>4. ZeroSilentLoss'
  <2>1. /\ At("running")' = At("running") \cup {h} /\ h \notin At("running")
        /\ At("settled")' = At("settled")
        /\ At("refused")' = At("refused")
        /\ At("running") \in SUBSET Calls
    BY <1>a, <1>b, <1>d DEF IInv, TypeOK, At
  <2>2. Cardinality(At("running") \cup {h}) = Cardinality(At("running")) + 1
    BY <2>1, <1>d, CallSets
  <2>3. Len(queue) \in Nat /\ Len(waking') = Len(waking) - 1
    BY <1>a, <1>d DEF IInv, TypeOK
  <2>4. (admitted = inFlight + Len(queue) + Len(waking) + Cardinality(At("settled")))'
    BY <2>1, <2>3, <1>a, Balance
  <2> QED BY <2>1, <2>2, <2>4, <1>a DEF IInv, TypeOK, ZeroSilentLoss
<1> QED BY <1>1, <1>2, <1>3, <1>4 DEF IInv

LEMMA FinishIInv == \A c \in Calls, o \in Outcomes : IInv /\ Finish(c, o) => IInv'
<1> SUFFICES ASSUME NEW c \in Calls, NEW o \in Outcomes, IInv, Finish(c, o)
             PROVE  IInv'
  OBVIOUS
<1>c. /\ pc[c] = "running" /\ inFlight' = inFlight - 1
      /\ completed' + failed' = completed + failed + 1
      /\ completed' \in Nat /\ failed' \in Nat
      /\ UNCHANGED <<admitted, rejected>>
  BY DEF IInv, TypeOK, Finish, Outcomes
\* the slot c gives back is one of the counted ones
<1>s. inFlight \in Nat \ {0} /\ At("running") \in SUBSET Calls /\ At("settled") \in SUBSET Calls
      /\ Cardinality(At("running") \ {c}) = inFlight - 1
      /\ Cardinality(At("settled") \cup {c}) = completed + failed + 1
  <2>1. At("running") \in SUBSET Calls /\ c \in At("running") /\ At("settled") \in SUBSET Calls
        /\ c \notin At("settled")
    BY <1>c DEF At
  <2>2. /\ Cardinality(At("running") \ {c}) = Cardinality(At("running")) - 1
        /\ Cardinality(At("settled") \cup {c}) = Cardinality(At("settled")) + 1
        /\ Cardinality(At("running") \ {c}) \in Nat
    BY <2>1, CallSets
  <2> QED BY SMTT(60), <2>1, <2>2 DEF IInv, TypeOK, ZeroSilentLoss
<1>n. /\ admitted' = admitted /\ rejected' = rejected
      /\ inFlight = inFlight' + 1 /\ inFlight' \in Nat
  BY <1>c, <1>s
<1>1. CASE queue = <<>>
  <2>a. pc' = [pc EXCEPT ![c] = "settled"] /\ queue' = queue /\ waking' = waking
    BY <1>1 DEF Finish
  <2>1. TypeOK' BY <1>c, <1>s, <2>a DEF IInv, TypeOK, Stages
  <2>2. ParkedOnce' BY <1>c, <2>a DEF IInv, TypeOK, ParkedOnce, Lists, At
  <2>3. WorkConserving' BY <1>1, <2>a DEF WorkConserving
  <2>4. ZeroSilentLoss'
    <3>1. /\ At("running")' = At("running") \ {c}
          /\ At("settled")' = At("settled") \cup {c}
          /\ At("refused")' = At("refused")
      BY <1>c, <2>a DEF IInv, TypeOK, At
    <3>2. (admitted = inFlight + Len(queue) + Len(waking) + Cardinality(At("settled")))'
      <4>1. Len(queue') = Len(queue) /\ Len(waking') = Len(waking) BY <2>a
      <4>2. Cardinality(At("settled")') = Cardinality(At("settled")) + 1
        BY <3>1, <1>s DEF IInv, ZeroSilentLoss
      <4> QED BY SMTT(60), <4>1, <4>2, <1>n, Balance
    <3> QED BY <3>1, <3>2, <1>c, <1>s DEF IInv, TypeOK, ZeroSilentLoss
  <2> QED BY <2>1, <2>2, <2>3, <2>4 DEF IInv
<1>2. CASE queue # <<>>
  <2> DEFINE h == Head(queue)
             q == Tail(queue)
             w == Append(waking, h)
  <2>0. /\ queue \in Seq(Calls) /\ queue # <<>>
        /\ \A i, j \in 1..Len(queue) : queue[i] = queue[j] => i = j
    BY <1>2 DEF IInv, TypeOK, ParkedOnce, Lists
  <2>d. /\ h \in Calls /\ h = queue[1] /\ 1 \in 1..Len(queue)
        /\ q \in Seq(Calls) /\ Len(q) = Len(queue) - 1 /\ Len(queue) \in Nat \ {0}
        /\ \A i \in 1..Len(q) : /\ i + 1 \in 1..Len(queue) /\ q[i] = queue[i + 1]
                                /\ q[i] # h /\ q[i] \in Calls
        /\ \A i, j \in 1..Len(q) : q[i] = q[j] => i = j
        /\ \A i \in 1..Len(queue) : queue[i] # h =>
                  i - 1 \in 1..Len(q) /\ q[i - 1] = queue[i]
    BY <2>0, DropHead
  <2>w. /\ waking \in Seq(Calls) /\ w \in Seq(Calls) /\ Len(w) = Len(waking) + 1
        /\ Len(waking) \in Nat /\ w[Len(waking) + 1] = h
        /\ \A i \in 1..Len(waking) : w[i] = waking[i]
    BY <2>d DEF IInv, TypeOK
  <2>a. /\ pc' = [pc EXCEPT ![c] = "settled", ![h] = "waking"]
        /\ queue' = q /\ waking' = w
    BY <1>2 DEF Finish
  <2> HIDE DEF h, q, w
  <2>b. pc[h] = "queued" /\ h # c BY <2>d, <1>c DEF IInv, ParkedOnce, Lists
  <2>p. /\ pc'[c] = "settled" /\ pc'[h] = "waking"
        /\ \A d \in Calls \ {c, h} : pc'[d] = pc[d]
        /\ pc' \in [Calls -> Stages]
    BY <2>a, <2>b, <2>d DEF IInv, TypeOK, Stages
  <2>1. TypeOK'
    <3>1. queue' \in Seq(Calls) /\ waking' \in Seq(Calls) BY <2>a, <2>d, <2>w
    <3> QED BY <1>c, <1>n, <2>p, <3>1 DEF IInv, TypeOK
  <2>2. Lists(queue, "queued")'
    <3>1. \A i \in 1..Len(q) : pc'[q[i]] = "queued"
      <4> TAKE i \in 1..Len(q)
      <4>1. i + 1 \in 1..Len(queue) /\ q[i] = queue[i + 1] /\ q[i] # h /\ q[i] \in Calls
        BY <2>d
      <4>2. \A k \in 1..Len(queue) : pc[queue[k]] = "queued"
        BY DEF IInv, ParkedOnce, Lists
      <4>3. pc[q[i]] = "queued" /\ q[i] # c
        BY <1>c, <4>1, <4>2
      <4> QED
        BY <2>p, <4>1, <4>3
    <3>2. \A d \in At("queued")' : \E i \in 1..Len(q) : q[i] = d
      <4> SUFFICES ASSUME NEW d \in At("queued")' PROVE \E i \in 1..Len(q) : q[i] = d
        OBVIOUS
      <4>1. d \in At("queued") /\ d # h BY <2>p DEF At
      <4>2. PICK k \in 1..Len(queue) : queue[k] = d BY <4>1 DEF IInv, ParkedOnce, Lists
      <4> QED BY <4>1, <4>2, <2>d
    <3> QED BY ZenonT(60), <3>1, <3>2, <2>a, <2>d DEF Lists
  <2>3. Lists(waking, "waking")'
    <3>1. \A i \in 1..Len(waking) : pc[waking[i]] = "waking" /\ waking[i] \in Calls
      BY <2>w DEF IInv, ParkedOnce, Lists
    <3>2. \A i \in 1..Len(w) : i = Len(waking) + 1 \/ i \in 1..Len(waking)
      BY <2>w
    <3>3. \A i \in 1..Len(w) : pc'[w[i]] = "waking"
      BY SMTT(60), <1>c, <2>b, <2>p, <2>w, <3>1, <3>2
    <3>4. \A i, j \in 1..Len(w) : w[i] = w[j] => i = j
      BY <2>b, <2>w, <3>1, <3>2 DEF IInv, ParkedOnce, Lists
    <3>5. \A d \in At("waking")' : \E i \in 1..Len(w) : w[i] = d
      <4> SUFFICES ASSUME NEW d \in At("waking")' PROVE \E i \in 1..Len(w) : w[i] = d
        OBVIOUS
      <4>1. d = h \/ d \in At("waking") BY <2>p DEF At
      <4>2. CASE d = h BY <4>2, <2>w
      <4>3. CASE d \in At("waking")
        <5>1. PICK k \in 1..Len(waking) : waking[k] = d BY <4>3 DEF IInv, ParkedOnce, Lists
        <5> QED BY <5>1, <2>w
      <4> QED BY <4>1, <4>2, <4>3
    <3> QED BY <3>3, <3>4, <3>5, <2>a DEF Lists
  <2>4. WorkConserving'
    BY <1>2, <1>c, <1>s, <2>a, <2>d, <2>w, BoundsAssumption DEF IInv, TypeOK, WorkConserving
  <2>5. ZeroSilentLoss'
    <3>1. /\ At("running")' = At("running") \ {c}
          /\ At("settled")' = At("settled") \cup {c}
          /\ At("refused")' = At("refused")
      BY <1>c, <2>b, <2>p DEF At
    <3>2. (admitted = inFlight + Len(queue) + Len(waking) + Cardinality(At("settled")))'
      <4>1. Len(queue') = Len(queue) - 1 /\ Len(waking') = Len(waking) + 1
        BY <2>a, <2>d, <2>w
      <4>2. Cardinality(At("settled")') = Cardinality(At("settled")) + 1
        BY <3>1, <1>s DEF IInv, ZeroSilentLoss
      <4> QED BY SMTT(60), <4>1, <4>2, <1>n, Balance
    <3> QED BY <3>1, <3>2, <1>c, <1>s DEF IInv, TypeOK, ZeroSilentLoss
  <2> QED BY <2>1, <2>2, <2>3, <2>4, <2>5 DEF IInv, ParkedOnce
<1> QED BY <1>1, <1>2

LEMMA NextIInv == IInv /\ [Next]_vars => IInv'
<1> SUFFICES ASSUME IInv, [Next]_vars PROVE IInv' OBVIOUS
<1>1. CASE Next
  BY <1>1, RejectIInv, EnqueueIInv, StartIInv, ResumeIInv, FinishIInv DEF Next
<1>2. CASE UNCHANGED vars
  BY <1>2 DEF vars, IInv, TypeOK, ParkedOnce, Lists, At, WorkConserving, ZeroSilentLoss
<1> QED BY <1>1, <1>2

\* The inductive invariant holds in every reachable state.
THEOREM Inductive == Spec => []IInv
<1> QED BY InitIInv, NextIInv, PTL DEF Spec

\* Type correctness, for every set of calls and every pair of bounds.
THEOREM Typing == Spec => []TypeOK
<1>1. IInv => TypeOK BY DEF IInv
<1> QED BY <1>1, Inductive, PTL

\* Nobody waits for a slot that is idle and that no woken call is about to
\* take: the single hand-over in the finally block of run() is enough.
THEOREM WorkConservation == Spec => []WorkConserving
<1>1. IInv => WorkConserving BY DEF IInv
<1> QED BY <1>1, Inductive, PTL

\* The counters of snapshot() account for every call of run(), exactly once.
THEOREM Accounting == Spec => []ZeroSilentLoss
<1>1. IInv => ZeroSilentLoss BY DEF IInv
<1> QED BY <1>1, Inductive, PTL

-----------------------------------------------------------------------------
(***************************************************************************)
(* The durable inbox, for any envelopes, arrivals and bounds.  The file is *)
(* rewritten by whole-file writes that are taken in order, so what matters *)
(* of a run is where its own write stands in the queue: from there on      *)
(* every write lists its entry, as long as the entry is not trimmed.       *)
(***************************************************************************)
LEMMA PersistAppends ==
    ASSUME NEW c \in Inbox!Runs, NEW list \in Seq(Inbox!Writes), NEW now
    PROVE  /\ Inbox!Persist(c, list, now) \in Seq(Inbox!Writes)
           /\ Len(Inbox!Persist(c, list, now)) = Len(list) + 1
           /\ \A k \in 1..Len(list) : Inbox!Persist(c, list, now)[k] = list[k]
           /\ Inbox!Persist(c, list, now)[Len(list) + 1].by = c
           /\ Inbox!Persist(c, list, now)[Len(list) + 1].live = {i \in Envelopes : now[i] # "none"}
<1> DEFINE w == [by |-> c, live |-> {i \in Envelopes : now[i] # "none"}, trimmed |-> {}]
<1>1. w \in Inbox!Writes /\ w.by = c /\ w.live = {i \in Envelopes : now[i] # "none"}
  BY DEF Inbox!Writes
<1>2. Inbox!Persist(c, list, now) = Append(list, w)
  BY DEF Inbox!Persist
<1> HIDE DEF w
<1> QED
  BY <1>1, <1>2

LEMMA DetachKeeps ==
    ASSUME NEW list \in Seq(Inbox!Writes), NEW gone \in SUBSET Envelopes
    PROVE  /\ Inbox!Detach(list, gone) \in Seq(Inbox!Writes)
           /\ Len(Inbox!Detach(list, gone)) = Len(list)
           /\ \A k \in 1..Len(list) :
                /\ Inbox!Detach(list, gone)[k].by = list[k].by
                /\ Inbox!Detach(list, gone)[k].live = list[k].live \ gone
<1> DEFINE e(k) == [list[k] EXCEPT !.live = @ \ gone, !.trimmed = @ \cup (list[k].live \cap gone)]
<1>1. \A k \in 1..Len(list) :
        e(k) \in Inbox!Writes /\ e(k).by = list[k].by /\ e(k).live = list[k].live \ gone
  <2> TAKE k \in 1..Len(list)
  <2>1. list[k] \in Inbox!Writes
    OBVIOUS
  <2> QED
    BY <2>1 DEF Inbox!Writes
<1>2. Inbox!Detach(list, gone) = [k \in 1..Len(list) |-> e(k)]
  BY DEF Inbox!Detach
<1> HIDE DEF e
<1> QED
  BY <1>1, <1>2

LEMMA TailShifts ==
    ASSUME NEW list \in Seq(Inbox!Writes), list # <<>>
    PROVE  /\ Tail(list) \in Seq(Inbox!Writes)
           /\ Len(list) \in Nat \ {0}
           /\ Len(Tail(list)) = Len(list) - 1
           /\ \A k \in 1..Len(Tail(list)) : Tail(list)[k] = list[k + 1]
           /\ Head(list) = list[1] /\ Head(list) \in Inbox!Writes
OBVIOUS

LEMMA WritesTyped ==
    Inbox!TypeOK => \A k \in 1..Len(writes) : writes[k].by \in Inbox!Runs /\ writes[k].live \subseteq Envelopes
<1> SUFFICES ASSUME Inbox!TypeOK, NEW k \in 1..Len(writes)
             PROVE  writes[k].by \in Inbox!Runs /\ writes[k].live \subseteq Envelopes
  OBVIOUS
<1>1. writes[k] \in Inbox!Writes
  BY DEF Inbox!TypeOK
<1> QED
  BY <1>1 DEF Inbox!Writes

LEMMA InboxInvInit == ASSUME Envelopes # {} PROVE Inbox!Init => Inbox!InboxInv
<1> SUFFICES ASSUME Inbox!Init PROVE Inbox!InboxInv
  OBVIOUS
<1>1. \A c \in Inbox!Runs : (CHOOSE i \in Envelopes : c \in Envelopes => i = c) \in Envelopes
  <2> TAKE c \in Inbox!Runs
  <2>1. \E i \in Envelopes : c \in Envelopes => i = c
    OBVIOUS
  <2> QED
    BY <2>1
<1>2. id \in [Inbox!Runs -> Envelopes]
  BY <1>1 DEF Inbox!Init
<1>3. Inbox!TypeOK
  <2>1. writes \in Seq(Inbox!Writes)
    BY DEF Inbox!Init
  <2>2. /\ entries \in [Envelopes -> Inbox!Statuses] /\ file \in [Envelopes -> Inbox!Statuses]
        /\ inboxPc \in [Inbox!Runs -> Inbox!Steps]
    BY DEF Inbox!Init, Inbox!Statuses, Inbox!Steps
  <2>3. /\ up \in BOOLEAN /\ broken \in BOOLEAN
        /\ inboxInFlight \in SUBSET Envelopes /\ todo \in SUBSET Envelopes /\ outlived \in SUBSET Inbox!Runs
    BY DEF Inbox!Init
  <2> QED
    BY <1>2, <2>1, <2>2, <2>3 DEF Inbox!TypeOK
<1>4. \A c \in Inbox!Runs : inboxPc[c] = "idle"
  BY DEF Inbox!Init
<1> QED
  BY <1>3, <1>4 DEF Inbox!Init, Inbox!InboxInv, Inbox!OneWriteEach, Inbox!Quiet, Inbox!Listed,
     Inbox!AtWork

\* A new call begins with a write of its own, the last in the queue, that lists
\* every entry there is: accept(), or the attempt of run().
LEMMA BeginsKeep ==
    ASSUME NEW c \in Inbox!Runs, NEW i \in Envelopes, NEW step \in {"accepting", "starting"}, Inbox!InboxInv,
           up, inboxPc[c] = "idle",
           id' = [id EXCEPT ![c] = i], inboxPc' = [inboxPc EXCEPT ![c] = step],
           entries' \in [Envelopes -> Inbox!Statuses], entries'[i] # "none",
           \A j \in Envelopes : entries[j] # "none" => entries'[j] # "none",
           writes' = Inbox!Persist(c, writes, entries'),
           inboxInFlight' \in SUBSET Envelopes, todo' \in SUBSET Envelopes,
           UNCHANGED <<up, file, broken, outlived>>
    PROVE  Inbox!InboxInv'
<1>0. Inbox!TypeOK /\ Inbox!OneWriteEach /\ Inbox!Quiet
  BY DEF Inbox!InboxInv
<1>1. /\ writes' \in Seq(Inbox!Writes) /\ Len(writes') = Len(writes) + 1
      /\ \A k \in 1..Len(writes) : writes'[k] = writes[k]
      /\ writes'[Len(writes) + 1].by = c
      /\ writes'[Len(writes) + 1].live = {j \in Envelopes : entries'[j] # "none"}
      /\ Len(writes) \in Nat
  BY <1>0, PersistAppends DEF Inbox!TypeOK
<1>2. Inbox!TypeOK'
  BY <1>0, <1>1 DEF Inbox!TypeOK, Inbox!Steps
<1>3. \A k \in 1..Len(writes) : writes[k].by # c /\ writes[k].by \in Inbox!Runs
  BY <1>0, WritesTyped DEF Inbox!OneWriteEach, Inbox!Waiting
<1>4. Inbox!OneWriteEach'
  <2>1. inboxPc'[c] \in Inbox!Waiting /\ \A d \in Inbox!Runs \ {c} : inboxPc'[d] = inboxPc[d]
    BY <1>0 DEF Inbox!Waiting, Inbox!TypeOK
  <2>2. \A k \in 1..Len(writes') : k \in 1..Len(writes) \/ k = Len(writes) + 1
    BY <1>1
  <2>3. \A k \in 1..Len(writes) : writes'[k].by = writes[k].by
    BY <1>1
  <2>4. ASSUME NEW k \in 1..Len(writes') PROVE inboxPc'[writes'[k].by] \in Inbox!Waiting
    BY <1>0, <1>1, <1>3, <2>1, <2>2, <2>3 DEF Inbox!OneWriteEach
  <2>5. ASSUME NEW k \in 1..Len(writes'), NEW m \in 1..Len(writes'),
               writes'[k].by = writes'[m].by
        PROVE  k = m
    BY <1>0, <1>1, <1>3, <2>2, <2>3, <2>5 DEF Inbox!OneWriteEach
  <2> QED
    BY <2>4, <2>5 DEF Inbox!OneWriteEach
<1>5. Inbox!Quiet'
  BY <1>0 DEF Inbox!Quiet, Inbox!TypeOK
<1>6. ASSUME NEW d \in Inbox!Runs PROVE Inbox!Listed(d)'
  <2>1. CASE d = c
    BY SMTT(60), <1>0, <1>1, <1>3, <2>1 DEF Inbox!Listed, Inbox!TypeOK
  <2>2. CASE d # c
    <3>1. id'[d] = id[d] /\ id[d] \in Envelopes /\ inboxPc'[d] = inboxPc[d] /\ Inbox!Listed(d)
      BY <1>0, <2>2 DEF Inbox!TypeOK, Inbox!InboxInv
    <3> QED
      BY SMTT(60), <1>1, <2>2, <3>1 DEF Inbox!Listed, Inbox!AtWork
  <2> QED
    BY <2>1, <2>2
<1> QED
  BY <1>2, <1>4, <1>5, <1>6 DEF Inbox!InboxInv

LEMMA RunNewKeeps == \A c \in Inbox!Runs, i \in Envelopes : Inbox!InboxInv /\ Inbox!RunNew(c, i) => Inbox!InboxInv'
<1> SUFFICES ASSUME NEW c \in Inbox!Runs, NEW i \in Envelopes, Inbox!InboxInv, Inbox!RunNew(c, i) PROVE Inbox!InboxInv'
  OBVIOUS
<1>1. Inbox!TypeOK
  BY DEF Inbox!InboxInv
<1>2. /\ entries' \in [Envelopes -> Inbox!Statuses] /\ entries'[i] # "none"
      /\ \A j \in Envelopes : entries[j] # "none" => entries'[j] # "none"
  BY <1>1 DEF Inbox!RunNew, Inbox!TypeOK, Inbox!Statuses
<1> QED
  BY <1>1, <1>2, BeginsKeep DEF Inbox!RunNew, Inbox!TypeOK

LEMMA RunPendingKeeps == \A c \in Inbox!Runs, i \in Envelopes : Inbox!InboxInv /\ Inbox!RunPending(c, i) => Inbox!InboxInv'
<1> SUFFICES ASSUME NEW c \in Inbox!Runs, NEW i \in Envelopes, Inbox!InboxInv, Inbox!RunPending(c, i) PROVE Inbox!InboxInv'
  OBVIOUS
<1>1. Inbox!TypeOK
  BY DEF Inbox!InboxInv
<1>2. /\ entries' = entries /\ entries[i] = "pending"
      /\ inboxInFlight' \in SUBSET Envelopes /\ todo' \in SUBSET Envelopes
  BY <1>1 DEF Inbox!RunPending, Inbox!Begin, Inbox!TypeOK
<1> QED
  BY <1>1, <1>2, BeginsKeep DEF Inbox!RunPending, Inbox!Begin, Inbox!TypeOK

\* A step that writes nothing and moves at most one call, to its end.
LEMMA EndsKeep ==
    ASSUME NEW c \in Inbox!Runs, Inbox!InboxInv, inboxPc[c] \in {"idle", "running", "done"}, id' \in [Inbox!Runs -> Envelopes],
           inboxPc' = [inboxPc EXCEPT ![c] = "done"], \A d \in Inbox!Runs \ {c} : id'[d] = id[d],
           inboxInFlight' \in SUBSET Envelopes, UNCHANGED <<up, entries, file, writes, broken, todo, outlived>>
    PROVE  Inbox!InboxInv'
<1>0. Inbox!TypeOK /\ Inbox!OneWriteEach /\ Inbox!Quiet
  BY DEF Inbox!InboxInv
<1>1. Inbox!TypeOK'
  BY <1>0 DEF Inbox!TypeOK, Inbox!Steps
<1>2. Inbox!OneWriteEach'
  BY <1>0, WritesTyped DEF Inbox!OneWriteEach, Inbox!Waiting, Inbox!TypeOK
<1>3. Inbox!Quiet'
  BY <1>0 DEF Inbox!Quiet, Inbox!TypeOK
<1>4. ASSUME NEW d \in Inbox!Runs PROVE Inbox!Listed(d)'
  <2>1. Inbox!Listed(d)
    BY DEF Inbox!InboxInv
  <2> QED
    BY <1>0, <2>1 DEF Inbox!Listed, Inbox!AtWork, Inbox!TypeOK
<1> QED
  BY <1>1, <1>2, <1>3, <1>4 DEF Inbox!InboxInv

LEMMA RunSettledKeeps == \A c \in Inbox!Runs, i \in Envelopes : Inbox!InboxInv /\ Inbox!RunSettled(c, i) => Inbox!InboxInv'
<1> SUFFICES ASSUME NEW c \in Inbox!Runs, NEW i \in Envelopes, Inbox!InboxInv, Inbox!RunSettled(c, i) PROVE Inbox!InboxInv'
  OBVIOUS
<1> QED
  BY EndsKeep DEF Inbox!RunSettled, Inbox!InboxInv, Inbox!TypeOK

LEMMA EntryMissingKeeps == \A c \in Inbox!Runs : Inbox!InboxInv /\ Inbox!EntryMissing(c) => Inbox!InboxInv'
<1> SUFFICES ASSUME NEW c \in Inbox!Runs, Inbox!InboxInv, Inbox!EntryMissing(c) PROVE Inbox!InboxInv'
  OBVIOUS
<1> QED
  BY EndsKeep DEF Inbox!EntryMissing, Inbox!InboxInv, Inbox!TypeOK

LEMMA RecoverSkipsKeeps == \A i \in Envelopes : Inbox!InboxInv /\ Inbox!RecoverSkips(i) => Inbox!InboxInv'
<1> SUFFICES ASSUME NEW i \in Envelopes, Inbox!InboxInv, Inbox!RecoverSkips(i) PROVE Inbox!InboxInv'
  OBVIOUS
<1> QED
  BY DEF Inbox!RecoverSkips, Inbox!InboxInv, Inbox!TypeOK, Inbox!OneWriteEach, Inbox!Quiet,
     Inbox!Listed, Inbox!AtWork

\* The oldest write is taken off the queue, done or rejected, and the call that
\* waits for it goes on, with or without another write.
LEMMA TakesKeep ==
    ASSUME NEW c \in Inbox!Runs, NEW step \in Inbox!Steps, Inbox!InboxInv, up, writes # <<>>, c = Head(writes).by,
           inboxPc' = [inboxPc EXCEPT ![c] = step],
           \/ step \in {"done", "running"} /\ writes' = Tail(writes)
           \/ step \in {"starting", "failing"} /\ writes' = Inbox!Persist(c, Tail(writes), entries'),
           step = "running" => inboxPc[c] = "starting",
           step = "starting" => inboxPc[c] = "accepting",
           entries' \in [Envelopes -> Inbox!Statuses],
           \A j \in Envelopes : entries[j] # "none" => entries'[j] # "none",
           file' \in [Envelopes -> Inbox!Statuses],
           \A j \in Head(writes).live :
                entries[j] # "none" /\ (file[j] # "none" \/ step = "running") => file'[j] # "none",
           inboxInFlight' \in SUBSET Envelopes, broken' \in BOOLEAN, UNCHANGED <<up, todo, id, outlived>>
    PROVE  Inbox!InboxInv'
<1>0. Inbox!TypeOK /\ Inbox!OneWriteEach /\ Inbox!Quiet
  BY DEF Inbox!InboxInv
<1> DEFINE rest == Tail(writes)
<1>1. /\ rest \in Seq(Inbox!Writes) /\ Len(rest) = Len(writes) - 1 /\ Len(writes) \in Nat \ {0}
      /\ \A k \in 1..Len(rest) : rest[k] = writes[k + 1]
      /\ c = writes[1].by
  BY <1>0, TailShifts DEF Inbox!TypeOK
<1> HIDE DEF rest
<1>2. /\ writes' \in Seq(Inbox!Writes)
      /\ Len(writes') \in {Len(rest), Len(rest) + 1}
      /\ \A k \in 1..Len(rest) : writes'[k] = writes[k + 1]
      /\ Len(writes') = Len(rest) + 1 =>
            /\ writes'[Len(writes')].by = c
            /\ writes'[Len(writes')].live = {j \in Envelopes : entries'[j] # "none"}
            /\ step \in {"starting", "failing"}
      /\ Len(writes') = Len(rest) => step \in {"done", "running"}
  <2>1. CASE step \in {"done", "running"} /\ writes' = rest
    BY <1>1, <2>1
  <2>2. CASE step \in {"starting", "failing"} /\ writes' = Inbox!Persist(c, rest, entries')
    <3>1. Len(rest) \in Nat
      BY <1>1
    <3> QED
      BY <1>1, <2>2, <3>1, PersistAppends
  <2> QED
    BY <2>1, <2>2 DEF rest
<1>3. Inbox!TypeOK'
  BY <1>0, <1>2 DEF Inbox!TypeOK
<1>4. \A k \in 1..Len(rest) : writes'[k].by # c /\ writes'[k].by \in Inbox!Runs
  <2> TAKE k \in 1..Len(rest)
  <2>1. k + 1 \in 1..Len(writes) /\ 1 \in 1..Len(writes) /\ k + 1 # 1
    BY <1>1
  <2> QED
    BY ZenonT(60), <1>0, <1>1, <1>2, <2>1, WritesTyped DEF Inbox!OneWriteEach
<1>5. Inbox!OneWriteEach'
  <2>1. \A k \in 1..Len(writes') : inboxPc'[writes'[k].by] \in Inbox!Waiting
    <3> TAKE k \in 1..Len(writes')
    <3>1. CASE k \in 1..Len(rest)
      <4>1. k + 1 \in 1..Len(writes)
        BY <1>1, <3>1
      <4> QED
        BY <1>0, <1>2, <1>4, <3>1, <4>1 DEF Inbox!OneWriteEach, Inbox!TypeOK
    <3>2. CASE k = Len(rest) + 1 /\ Len(writes') = Len(rest) + 1
      BY <1>0, <1>2, <3>2 DEF Inbox!Waiting, Inbox!TypeOK
    <3> QED
      BY <1>1, <1>2, <3>1, <3>2
  <2>2. \A k, m \in 1..Len(writes') : writes'[k].by = writes'[m].by => k = m
    <3> SUFFICES ASSUME NEW k \in 1..Len(writes'), NEW m \in 1..Len(writes'),
                        writes'[k].by = writes'[m].by
                 PROVE  k = m
      OBVIOUS
    <3>1. CASE k \in 1..Len(rest) /\ m \in 1..Len(rest)
      <4>1. k + 1 \in 1..Len(writes) /\ m + 1 \in 1..Len(writes)
        BY <1>1, <3>1
      <4>2. k + 1 = m + 1
        BY <1>0, <1>2, <3>1, <4>1 DEF Inbox!OneWriteEach
      <4> QED
        BY <1>1, <3>1, <4>2
    <3>2. CASE k \notin 1..Len(rest) \/ m \notin 1..Len(rest)
      BY SMTT(60), <1>1, <1>2, <1>4, <3>2
    <3> QED
      BY <3>1, <3>2
  <2> QED
    BY <2>1, <2>2 DEF Inbox!OneWriteEach
<1>6. Inbox!Quiet'
  <2>1. inboxPc[c] # "idle"
    BY <1>0, <1>1 DEF Inbox!OneWriteEach, Inbox!Waiting
  <2> QED
    BY <1>0, <1>2, <2>1 DEF Inbox!Quiet, Inbox!TypeOK
<1>7. ASSUME NEW d \in Inbox!Runs, Inbox!AtWork(d)' PROVE Inbox!Listed(d)'
  <2>1. Inbox!AtWork(d)
    BY <1>0, <1>1, <1>2, <1>7 DEF Inbox!AtWork, Inbox!TypeOK, Inbox!OneWriteEach, Inbox!Waiting
  <2>2. /\ entries[id[d]] # "none" /\ entries'[id[d]] # "none" /\ id[d] \in Envelopes /\ id' = id
        /\ \A k, m \in 1..Len(writes) : writes[k].by = d /\ m >= k => id[d] \in writes[m].live
        /\ inboxPc[d] = "running" => /\ file[id[d]] # "none"
                                /\ \A m \in 1..Len(writes) : id[d] \in writes[m].live
    BY <1>0, <2>1 DEF Inbox!InboxInv, Inbox!Listed, Inbox!TypeOK
  <2>3. ASSUME NEW m \in 1..Len(writes'), m = Len(rest) + 1 PROVE id[d] \in writes'[m].live
    BY <1>1, <1>2, <2>2, <2>3
  <2>4. CASE d = c
    <3>1. \A m \in 1..Len(writes) : id[d] \in writes[m].live
      BY <1>1, <2>2, <2>4
    <3>2. \A m \in 1..Len(writes') : id[d] \in writes'[m].live
      <4> TAKE m \in 1..Len(writes')
      <4>1. CASE m \in 1..Len(rest)
        BY <1>1, <1>2, <3>1, <4>1
      <4> QED
        BY <1>1, <1>2, <2>3, <4>1
    <3>3. inboxPc'[d] = "running" => file'[id[d]] # "none"
      BY SMTT(60), <1>0, <1>1, <2>2, <2>4, <3>1, TailShifts DEF Inbox!TypeOK
    <3> QED
      BY <2>2, <3>2, <3>3 DEF Inbox!Listed
  <2>5. CASE d # c
    <3>1. inboxPc'[d] = inboxPc[d]
      BY <1>0, <2>5 DEF Inbox!TypeOK
    <3>2. ASSUME NEW k \in 1..Len(writes'), NEW m \in 1..Len(writes'), writes'[k].by = d, m >= k
          PROVE  id[d] \in writes'[m].live
      <4>1. k \in 1..Len(rest)
        BY <1>1, <1>2, <2>5, <3>2
      <4>2. CASE m \in 1..Len(rest)
        <5>1. k + 1 \in 1..Len(writes) /\ m + 1 \in 1..Len(writes) /\ m + 1 >= k + 1
          BY <1>1, <3>2, <4>1, <4>2
        <5> QED
          BY <1>2, <2>2, <3>2, <4>1, <4>2, <5>1
      <4> QED
        BY <1>1, <1>2, <2>3, <4>2
    <3>3. CASE inboxPc[d] = "running"
      <4>1. \A m \in 1..Len(writes') : id[d] \in writes'[m].live
        <5> TAKE m \in 1..Len(writes')
        <5>1. CASE m \in 1..Len(rest)
          BY SMTT(60), <1>1, <1>2, <2>2, <3>3, <5>1
        <5> QED
          BY <1>1, <1>2, <2>3, <5>1
      <4>2. file'[id[d]] # "none"
        BY <1>0, <1>1, <2>2, <3>3, TailShifts DEF Inbox!TypeOK
      <4> QED
        BY <2>2, <3>2, <4>1, <4>2 DEF Inbox!Listed
    <3>4. CASE inboxPc[d] # "running"
      BY <2>2, <3>1, <3>2, <3>4 DEF Inbox!Listed
    <3> QED
      BY <3>3, <3>4
  <2> QED
    BY <2>4, <2>5
<1>8. \A d \in Inbox!Runs : Inbox!Listed(d)'
  BY <1>7 DEF Inbox!Listed
<1> QED
  BY <1>3, <1>5, <1>6, <1>8 DEF Inbox!InboxInv

LEMMA WriteKeeps == Inbox!InboxInv /\ Inbox!Write => Inbox!InboxInv'
<1> SUFFICES ASSUME Inbox!InboxInv, Inbox!Write PROVE Inbox!InboxInv'
  OBVIOUS
<1>0. Inbox!TypeOK
  BY DEF Inbox!InboxInv
<1> DEFINE w == Head(writes)
           c == w.by
<1>1. writes # <<>> /\ up /\ c \in Inbox!Runs /\ w.live \subseteq Envelopes /\ w \in Inbox!Writes
  BY <1>0, TailShifts DEF Inbox!Write, Inbox!TypeOK, Inbox!Writes
<1>2. id[c] \in Envelopes
  BY <1>0, <1>1 DEF Inbox!TypeOK
<1>3. /\ file' \in [Envelopes -> Inbox!Statuses]
      /\ \A j \in w.live : entries[j] # "none" => file'[j] # "none"
  BY <1>0, <1>1 DEF Inbox!Write, Inbox!Written, Inbox!TypeOK, Inbox!Statuses
<1>4. UNCHANGED <<up, entries, broken, todo, id, outlived>>
  BY DEF Inbox!Write
<1>5. CASE inboxPc[c] = "accepting" /\ Inbox!Begin(c, id[c]) /\ writes' = Inbox!Persist(c, Tail(writes), entries)
  <2>1. inboxPc' = [inboxPc EXCEPT ![c] = "starting"] /\ inboxInFlight' \in SUBSET Envelopes
    BY <1>0, <1>2, <1>5 DEF Inbox!Begin, Inbox!TypeOK
  <2> QED
    BY <1>0, <1>1, <1>3, <1>4, <1>5, <2>1, TakesKeep DEF Inbox!TypeOK, Inbox!Steps
<1>6. CASE /\ inboxPc[c] = "starting" /\ inboxPc' = [inboxPc EXCEPT ![c] = "running"]
           /\ writes' = Tail(writes) /\ inboxInFlight' = inboxInFlight
  BY <1>0, <1>1, <1>3, <1>4, <1>6, TakesKeep DEF Inbox!TypeOK, Inbox!Steps
<1>7. CASE /\ inboxPc' = [inboxPc EXCEPT ![c] = "done"]
           /\ writes' = Tail(writes) /\ inboxInFlight' = inboxInFlight \ {id[c]}
  <2>1. inboxInFlight' \in SUBSET Envelopes
    BY <1>0, <1>7 DEF Inbox!TypeOK
  <2> QED
    BY <1>0, <1>1, <1>3, <1>4, <1>7, <2>1, TakesKeep DEF Inbox!TypeOK, Inbox!Steps
<1> QED
  BY <1>5, <1>6, <1>7 DEF Inbox!Write

LEMMA WriteRejectedKeeps == Inbox!InboxInv /\ Inbox!WriteRejected => Inbox!InboxInv'
<1> SUFFICES ASSUME Inbox!InboxInv, Inbox!WriteRejected PROVE Inbox!InboxInv'
  OBVIOUS
<1>0. Inbox!TypeOK
  BY DEF Inbox!InboxInv
<1> DEFINE w == Head(writes)
           c == w.by
<1>1. writes # <<>> /\ up /\ c \in Inbox!Runs /\ w.live \subseteq Envelopes /\ w \in Inbox!Writes
  BY <1>0, TailShifts DEF Inbox!WriteRejected, Inbox!TypeOK, Inbox!Writes
<1>2. id[c] \in Envelopes /\ broken' \in BOOLEAN /\ UNCHANGED <<up, file, todo, id, outlived>>
  BY <1>0, <1>1 DEF Inbox!WriteRejected, Inbox!TypeOK
<1>3. CASE /\ inboxPc' = [inboxPc EXCEPT ![c] = "done"] /\ writes' = Tail(writes)
           /\ inboxInFlight' \in {inboxInFlight, inboxInFlight \ {id[c]}} /\ entries' = entries
  <2>1. inboxInFlight' \in SUBSET Envelopes
    BY <1>0, <1>3 DEF Inbox!TypeOK
  <2> QED
    BY <1>0, <1>1, <1>2, <1>3, <2>1, TakesKeep DEF Inbox!TypeOK, Inbox!Steps
<1>4. CASE /\ inboxPc' = [inboxPc EXCEPT ![c] = "failing"] /\ inboxInFlight' = inboxInFlight
           /\ entries' = [entries EXCEPT ![id[c]] = "failed"]
           /\ writes' = Inbox!Persist(c, Tail(writes), entries')
  <2>1. entries' \in [Envelopes -> Inbox!Statuses] /\ \A j \in Envelopes : entries[j] # "none" => entries'[j] # "none"
    BY <1>0, <1>2, <1>4 DEF Inbox!TypeOK, Inbox!Statuses
  <2> QED
    BY <1>0, <1>1, <1>2, <1>4, <2>1, TakesKeep DEF Inbox!TypeOK, Inbox!Steps
<1> QED
  BY <1>3, <1>4 DEF Inbox!WriteRejected

\* The handler has ended and its outcome is queued; the trimmed entries leave
\* the writes, and the calls that were at work on them are outlived.
LEMMA OutcomeKeeps ==
    ASSUME NEW c \in Inbox!Runs, NEW step \in {"completing", "failing"}, NEW gone \in SUBSET Envelopes,
           Inbox!InboxInv, up, inboxPc[c] = "running", inboxPc' = [inboxPc EXCEPT ![c] = step],
           entries' \in [Envelopes -> Inbox!Statuses],
           \A j \in Envelopes \ gone : entries[j] # "none" => entries'[j] # "none",
           NEW kept \in Seq(Inbox!Writes), Len(kept) = Len(writes),
           \A k \in 1..Len(writes) :
                kept[k].by = writes[k].by /\ kept[k].live = writes[k].live \ gone,
           writes' = Inbox!Persist(c, kept, entries'),
           outlived' = outlived \cup {d \in Inbox!Runs : inboxPc[d] \notin {"idle", "done"} /\ id[d] \in gone},
           UNCHANGED <<up, file, broken, inboxInFlight, todo, id>>
    PROVE  Inbox!InboxInv'
<1>0. Inbox!TypeOK /\ Inbox!OneWriteEach /\ Inbox!Quiet
  BY DEF Inbox!InboxInv
<1>1. Len(writes) \in Nat
  BY <1>0 DEF Inbox!TypeOK
<1>2. /\ writes' \in Seq(Inbox!Writes) /\ Len(writes') = Len(writes) + 1
      /\ \A k \in 1..Len(writes) : writes'[k] = kept[k]
      /\ writes'[Len(writes) + 1].by = c
      /\ writes'[Len(writes) + 1].live = {j \in Envelopes : entries'[j] # "none"}
  BY PersistAppends
<1>3. \A k \in 1..Len(writes) :
        writes'[k].by = writes[k].by /\ writes'[k].live = writes[k].live \ gone
  BY <1>2
<1>4. Inbox!TypeOK'
  BY <1>0, <1>2 DEF Inbox!TypeOK, Inbox!Steps
<1>5. \A k \in 1..Len(writes) : writes[k].by # c /\ writes[k].by \in Inbox!Runs
  BY <1>0, WritesTyped DEF Inbox!OneWriteEach, Inbox!Waiting
<1>6. \A k \in 1..Len(writes') : k \in 1..Len(writes) \/ k = Len(writes) + 1
  BY <1>1, <1>2
<1>7. Inbox!OneWriteEach'
  <2>1. \A k \in 1..Len(writes') : inboxPc'[writes'[k].by] \in Inbox!Waiting
    BY <1>0, <1>2, <1>3, <1>5, <1>6 DEF Inbox!OneWriteEach, Inbox!Waiting, Inbox!TypeOK
  <2>2. \A k, m \in 1..Len(writes') : writes'[k].by = writes'[m].by => k = m
    BY <1>0, <1>2, <1>3, <1>5, <1>6 DEF Inbox!OneWriteEach
  <2> QED
    BY <2>1, <2>2 DEF Inbox!OneWriteEach
<1>8. Inbox!Quiet'
  BY <1>0 DEF Inbox!Quiet, Inbox!TypeOK
<1>9. ASSUME NEW d \in Inbox!Runs, Inbox!AtWork(d)' PROVE Inbox!Listed(d)'
  <2>1. d # c /\ inboxPc'[d] = inboxPc[d] /\ d \notin outlived /\ Inbox!AtWork(d)
    BY <1>0, <1>9 DEF Inbox!AtWork, Inbox!TypeOK
  <2>2. id'[d] = id[d] /\ id[d] \in Envelopes \ gone /\ Inbox!Listed(d)
    BY <1>0, <1>9, <2>1 DEF Inbox!AtWork, Inbox!TypeOK, Inbox!InboxInv
  <2>3. entries[id[d]] # "none" /\ entries'[id[d]] # "none"
    BY <2>1, <2>2 DEF Inbox!Listed
  <2>4. id[d] \in writes'[Len(writes) + 1].live
    BY <1>2, <2>2, <2>3
  <2>5. ASSUME NEW k \in 1..Len(writes'), NEW m \in 1..Len(writes'), writes'[k].by = d, m >= k
        PROVE  id[d] \in writes'[m].live
    <3>1. k \in 1..Len(writes) /\ writes[k].by = d
      BY <1>2, <1>3, <1>6, <2>1, <2>5
    <3>2. CASE m \in 1..Len(writes)
      BY <1>3, <2>1, <2>2, <2>5, <3>1, <3>2 DEF Inbox!Listed
    <3> QED
      BY <1>6, <2>4, <3>2
  <2>6. ASSUME inboxPc[d] = "running", NEW m \in 1..Len(writes')
        PROVE  id[d] \in writes'[m].live
    <3>1. CASE m \in 1..Len(writes)
      BY <1>3, <2>1, <2>2, <2>6, <3>1 DEF Inbox!Listed
    <3> QED
      BY <1>6, <2>4, <3>1
  <2>7. inboxPc[d] = "running" => file'[id[d]] # "none"
    BY <2>1, <2>2 DEF Inbox!Listed
  <2> QED
    BY <2>1, <2>2, <2>3, <2>5, <2>6, <2>7 DEF Inbox!Listed
<1>10. \A d \in Inbox!Runs : Inbox!Listed(d)'
  BY <1>9 DEF Inbox!Listed
<1> QED
  BY <1>4, <1>7, <1>8, <1>10 DEF Inbox!InboxInv

LEMMA HandlerReturnsKeeps == \A c \in Inbox!Runs : Inbox!InboxInv /\ Inbox!HandlerReturns(c) => Inbox!InboxInv'
<1> SUFFICES ASSUME NEW c \in Inbox!Runs, Inbox!InboxInv, Inbox!HandlerReturns(c) PROVE Inbox!InboxInv'
  OBVIOUS
<1>0. Inbox!TypeOK
  BY DEF Inbox!InboxInv
<1> DEFINE marked == [entries EXCEPT ![id[c]] = "completed"]
<1>1. PICK gone \in Inbox!Trimmed(marked) :
        /\ entries' = [j \in Envelopes |-> IF j \in gone THEN "none" ELSE marked[j]]
        /\ writes' = Inbox!Persist(c, Inbox!Detach(writes, gone), entries')
        /\ outlived' = outlived \cup {d \in Inbox!Runs : inboxPc[d] \notin {"idle", "done"} /\ id[d] \in gone}
  BY DEF Inbox!HandlerReturns
<1>2. gone \in SUBSET Envelopes
  BY DEF Inbox!Trimmed
<1>3. /\ entries' \in [Envelopes -> Inbox!Statuses]
      /\ \A j \in Envelopes \ gone : entries[j] # "none" => entries'[j] # "none"
  BY <1>0, <1>1 DEF Inbox!TypeOK, Inbox!Statuses
<1> QED
  <2> DEFINE kept == Inbox!Detach(writes, gone)
  <2>1. /\ kept \in Seq(Inbox!Writes) /\ Len(kept) = Len(writes)
        /\ \A k \in 1..Len(writes) :
            kept[k].by = writes[k].by /\ kept[k].live = writes[k].live \ gone
    BY <1>0, <1>2, DetachKeeps DEF Inbox!TypeOK
  <2>2. writes' = Inbox!Persist(c, kept, entries')
    BY <1>1
  <2> HIDE DEF kept
  <2>3. /\ up /\ inboxPc[c] = "running" /\ inboxPc' = [inboxPc EXCEPT ![c] = "completing"]
        /\ UNCHANGED <<up, file, broken, inboxInFlight, todo, id>>
    BY DEF Inbox!HandlerReturns
  <2> QED
    BY <1>1, <1>2, <1>3, <2>1, <2>2, <2>3, OutcomeKeeps

LEMMA HandlerThrowsKeeps == \A c \in Inbox!Runs : Inbox!InboxInv /\ Inbox!HandlerThrows(c) => Inbox!InboxInv'
<1> SUFFICES ASSUME NEW c \in Inbox!Runs, Inbox!InboxInv, Inbox!HandlerThrows(c) PROVE Inbox!InboxInv'
  OBVIOUS
<1>0. Inbox!TypeOK
  BY DEF Inbox!InboxInv
<1>1. /\ entries' \in [Envelopes -> Inbox!Statuses]
      /\ \A j \in Envelopes \ {} : entries[j] # "none" => entries'[j] # "none"
  BY <1>0 DEF Inbox!HandlerThrows, Inbox!TypeOK, Inbox!Statuses
<1>2. /\ writes \in Seq(Inbox!Writes)
      /\ \A k \in 1..Len(writes) : writes[k].live = writes[k].live \ {}
      /\ outlived' = outlived \cup {d \in Inbox!Runs : inboxPc[d] \notin {"idle", "done"} /\ id[d] \in {}}
  BY <1>0 DEF Inbox!HandlerThrows, Inbox!TypeOK
<1>3. /\ up /\ inboxPc[c] = "running" /\ inboxPc' = [inboxPc EXCEPT ![c] = "failing"]
      /\ writes' = Inbox!Persist(c, writes, entries')
      /\ UNCHANGED <<up, file, broken, inboxInFlight, todo, id>>
  BY DEF Inbox!HandlerThrows
<1> QED
  BY <1>1, <1>2, <1>3, OutcomeKeeps

\* A crash leaves only the file; start() takes the entries from it.
LEMMA CrashKeeps == Inbox!InboxInv /\ Inbox!Crash => Inbox!InboxInv'
<1> SUFFICES ASSUME Inbox!InboxInv, Inbox!Crash PROVE Inbox!InboxInv'
  OBVIOUS
<1>0. Inbox!TypeOK
  BY DEF Inbox!InboxInv
<1>1. writes' = <<>> /\ outlived' = {} /\ \A c \in Inbox!Runs : inboxPc'[c] \in {"idle", "done"}
  BY DEF Inbox!Crash
<1>2. Inbox!TypeOK'
  <2>1. writes' \in Seq(Inbox!Writes)
    BY <1>1
  <2>2. entries' \in [Envelopes -> Inbox!Statuses] /\ inboxPc' \in [Inbox!Runs -> Inbox!Steps]
    BY DEF Inbox!Crash, Inbox!Statuses, Inbox!Steps
  <2> QED
    BY <1>0, <1>1, <2>1, <2>2 DEF Inbox!Crash, Inbox!TypeOK
<1> QED
  BY <1>1, <1>2 DEF Inbox!InboxInv, Inbox!OneWriteEach, Inbox!Quiet, Inbox!Listed, Inbox!AtWork

LEMMA RestartKeeps == Inbox!InboxInv /\ Inbox!Restart => Inbox!InboxInv'
<1> SUFFICES ASSUME Inbox!InboxInv, Inbox!Restart PROVE Inbox!InboxInv'
  OBVIOUS
<1>1. \A c \in Inbox!Runs : inboxPc'[c] \in {"idle", "done"}
  BY DEF Inbox!InboxInv, Inbox!Restart, Inbox!Quiet
<1>2. Inbox!TypeOK'
  BY DEF Inbox!InboxInv, Inbox!Restart, Inbox!TypeOK
<1> QED
  BY <1>1, <1>2 DEF Inbox!InboxInv, Inbox!Restart, Inbox!OneWriteEach, Inbox!Quiet, Inbox!Listed,
     Inbox!AtWork

LEMMA InboxInvNext == Inbox!InboxInv /\ [Inbox!Next]_Inbox!vars => Inbox!InboxInv'
<1> SUFFICES ASSUME Inbox!InboxInv, [Inbox!Next]_Inbox!vars PROVE Inbox!InboxInv'
  OBVIOUS
<1>1. CASE UNCHANGED Inbox!vars
  BY <1>1 DEF Inbox!vars, Inbox!InboxInv, Inbox!TypeOK, Inbox!OneWriteEach, Inbox!Quiet,
     Inbox!Listed, Inbox!AtWork
<1> QED
  BY <1>1, RunNewKeeps, RunPendingKeeps, RunSettledKeeps, RecoverSkipsKeeps, WriteKeeps,
     WriteRejectedKeeps, HandlerReturnsKeeps, HandlerThrowsKeeps, EntryMissingKeeps, CrashKeeps,
     RestartKeeps DEF Inbox!Next

LEMMA InboxInvMeans == Inbox!InboxInv => Inbox!TypeOK /\ Inbox!HandlersRunDurableWork
BY DEF Inbox!InboxInv, Inbox!Listed, Inbox!AtWork, Inbox!HandlersRunDurableWork

-----------------------------------------------------------------------------
\* What the runs of the inbox and of the host promise holds in every behaviour
\* of the composition: a step of the composition is a step of one part, and
\* leaves the other two alone.
LEMMA InboxSteps == MCNext \/ UNCHANGED <<focus, vars, inboxVars, hostVars>> => [Inbox!Next]_Inbox!vars
BY DEF MCNext, inboxVars, Inbox!vars

LEMMA HostSteps == MCNext \/ UNCHANGED <<focus, vars, inboxVars, hostVars>> => [Host!Next]_Host!vars
BY DEF MCNext, hostVars, Host!vars, Host!hostVars, Host!runVars, Host!serviceVars, Host!history,
   Host!bounds

\* However duplicates, failed writes, trimming, crashes and restarts interleave,
\* run() and recover() call a handler only for an entry the file holds, or one
\* that was completed and trimmed: the property the run checks, for any
\* envelopes, arrivals and bounds.
THEOREM InboxDurability ==
    ASSUME Envelopes # {}
    PROVE  MCSpec => []InboxIsDurable
<1>1. MCInit => Inbox!InboxInv
  BY InboxInvInit DEF MCInit
<1>2. Inbox!InboxInv /\ [MCNext]_<<focus, vars, inboxVars, hostVars>> => Inbox!InboxInv'
  BY InboxSteps, InboxInvNext
<1>3. Inbox!InboxInv => InboxIsDurable
  BY InboxInvMeans DEF InboxIsDurable
<1> QED
  BY <1>1, <1>2, <1>3, PTL DEF MCSpec

\* executeNeed() with an effect ledger calls the adapter at most once for a NEED,
\* records its effect truthfully and leaves reservations only to reconciliation.
THEOREM PaidEffects == MCSpec => []PaidEffectsSound
<1>1. MCInit => Host!EffectInv
  BY Host!EffectInvInit DEF MCInit
<1>2. Host!EffectInv /\ [MCNext]_<<focus, vars, inboxVars, hostVars>> => Host!EffectInv'
  BY HostSteps, Host!EffectInvNext, ProviderConstants
<1>3. Host!EffectInv => PaidEffectsSound
  BY Host!EffectInvMeans DEF PaidEffectsSound
<1> QED
  BY <1>1, <1>2, <1>3, PTL DEF MCSpec
=============================================================================
