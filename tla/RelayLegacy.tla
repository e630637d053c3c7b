---------------------------- MODULE RelayLegacy ----------------------------
(***************************************************************************)
(* network/relay/server.js: NEEDs, RESULTs and REVOKEs sent as signed      *)
(* envelopes (the legacy routes), their status, and the durable outbox,    *)
(* at relays with a lifecycle ledger.  Relays that share the distributed   *)
(* ledger each keep their own requests, so a RESULT or a REVOKE may reach  *)
(* a relay that never saw the NEED, or no longer knows of it.              *)
(*                                                                         *)
(* A call is one run of a handler.  Between two awaits it is not           *)
(* interrupted: at "reserving", "completing" or "cancelling" it has sent   *)
(* its ledger operation, at "committed" or "thrown" it has had its answer. *)
(* An operation of the distributed ledger may commit and throw.            *)
(***************************************************************************)
EXTENDS Naturals, FiniteSets, FiniteSetTheorems, TLAPS

CONSTANTS
    Relays, Needs, Calls,
    Ledgers,       \* the ledgers the relays may be started with
    Colliding,     \* the NEEDs that have the identifier of an OFFER
    MaxRequests,   \* maxRequests
    MaxRestarts    \* bound on restarts

LegacyAssumption ==
    /\ Ledgers \subseteq {"sqlite", "cosmos"} /\ Ledgers # {}
    /\ Colliding \subseteq Needs /\ IsFiniteSet(Needs)
    /\ MaxRequests \in Nat \ {0} /\ MaxRestarts \in Nat

VARIABLES
    kind,       \* lifecycleLedger.kind
    ledger,     \* per NEED: its status, the events to be recovered and those acknowledged
    request,    \* requests of each relay, by status
    reserved,   \* selectionReservations of each relay
    inFlight,   \* inFlightByProvider at each relay
    call,       \* the handlers
    sent,       \* history: events sent live, and how often
    told,       \* history: the ends each NEED was said to have
    restarts

legacyVars == <<kind, ledger, request, reserved, inFlight, call, sent, told, restarts>>

Terminal == {"completed", "cancelled", "failed"}
Events == {"NEED", "RESULT", "REVOKE"}
Recipient == [NEED |-> "provider", RESULT |-> "requester", REVOKE |-> "provider"]

Pcs == {"matching", "reserving", "completing", "cancelling", "committed", "thrown"}
Ops == {"need", "result", "recovered", "revoke", "revokeDurable"}
Statuses == {"absent", "matched"} \cup Terminal

NoCall == [pc |-> "idle", op |-> "none"]

LegacyTypeOK ==
    /\ kind \in Ledgers
    /\ ledger \in [Needs -> [status : Statuses, pending : SUBSET Events, acked : SUBSET Events]]
    /\ request \in [Relays -> [Needs -> {"none", "matched"} \cup Terminal]]
    /\ reserved \in [Relays -> SUBSET Needs]
    /\ inFlight \in [Relays -> Nat]
    /\ call \in [Calls -> {NoCall} \cup [pc : Pcs, op : Ops, relay : Relays, need : Needs]]
    /\ sent \in [Needs -> [Events -> Nat]]
    /\ told \in [Needs -> SUBSET Terminal]

LegacyInit ==
    /\ kind \in Ledgers
    /\ ledger = [n \in Needs |-> [status |-> "absent", pending |-> {}, acked |-> {}]]
    /\ request = [r \in Relays |-> [n \in Needs |-> "none"]]
    /\ reserved = [r \in Relays |-> {}]
    /\ inFlight = [r \in Relays |-> 0]
    /\ call = [c \in Calls |-> NoCall]
    /\ sent = [n \in Needs |-> [e \in Events |-> 0]]
    /\ told = [n \in Needs |-> {}]
    /\ restarts = 0

\* Relays share only the distributed ledger.
Serves(r) == kind = "cosmos" \/ r = CHOOSE s \in Relays : TRUE

-----------------------------------------------------------------------------
Enters(c, r, n, op, pc) ==
    /\ Serves(r) /\ call[c].pc = "idle"
    /\ call' = [call EXCEPT ![c] = [pc |-> pc, op |-> op, relay |-> r, need |-> n]]

Goes(c, pc) == call' = [call EXCEPT ![c].pc = pc]
Leaves(c) == call' = [call EXCEPT ![c] = NoCall]
At(c, op, pc) == call[c].op = op /\ call[c].pc = pc

\* queue(), queueCancellation: an event goes out live.  A NEED is counted, to two.
SendLive(n, e) ==
    sent' = [sent EXCEPT ![n][e] = IF @ = 0 \/ (e = "NEED" /\ @ = 1) THEN @ + 1 ELSE @]

\* markRequestStatus, of the request the handler holds.
MarkRequestStatus(r, n, to) ==
    /\ request' = [request EXCEPT ![r][n] = IF @ = "none" THEN @ ELSE to]
    /\ inFlight' = [inFlight EXCEPT ![r] = IF request[r][n] = "matched" THEN @ - 1 ELSE @]

\* POST /v1/needs: known to neither the relay nor the ledger.
PostNeed(c, r, n) ==
    /\ Enters(c, r, n, "need", "matching")
    /\ request[r][n] = "none" /\ ledger[n].status = "absent"
    /\ UNCHANGED <<kind, ledger, request, reserved, inFlight, sent, told, restarts>>

Held(r) == {n \in Needs : request[r][n] # "none"}
Over(r) == {n \in Held(r) : request[r][n] \in Terminal}

\* pruneCompleted.
Prunings(r) ==
    IF Cardinality(Held(r)) < MaxRequests THEN {{}}
    ELSE IF Cardinality(Held(r) \ Over(r)) >= MaxRequests THEN {Over(r)}
    ELSE {gone \in SUBSET Over(r) : Cardinality(Held(r) \ gone) = MaxRequests - 1}

\* matchingOffers has a match and room to reserve it; the requests are pruned,
\* and admitDirectNeedId finds no request of that id.  When the pruning makes no
\* room the reservation is left to expire.
Matched(c) ==
    LET r == call[c].relay
        n == call[c].need
    IN /\ At(c, "need", "matching") /\ Cardinality(reserved[r]) < MaxRequests
       /\ \E gone \in Prunings(r) :
            /\ request' = [request EXCEPT ![r] = [m \in Needs |-> IF m \in gone THEN "none" ELSE @[m]]]
            /\ IF Cardinality(Held(r) \ gone) >= MaxRequests
               THEN reserved' = [reserved EXCEPT ![r] = @ \cup {n}] /\ Leaves(c)
               ELSE IF request'[r][n] # "none"
               THEN reserved' = [reserved EXCEPT ![r] = @ \ {n}] /\ Leaves(c)
               ELSE reserved' = [reserved EXCEPT ![r] = @ \cup {n}] /\ Goes(c, "reserving")
       /\ UNCHANGED <<kind, ledger, inFlight, sent, told, restarts>>

\* No provider matches, the OFFERs cannot be read, or there is no room for the
\* reservation.
Unmatched(c) ==
    /\ At(c, "need", "matching")
    /\ Leaves(c)
    /\ UNCHANGED <<kind, ledger, request, reserved, inFlight, sent, told, restarts>>

\* A reservation expires, or is found stale by the next rankOffers.
ReservationExpires(r, n) ==
    /\ n \in reserved[r]
    /\ reserved' = [reserved EXCEPT ![r] = @ \ {n}]
    /\ UNCHANGED <<kind, ledger, request, inFlight, call, sent, told, restarts>>

\* The operation a handler sent to the ledger: it is carried out if the ledger
\* allows it, and then the reply may be lost; refused or failed, it throws.
Operates(c, op, pc, allowed, next) ==
    LET n == call[c].need
    IN /\ At(c, op, pc)
       /\ \/ /\ allowed /\ ledger' = [ledger EXCEPT ![n] = next]
             /\ \/ Goes(c, "committed")
                \/ kind = "cosmos" /\ Goes(c, "thrown")
          \/ Goes(c, "thrown") /\ UNCHANGED ledger
       /\ UNCHANGED <<kind, request, reserved, inFlight, sent, told, restarts>>

Committed(n, status, event) ==
    [ledger[n] EXCEPT !.status = status, !.pending = @ \cup {event}]

Reserves(c) ==
    LET n == call[c].need
    IN Operates(c, "need", "reserving", ledger[n].status = "absent", Committed(n, "matched", "NEED"))

\* The NEED is a request of this relay and goes out to its provider.
Admitted(c) ==
    LET r == call[c].relay
        n == call[c].need
    IN /\ At(c, "need", "committed")
       /\ request' = [request EXCEPT ![r][n] = "matched"]
       /\ inFlight' = [inFlight EXCEPT ![r] = @ + 1]
       /\ reserved' = [reserved EXCEPT ![r] = @ \ {n}]
       /\ SendLive(n, "NEED")
       /\ Leaves(c)
       /\ UNCHANGED <<kind, ledger, told, restarts>>

NeedThrown(c) ==
    /\ At(c, "need", "thrown")
    /\ reserved' = [reserved EXCEPT ![call[c].relay] = @ \ {call[c].need}]
    /\ Leaves(c)
    /\ UNCHANGED <<kind, ledger, request, inFlight, sent, told, restarts>>

-----------------------------------------------------------------------------
\* POST /v1/results for a request of this relay.
PostResult(c, r, n) ==
    /\ Enters(c, r, n, "result", "completing")
    /\ request[r][n] = "matched"
    /\ UNCHANGED <<kind, ledger, request, reserved, inFlight, sent, told, restarts>>

\* Or for one it does not know and the ledger does: only the distributed ledger
\* lets it be completed, others answer request_recovery_required.
PostRecovered(c, r, n) ==
    /\ Enters(c, r, n, "recovered", "completing")
    /\ request[r][n] = "none" /\ ledger[n].status = "matched" /\ kind = "cosmos"
    /\ UNCHANGED <<kind, ledger, request, reserved, inFlight, sent, told, restarts>>

\* transitionNeed to completed, with the RESULT for the requester's outbox.
Completes(c) ==
    LET n == call[c].need
    IN Operates(c, call[c].op, "completing", ledger[n].status = "matched", Committed(n, "completed", "RESULT"))

\* completeRequest marks the request, then the RESULT goes out.
ResultFinish(c) ==
    LET n == call[c].need
    IN /\ At(c, "result", "committed")
       /\ MarkRequestStatus(call[c].relay, n, "completed")
       /\ SendLive(n, "RESULT")
       /\ told' = [told EXCEPT ![n] = @ \cup {"completed"}]
       /\ Leaves(c)
       /\ UNCHANGED <<kind, ledger, reserved, restarts>>

\* A recovered RESULT is left to the outbox.
RecoveredFinish(c) ==
    /\ At(c, "recovered", "committed")
    /\ told' = [told EXCEPT ![call[c].need] = @ \cup {"completed"}]
    /\ Leaves(c)
    /\ UNCHANGED <<kind, ledger, request, reserved, inFlight, sent, restarts>>

EndThrown(c) ==
    /\ call[c].op \in {"result", "recovered", "revoke", "revokeDurable"} /\ call[c].pc = "thrown"
    /\ Leaves(c)
    /\ UNCHANGED <<kind, ledger, request, reserved, inFlight, sent, told, restarts>>

-----------------------------------------------------------------------------
\* POST /v1/revoke: with the distributed ledger the kind of the target must be
\* given, without it an identifier that is also an OFFER's is ambiguous.
Targets(n, target) ==
    target = "need" \/ (kind # "cosmos" /\ n \notin Colliding)

\* A request that is matched here, or one that only the ledger knows.
Revoke(c, r, n, target) ==
    /\ Targets(n, target)
    /\ \/ request[r][n] = "matched" /\ Enters(c, r, n, "revoke", "cancelling")
       \/ /\ request[r][n] = "none" /\ ledger[n].status # "absent"
          /\ Enters(c, r, n, "revokeDurable", "cancelling")
    /\ UNCHANGED <<kind, ledger, request, reserved, inFlight, sent, told, restarts>>

\* Cancelled before: the REVOKE goes out once more.
RevokeAgain(r, n, target) ==
    /\ Serves(r) /\ Targets(n, target) /\ request[r][n] = "cancelled"
    /\ SendLive(n, "REVOKE")
    /\ told' = [told EXCEPT ![n] = @ \cup {"cancelled"}]
    /\ UNCHANGED <<kind, ledger, request, reserved, inFlight, call, restarts>>

\* transitionNeed to cancelled; a NEED that is cancelled already stays so.
Cancels(c) ==
    LET n == call[c].need
        next == IF ledger[n].status = "cancelled" THEN ledger[n] ELSE Committed(n, "cancelled", "REVOKE")
    IN Operates(c, call[c].op, "cancelling", ledger[n].status \in {"matched", "cancelled"}, next)

\* The request is cancelled and the REVOKE goes out, unless there is no room for
\* it (cancellation_backpressure).
RevokeFinish(c, room) ==
    LET n == call[c].need
    IN /\ At(c, "revoke", "committed")
       /\ MarkRequestStatus(call[c].relay, n, "cancelled")
       /\ IF room THEN SendLive(n, "REVOKE") ELSE UNCHANGED sent
       /\ told' = [told EXCEPT ![n] = @ \cup {"cancelled"}]
       /\ Leaves(c)
       /\ UNCHANGED <<kind, ledger, reserved, restarts>>

\* Of a NEED only the ledger knew, the REVOKE is left to the outbox.
RevokeDurableFinish(c) ==
    /\ At(c, "revokeDurable", "committed")
    /\ told' = [told EXCEPT ![call[c].need] = @ \cup {"cancelled"}]
    /\ Leaves(c)
    /\ UNCHANGED <<kind, ledger, request, reserved, inFlight, sent, restarts>>

-----------------------------------------------------------------------------
\* GET /v1/requests/:id: what this relay has, or else the ledger.
Shown(r, n) == IF request[r][n] # "none" THEN request[r][n] ELSE ledger[n].status

LegacyStatus(r, n) ==
    /\ Serves(r) /\ Shown(r, n) \in Terminal
    /\ told' = [told EXCEPT ![n] = @ \cup {Shown(r, n)}]
    /\ UNCHANGED <<kind, ledger, request, reserved, inFlight, call, sent, restarts>>

\* Deliveries are read without being acknowledged; only the recipient's
\* acknowledgement takes one from the outbox.
Acknowledge(n, e, by) ==
    /\ e \in ledger[n].pending /\ by = Recipient[e]
    /\ ledger' = [ledger EXCEPT ![n].pending = @ \ {e}, ![n].acked = @ \cup {e}]
    /\ UNCHANGED <<kind, request, reserved, inFlight, call, sent, told, restarts>>

\* A relay starts again: its maps are empty and its handlers are gone.
Restart(r) ==
    /\ restarts < MaxRestarts /\ Serves(r)
    /\ restarts' = restarts + 1
    /\ request' = [request EXCEPT ![r] = [n \in Needs |-> "none"]]
    /\ reserved' = [reserved EXCEPT ![r] = {}]
    /\ inFlight' = [inFlight EXCEPT ![r] = 0]
    /\ call' = [c \in Calls |-> IF call[c].pc # "idle" /\ call[c].relay = r THEN NoCall ELSE call[c]]
    /\ UNCHANGED <<kind, ledger, sent, told>>

LegacyNext ==
    \/ \E c \in Calls, r \in Relays, n \in Needs :
        \/ PostNeed(c, r, n) \/ PostResult(c, r, n) \/ PostRecovered(c, r, n)
        \/ \E target \in {"auto", "need"} : Revoke(c, r, n, target)
    \/ \E c \in Calls :
        \/ Matched(c) \/ Unmatched(c) \/ Reserves(c) \/ Admitted(c) \/ NeedThrown(c)
        \/ Completes(c) \/ ResultFinish(c) \/ RecoveredFinish(c) \/ EndThrown(c)
        \/ Cancels(c) \/ RevokeDurableFinish(c) \/ \E room \in BOOLEAN : RevokeFinish(c, room)
    \/ \E r \in Relays, n \in Needs :
        \/ ReservationExpires(r, n) \/ LegacyStatus(r, n)
        \/ \E target \in {"auto", "need"} : RevokeAgain(r, n, target)
    \/ \E n \in Needs, e \in Events, by \in {"provider", "requester"} : Acknowledge(n, e, by)
    \/ \E r \in Relays : Restart(r)

LegacySpec == LegacyInit /\ [][LegacyNext]_legacyVars

-----------------------------------------------------------------------------
\* Whatever relay a handler runs at and whatever it has forgotten: a NEED goes
\* out to its provider at most once, nobody is told or sent an end that is not
\* the one the ledger holds, and no relay keeps such an end.
OneEndEverywhere ==
    \A n \in Needs :
        /\ sent[n]["NEED"] <= 1
        /\ told[n] \subseteq {ledger[n].status}
        /\ sent[n]["RESULT"] > 0 => ledger[n].status = "completed"
        /\ sent[n]["REVOKE"] > 0 => ledger[n].status = "cancelled"
        /\ \A r \in Relays : request[r][n] \in Terminal => request[r][n] = ledger[n].status

\* What was committed can be recovered until it is acknowledged, whether it was
\* sent live or not, and nothing else is in the outbox.
OutboxCarriesTheLife ==
    \A n \in Needs :
        ledger[n].pending \cup ledger[n].acked =
            (IF ledger[n].status = "absent" THEN {} ELSE {"NEED"})
                \cup (IF ledger[n].status = "completed" THEN {"RESULT"} ELSE {})
                \cup (IF ledger[n].status = "cancelled" THEN {"REVOKE"} ELSE {})

\* The provider is charged with exactly the requests this relay has matched.
InFlightCounts ==
    \A r \in Relays : inFlight[r] = Cardinality({n \in Needs : request[r][n] = "matched"})
-----------------------------------------------------------------------------
(***************************************************************************)
(* Proofs.  A handler acts on what the ledger told it before the relay's   *)
(* maps, or another relay, changed.  What makes that safe: an end in the   *)
(* ledger is final, and one handler alone was told that it reserved the    *)
(* NEED, at a time when no relay held it.                                  *)
(***************************************************************************)

\* The step a handler can be at.
OpsFit ==
    \A c \in Calls :
        /\ call[c].pc \in {"matching", "reserving"} => call[c].op = "need"
        /\ call[c].pc = "completing" => call[c].op \in {"result", "recovered"}
        /\ call[c].pc = "cancelling" => call[c].op \in {"revoke", "revokeDurable"}

\* A NEED the ledger does not hold is known to nobody.
Unborn ==
    \A n \in Needs : ledger[n].status = "absent" =>
        /\ \A e \in Events : sent[n][e] = 0
        /\ told[n] = {}
        /\ \A r \in Relays : request[r][n] = "none"
        /\ \A c \in Calls : call[c].pc = "committed" => call[c].need # n

\* The handler whose reservation was committed is the only one, and until it
\* goes on the NEED is a request of no relay.
ReservedByOne ==
    \A c \in Calls : At(c, "need", "committed") =>
        /\ sent[call[c].need]["NEED"] = 0
        /\ \A r \in Relays : request[r][call[c].need] = "none"
        /\ \A d \in Calls : At(d, "need", "committed") /\ call[d].need = call[c].need => d = c

\* A handler that was told of an end was told the ledger's.
ToldTheEnd ==
    \A c \in Calls : call[c].pc = "committed" =>
        /\ call[c].op \in {"result", "recovered"} => ledger[call[c].need].status = "completed"
        /\ call[c].op \in {"revoke", "revokeDurable"} => ledger[call[c].need].status = "cancelled"

LegacyInv ==
    /\ LegacyTypeOK
    /\ OpsFit /\ Unborn /\ ReservedByOne /\ ToldTheEnd
    /\ OneEndEverywhere
    /\ OutboxCarriesTheLife
    /\ InFlightCounts

LEMMA CallTyped ==
    ASSUME LegacyTypeOK, NEW c \in Calls, call[c].pc # "idle"
    PROVE  call[c] \in [pc : Pcs, op : Ops, relay : Relays, need : Needs]
BY DEF LegacyTypeOK, NoCall

LEMMA LegacyInvInit == LegacyAssumption /\ LegacyInit => LegacyInv
<1> SUFFICES ASSUME LegacyAssumption, LegacyInit PROVE LegacyInv
  OBVIOUS
<1>1. LegacyTypeOK
  BY DEF LegacyInit, LegacyTypeOK, Statuses, Terminal
<1>2. OpsFit /\ ReservedByOne /\ ToldTheEnd /\ Unborn
  BY DEF LegacyInit, OpsFit, ReservedByOne, ToldTheEnd, Unborn, At, NoCall
<1>3. OneEndEverywhere /\ OutboxCarriesTheLife
  BY DEF LegacyInit, OneEndEverywhere, OutboxCarriesTheLife, Terminal, Events
<1>4. InFlightCounts
  <2> SUFFICES ASSUME NEW r \in Relays
               PROVE  inFlight[r] = Cardinality({n \in Needs : request[r][n] = "matched"})
    BY DEF InFlightCounts
  <2>1. {n \in Needs : request[r][n] = "matched"} = {}
    BY DEF LegacyInit
  <2> QED
    BY <2>1, FS_EmptySet DEF LegacyInit
<1> QED
  BY <1>1, <1>2, <1>3, <1>4 DEF LegacyInv

\* A step that only moves handlers, none of them to "committed", and changes
\* the selection reservations.
LEMMA HandlersMove ==
    ASSUME LegacyInv, LegacyTypeOK', OpsFit',
           UNCHANGED <<ledger, request, inFlight, sent, told>>,
           \A c \in Calls : call'[c].pc = "committed" => call'[c] = call[c]
    PROVE  LegacyInv'
<1>1. Unborn' /\ ToldTheEnd'
  BY DEF LegacyInv, Unborn, ToldTheEnd
<1>2. ReservedByOne'
  BY DEF LegacyInv, ReservedByOne, At
<1>3. OneEndEverywhere' /\ OutboxCarriesTheLife' /\ InFlightCounts'
  BY DEF LegacyInv, OneEndEverywhere, OutboxCarriesTheLife, InFlightCounts
<1> QED
  BY <1>1, <1>2, <1>3 DEF LegacyInv

\* A handler enters, with what it found.
LEMMA EntersKeeps ==
    ASSUME LegacyInv, NEW c \in Calls, NEW r \in Relays, NEW n \in Needs, NEW op \in Ops, NEW pc \in Pcs,
           Enters(c, r, n, op, pc), pc # "committed",
           pc \in {"matching", "reserving"} => op = "need",
           pc = "completing" => op \in {"result", "recovered"},
           pc = "cancelling" => op \in {"revoke", "revokeDurable"},
           UNCHANGED <<kind, ledger, request, reserved, inFlight, sent, told, restarts>>
    PROVE  LegacyInv'
<1>1. LegacyTypeOK
  BY DEF LegacyInv
<1>2. LegacyTypeOK'
  BY <1>1 DEF LegacyTypeOK, Enters
<1>3. OpsFit'
  BY <1>1 DEF LegacyInv, OpsFit, Enters, LegacyTypeOK
<1>4. \A d \in Calls : call'[d].pc = "committed" => call'[d] = call[d]
  BY <1>1 DEF Enters, LegacyTypeOK
<1> QED
  BY <1>2, <1>3, <1>4, HandlersMove

\* A handler leaves without having changed anything but a reservation.
LEMMA LeavesKeeps ==
    ASSUME LegacyInv, NEW c \in Calls, Leaves(c), reserved' \in [Relays -> SUBSET Needs],
           UNCHANGED <<kind, ledger, request, inFlight, sent, told, restarts>>
    PROVE  LegacyInv'
<1>1. LegacyTypeOK
  BY DEF LegacyInv
<1>2. LegacyTypeOK'
  BY <1>1 DEF LegacyTypeOK, Leaves
<1>3. OpsFit'
  BY <1>1 DEF LegacyInv, OpsFit, Leaves, LegacyTypeOK, NoCall
<1>4. \A d \in Calls : call'[d].pc = "committed" => call'[d] = call[d]
  BY <1>1 DEF Leaves, LegacyTypeOK, NoCall
<1> QED
  BY <1>2, <1>3, <1>4, HandlersMove

\* The handlers that only enter or leave.
LEMMA EnterOrLeaveKeeps ==
    ASSUME LegacyInv, NEW c \in Calls, NEW r \in Relays, NEW n \in Needs, NEW target,
           \/ PostNeed(c, r, n) \/ PostResult(c, r, n) \/ PostRecovered(c, r, n)
           \/ Revoke(c, r, n, target) \/ Unmatched(c) \/ NeedThrown(c) \/ EndThrown(c)
    PROVE  LegacyInv'
<1>1. CASE PostNeed(c, r, n)
  BY <1>1, EntersKeeps DEF PostNeed, Ops, Pcs
<1>2. CASE PostResult(c, r, n)
  BY <1>2, EntersKeeps DEF PostResult, Ops, Pcs
<1>3. CASE PostRecovered(c, r, n)
  BY <1>3, EntersKeeps DEF PostRecovered, Ops, Pcs
<1>4. CASE Revoke(c, r, n, target)
  BY <1>4, EntersKeeps DEF Revoke, Ops, Pcs
<1>5. CASE Unmatched(c) \/ EndThrown(c)
  BY <1>5, LeavesKeeps DEF Unmatched, EndThrown, LegacyInv, LegacyTypeOK
<1>6. CASE NeedThrown(c)
  <2>1. reserved' \in [Relays -> SUBSET Needs]
    BY <1>6 DEF NeedThrown, LegacyInv, LegacyTypeOK
  <2> QED
    BY <1>6, <2>1, LeavesKeeps DEF NeedThrown
<1> QED
  BY <1>1, <1>2, <1>3, <1>4, <1>5, <1>6

LEMMA ReservationExpiresKeeps ==
    ASSUME LegacyInv, NEW r \in Relays, NEW n \in Needs, ReservationExpires(r, n)
    PROVE  LegacyInv'
<1>1. LegacyTypeOK' /\ OpsFit'
  BY DEF LegacyInv, LegacyTypeOK, OpsFit, ReservationExpires
<1> QED
  BY <1>1, HandlersMove DEF ReservationExpires

\* pruneCompleted drops only requests that are over.
LEMMA MatchedKeeps ==
    ASSUME LegacyInv, NEW c \in Calls, Matched(c)
    PROVE  LegacyInv'
<1>1. LegacyTypeOK
  BY DEF LegacyInv
<1> DEFINE r == call[c].relay
           n == call[c].need
<1>2. r \in Relays /\ n \in Needs /\ call[c].op = "need" /\ call[c].pc = "matching"
  BY <1>1, CallTyped DEF Matched, At
<1>3. PICK gone \in Prunings(r) :
        /\ request' = [request EXCEPT ![r] = [m \in Needs |-> IF m \in gone THEN "none" ELSE @[m]]]
        /\ reserved' \in {[reserved EXCEPT ![r] = @ \cup {n}], [reserved EXCEPT ![r] = @ \ {n}]}
        /\ Leaves(c) \/ Goes(c, "reserving")
  BY DEF Matched
<1>4. UNCHANGED <<kind, ledger, inFlight, sent, told, restarts>>
  BY DEF Matched
<1>5. gone \subseteq {m \in Needs : request[r][m] \in Terminal}
  BY <1>3 DEF Prunings, Over, Held
<1> HIDE DEF r, n
<1>6. /\ request' \in [Relays -> [Needs -> {"none", "matched"} \cup Terminal]]
      /\ \A q \in Relays, m \in Needs : request'[q][m] = request[q][m]
                                        \/ (request[q][m] \in Terminal /\ request'[q][m] = "none")
  BY <1>1, <1>2, <1>3, <1>5 DEF LegacyTypeOK
<1>7. /\ call' \in [Calls -> {NoCall} \cup [pc : Pcs, op : Ops, relay : Relays, need : Needs]]
      /\ \A d \in Calls : d # c => call'[d] = call[d]
      /\ call'[c].pc \in {"idle", "reserving"} /\ (call'[c].pc = "reserving" => call'[c].op = "need")
  <2>1. CASE Leaves(c)
    BY <1>1, <2>1 DEF Leaves, LegacyTypeOK, NoCall
  <2>2. CASE Goes(c, "reserving")
    <3>1. call[c] \in [pc : Pcs, op : Ops, relay : Relays, need : Needs]
      BY <1>1, <1>2, CallTyped
    <3> QED
      BY <1>1, <1>2, <2>2, <3>1 DEF Goes, LegacyTypeOK, Pcs
  <2> QED
    BY <1>3, <2>1, <2>2
<1>8. LegacyTypeOK'
  <2>1. reserved' \in [Relays -> SUBSET Needs]
    <3>1. reserved \in [Relays -> SUBSET Needs]
      BY <1>1 DEF LegacyTypeOK
    <3>2. CASE reserved' = [reserved EXCEPT ![r] = @ \cup {n}]
      BY <1>2, <3>1, <3>2
    <3>3. CASE reserved' = [reserved EXCEPT ![r] = @ \ {n}]
      BY <1>2, <3>1, <3>3
    <3> QED
      BY <1>3, <3>2, <3>3
  <2> QED
    BY <1>1, <1>4, <1>6, <1>7, <2>1 DEF LegacyTypeOK
<1>9. OpsFit' /\ Unborn' /\ ToldTheEnd'
  BY <1>4, <1>6, <1>7 DEF LegacyInv, OpsFit, Unborn, ToldTheEnd, Terminal
<1>10. ReservedByOne'
  <2> SUFFICES ASSUME NEW d \in Calls, At(d, "need", "committed")'
               PROVE  /\ sent'[call'[d].need]["NEED"] = 0
                      /\ \A q \in Relays : request'[q][call'[d].need] = "none"
                      /\ \A x \in Calls : At(x, "need", "committed")' /\ call'[x].need = call'[d].need => x = d
    BY DEF ReservedByOne
  <2>1. At(d, "need", "committed") /\ call'[d] = call[d] /\ call[d].need \in Needs
    BY <1>1, <1>7, CallTyped DEF At
  <2>2. /\ sent[call[d].need]["NEED"] = 0
        /\ \A q \in Relays : request[q][call[d].need] = "none"
        /\ \A x \in Calls : At(x, "need", "committed") /\ call[x].need = call[d].need => x = d
    BY <2>1 DEF LegacyInv, ReservedByOne
  <2>3. \A q \in Relays : request'[q][call[d].need] = "none"
    BY <1>6, <2>1, <2>2 DEF Terminal
  <2>4. \A x \in Calls : At(x, "need", "committed")' => At(x, "need", "committed") /\ call'[x] = call[x]
    BY <1>7 DEF At
  <2> QED
    BY <1>4, <2>1, <2>2, <2>3, <2>4
<1>11. OneEndEverywhere' /\ OutboxCarriesTheLife'
  BY <1>4, <1>6 DEF LegacyInv, OneEndEverywhere, OutboxCarriesTheLife, Terminal
<1>12. InFlightCounts'
  <2>1. \A q \in Relays : {m \in Needs : request'[q][m] = "matched"} = {m \in Needs : request[q][m] = "matched"}
    BY <1>6 DEF Terminal
  <2> QED
    BY <1>4, <2>1 DEF LegacyInv, InFlightCounts
<1> QED
  BY <1>8, <1>9, <1>10, <1>11, <1>12 DEF LegacyInv

\* The answer of the ledger: the handler moves on, to "thrown" when nothing is
\* known of the operation, to "committed" when it was carried out.
LEMMA OperatesKeeps ==
    ASSUME LegacyInv, NEW c \in Calls, NEW op \in Ops, NEW pc \in Pcs, NEW allowed \in BOOLEAN, NEW next,
           Operates(c, op, pc, allowed, next), pc # "committed",
           allowed =>
            /\ next \in [status : Statuses, pending : SUBSET Events, acked : SUBSET Events]
            /\ next.status # "absent"
            /\ next.pending \cup next.acked =
                {"NEED"} \cup (IF next.status = "completed" THEN {"RESULT"} ELSE {})
                         \cup (IF next.status = "cancelled" THEN {"REVOKE"} ELSE {})
            /\ ledger[call[c].need].status \in Terminal => next.status = ledger[call[c].need].status
            /\ op = "need" => ledger[call[c].need].status = "absent"
            /\ op \in {"result", "recovered"} => next.status = "completed"
            /\ op \in {"revoke", "revokeDurable"} => next.status = "cancelled"
    PROVE  LegacyInv'
<1> DEFINE n == call[c].need
<1>1. LegacyTypeOK
  BY DEF LegacyInv
<1>2. /\ call[c] \in [pc : Pcs, op : Ops, relay : Relays, need : Needs]
      /\ call[c].op = op /\ call[c].pc = pc /\ n \in Needs
  BY <1>1, CallTyped DEF Operates, At, Pcs
<1>3. UNCHANGED <<kind, request, reserved, inFlight, sent, told, restarts>>
  BY DEF Operates
<1>4. ASSUME NEW step \in {"committed", "thrown"}, Goes(c, step)
      PROVE  /\ call' \in [Calls -> {NoCall} \cup [pc : Pcs, op : Ops, relay : Relays, need : Needs]]
             /\ \A d \in Calls : d # c => call'[d] = call[d]
             /\ call'[c].pc = step /\ call'[c].op = op /\ call'[c].need = n
             /\ OpsFit'
  <2>1. /\ call' \in [Calls -> {NoCall} \cup [pc : Pcs, op : Ops, relay : Relays, need : Needs]]
        /\ \A d \in Calls : d # c => call'[d] = call[d]
        /\ call'[c].pc = step /\ call'[c].op = op /\ call'[c].need = n
    BY <1>1, <1>2, <1>4 DEF Goes, LegacyTypeOK, Pcs
  <2> QED
    BY <2>1 DEF LegacyInv, OpsFit
<1>5. CASE Goes(c, "thrown") /\ UNCHANGED ledger
  <2>1. LegacyTypeOK'
    BY <1>1, <1>3, <1>4, <1>5 DEF LegacyTypeOK
  <2>2. \A d \in Calls : call'[d].pc = "committed" => call'[d] = call[d]
    BY <1>4, <1>5
  <2> QED
    BY <1>3, <1>4, <1>5, <2>1, <2>2, HandlersMove
<1>6. ASSUME NEW step \in {"committed", "thrown"}, Goes(c, step), allowed,
             ledger' = [ledger EXCEPT ![n] = next]
      PROVE  LegacyInv'
  <2> HIDE DEF n
  <2>1. /\ ledger' \in [Needs -> [status : Statuses, pending : SUBSET Events, acked : SUBSET Events]]
        /\ ledger'[n] = next /\ \A m \in Needs : m # n => ledger'[m] = ledger[m]
    BY <1>1, <1>2, <1>6 DEF LegacyTypeOK, n
  <2>2. LegacyTypeOK' /\ OpsFit'
    BY <1>1, <1>3, <1>4, <1>6, <2>1 DEF LegacyTypeOK, n
  <2>3. \A m \in Needs : ledger'[m].status = "absent" => m # n /\ ledger'[m] = ledger[m]
    BY <1>6, <2>1
  <2>4. \A m \in Needs : ledger[m].status \in Terminal => ledger'[m].status = ledger[m].status
    BY <1>6, <2>1 DEF n
  <2>5. Unborn'
    BY <1>3, <1>4, <1>6, <2>3 DEF LegacyInv, Unborn, n
  <2>6. ToldTheEnd'
    <3> SUFFICES ASSUME NEW d \in Calls, call'[d].pc = "committed"
                 PROVE  /\ call'[d].op \in {"result", "recovered"} => ledger'[call'[d].need].status = "completed"
                        /\ call'[d].op \in {"revoke", "revokeDurable"} => ledger'[call'[d].need].status = "cancelled"
      BY DEF ToldTheEnd
    <3>1. CASE d = c
      BY <1>4, <1>6, <2>1, <3>1 DEF n
    <3>2. CASE d # c
      <4>1. call'[d] = call[d] /\ call[d].need \in Needs
        BY <1>1, <1>4, <1>6, <3>2, CallTyped
      <4> QED
        BY <2>4, <4>1 DEF LegacyInv, ToldTheEnd, Terminal
    <3> QED
      BY <3>1, <3>2
  <2>7. ReservedByOne'
    <3> SUFFICES ASSUME NEW d \in Calls, At(d, "need", "committed")'
                 PROVE  /\ sent[call'[d].need]["NEED"] = 0
                        /\ \A q \in Relays : request[q][call'[d].need] = "none"
                        /\ \A x \in Calls : At(x, "need", "committed")' /\ call'[x].need = call'[d].need => x = d
      BY <1>3 DEF ReservedByOne
    <3>1. CASE d = c
      <4>1. op = "need" /\ call'[d].need = n /\ ledger[n].status = "absent"
        BY <1>4, <1>6, <3>1 DEF At, n
      <4>2. /\ sent[n]["NEED"] = 0
            /\ \A q \in Relays : request[q][n] = "none"
            /\ \A x \in Calls : call[x].pc = "committed" => call[x].need # n
        BY <1>2, <4>1 DEF LegacyInv, Unborn, Events, n
      <4> QED
        BY <1>4, <1>6, <3>1, <4>1, <4>2 DEF At
    <3>2. CASE d # c
      <4>1. call'[d] = call[d] /\ At(d, "need", "committed") /\ call[d].need \in Needs
        BY <1>1, <1>4, <1>6, <3>2, CallTyped DEF At
      <4>2. /\ sent[call[d].need]["NEED"] = 0
            /\ \A q \in Relays : request[q][call[d].need] = "none"
            /\ \A x \in Calls : At(x, "need", "committed") /\ call[x].need = call[d].need => x = d
            /\ ledger[call[d].need].status # "absent"
        BY <4>1 DEF LegacyInv, ReservedByOne, Unborn, At
      <4>3. \A x \in Calls : At(x, "need", "committed")' /\ call'[x].need = call[d].need => x # c
        BY <1>4, <1>6, <4>2 DEF At, n
      <4> QED
        BY <1>4, <1>6, <4>1, <4>2, <4>3 DEF At
    <3> QED
      BY <3>1, <3>2
  <2>8. OneEndEverywhere'
    <3> SUFFICES ASSUME NEW m \in Needs
                 PROVE  /\ sent[m]["NEED"] <= 1
                        /\ told[m] \subseteq {ledger'[m].status}
                        /\ sent[m]["RESULT"] > 0 => ledger'[m].status = "completed"
                        /\ sent[m]["REVOKE"] > 0 => ledger'[m].status = "cancelled"
                        /\ \A r \in Relays : request[r][m] \in Terminal => request[r][m] = ledger'[m].status
      BY <1>3 DEF OneEndEverywhere
    <3>1. /\ sent[m]["NEED"] <= 1
          /\ told[m] \subseteq {ledger[m].status} /\ told[m] \subseteq Terminal
          /\ sent[m]["RESULT"] > 0 => ledger[m].status = "completed"
          /\ sent[m]["REVOKE"] > 0 => ledger[m].status = "cancelled"
          /\ \A r \in Relays : request[r][m] \in Terminal => request[r][m] = ledger[m].status
      BY <1>1 DEF LegacyInv, OneEndEverywhere, LegacyTypeOK
    <3> QED
      BY <2>4, <3>1 DEF Terminal
  <2>9. OutboxCarriesTheLife'
    <3> SUFFICES ASSUME NEW m \in Needs
                 PROVE  ledger'[m].pending \cup ledger'[m].acked =
                            (IF ledger'[m].status = "absent" THEN {} ELSE {"NEED"})
                                \cup (IF ledger'[m].status = "completed" THEN {"RESULT"} ELSE {})
                                \cup (IF ledger'[m].status = "cancelled" THEN {"REVOKE"} ELSE {})
      BY DEF OutboxCarriesTheLife
    <3>1. CASE m = n
      BY <1>6, <2>1, <3>1
    <3>2. CASE m # n
      BY <2>1, <3>2 DEF LegacyInv, OutboxCarriesTheLife
    <3> QED
      BY <3>1, <3>2
  <2>10. InFlightCounts'
    BY <1>3 DEF LegacyInv, InFlightCounts
  <2> QED
    BY <2>2, <2>5, <2>6, <2>7, <2>8, <2>9, <2>10 DEF LegacyInv
<1> QED
  BY <1>5, <1>6 DEF Operates

\* The three operations a handler sends to the ledger.
LEMMA LedgerKeeps ==
    ASSUME LegacyInv, NEW c \in Calls, Reserves(c) \/ Completes(c) \/ Cancels(c)
    PROVE  LegacyInv'
<1> DEFINE n == call[c].need
<1>1. LegacyTypeOK
  BY DEF LegacyInv
<1>2. n \in Needs /\ call[c].op \in Ops
  BY <1>1, CallTyped DEF Reserves, Completes, Cancels, Operates, At
<1>3. /\ ledger[n] \in [status : Statuses, pending : SUBSET Events, acked : SUBSET Events]
      /\ ledger[n].pending \cup ledger[n].acked =
            (IF ledger[n].status = "absent" THEN {} ELSE {"NEED"})
                \cup (IF ledger[n].status = "completed" THEN {"RESULT"} ELSE {})
                \cup (IF ledger[n].status = "cancelled" THEN {"REVOKE"} ELSE {})
  BY <1>1, <1>2 DEF LegacyTypeOK, LegacyInv, OutboxCarriesTheLife
<1>4. ASSUME NEW s \in {"matched", "completed", "cancelled"}, NEW e \in Events
      PROVE  /\ Committed(n, s, e) \in [status : Statuses, pending : SUBSET Events, acked : SUBSET Events]
             /\ Committed(n, s, e).status = s
             /\ Committed(n, s, e).pending = ledger[n].pending \cup {e}
             /\ Committed(n, s, e).acked = ledger[n].acked
  BY <1>3 DEF Committed, Statuses, Terminal
<1>5. CASE Reserves(c)
  <2> DEFINE next == Committed(n, "matched", "NEED")
             allowed == ledger[n].status = "absent"
  <2>1. allowed => next.pending \cup next.acked = {"NEED"}
    BY <1>3, <1>4 DEF Events
  <2>2. Operates(c, "need", "reserving", allowed, next)
    BY SMTT(60), <1>5 DEF Reserves
  <2>3. next.status = "matched" /\ next \in [status : Statuses, pending : SUBSET Events, acked : SUBSET Events]
    BY <1>4 DEF Events
  <2>4. allowed => ledger[call[c].need].status = "absent"
    OBVIOUS
  <2>5. allowed \in BOOLEAN
    BY SMTT(60)
  <2> HIDE DEF next, allowed, n
  <2> QED
    BY SMTT(60), <2>1, <2>2, <2>3, <2>4, <2>5, OperatesKeeps DEF Ops, Pcs, Terminal
<1>6. CASE Completes(c)
  <2> DEFINE next == Committed(n, "completed", "RESULT")
             allowed == ledger[n].status = "matched"
  <2>1. allowed => next.pending \cup next.acked = {"NEED"} \cup {"RESULT"}
    BY <1>3, <1>4 DEF Events
  <2>2. Operates(c, call[c].op, "completing", allowed, next) /\ call[c].op \in {"result", "recovered"}
    BY SMTT(60), <1>6 DEF Completes, Operates, At, LegacyInv, OpsFit
  <2>3. next.status = "completed" /\ next \in [status : Statuses, pending : SUBSET Events, acked : SUBSET Events]
    BY <1>4 DEF Events
  <2>4. allowed => ledger[call[c].need].status = "matched"
    OBVIOUS
  <2>5. allowed \in BOOLEAN
    BY SMTT(60)
  <2> HIDE DEF next, allowed, n
  <2> QED
    BY SMTT(60), <2>1, <2>2, <2>3, <2>4, <2>5, OperatesKeeps DEF Ops, Pcs, Terminal
<1>7. CASE Cancels(c)
  <2> DEFINE next == IF ledger[n].status = "cancelled" THEN ledger[n] ELSE Committed(n, "cancelled", "REVOKE")
             allowed == ledger[n].status \in {"matched", "cancelled"}
  <2>1. allowed => next.pending \cup next.acked = {"NEED"} \cup {"REVOKE"}
    BY <1>3, <1>4 DEF Events
  <2>2. Operates(c, call[c].op, "cancelling", allowed, next) /\ call[c].op \in {"revoke", "revokeDurable"}
    BY SMTT(60), <1>7 DEF Cancels, Operates, At, LegacyInv, OpsFit
  <2>3. next.status = "cancelled" /\ next \in [status : Statuses, pending : SUBSET Events, acked : SUBSET Events]
    BY <1>3, <1>4 DEF Events
  <2>4. allowed => ledger[call[c].need].status \in {"matched", "cancelled"}
    OBVIOUS
  <2>5. allowed \in BOOLEAN
    OBVIOUS
  <2> HIDE DEF next, allowed, n
  <2> QED
    BY SMTT(60), <2>1, <2>2, <2>3, <2>4, <2>5, OperatesKeeps DEF Ops, Pcs, Terminal
<1> QED
  BY <1>5, <1>6, <1>7

\* A step that leaves the ledger alone, moves handlers to idle only, and tells or
\* sends what the ledger holds.
LEMMA LedgerStands ==
    ASSUME LegacyInv, LegacyTypeOK', InFlightCounts', UNCHANGED ledger,
           \A d \in Calls : call'[d] = call[d] \/ call'[d] = NoCall,
           \A m \in Needs :
            /\ sent'[m]["NEED"] <= 1
            /\ told'[m] \subseteq {ledger[m].status}
            /\ sent'[m]["RESULT"] > 0 => ledger[m].status = "completed"
            /\ sent'[m]["REVOKE"] > 0 => ledger[m].status = "cancelled"
            /\ \A r \in Relays : request'[r][m] \in Terminal => request'[r][m] = ledger[m].status
            /\ \A r \in Relays : request[r][m] = "none" /\ request'[r][m] # "none" =>
                \E c \in Calls : At(c, "need", "committed") /\ call[c].need = m /\ call'[c] = NoCall
            /\ sent[m]["NEED"] # sent'[m]["NEED"] =>
                \E c \in Calls : At(c, "need", "committed") /\ call[c].need = m /\ call'[c] = NoCall
    PROVE  LegacyInv'
<1>1. LegacyTypeOK
  BY DEF LegacyInv
<1>2. OneEndEverywhere' /\ OutboxCarriesTheLife'
  BY DEF LegacyInv, OneEndEverywhere, OutboxCarriesTheLife
<1>3. OpsFit' /\ ToldTheEnd'
  BY DEF LegacyInv, OpsFit, ToldTheEnd, NoCall
<1>4. ReservedByOne'
  <2> SUFFICES ASSUME NEW d \in Calls, At(d, "need", "committed")'
               PROVE  /\ sent'[call'[d].need]["NEED"] = 0
                      /\ \A q \in Relays : request'[q][call'[d].need] = "none"
                      /\ \A x \in Calls : At(x, "need", "committed")' /\ call'[x].need = call'[d].need => x = d
    BY DEF ReservedByOne
  <2>1. At(d, "need", "committed") /\ call'[d] = call[d] /\ call[d].need \in Needs /\ call[d] # NoCall
    BY <1>1, CallTyped DEF At, NoCall
  <2>2. /\ sent[call[d].need]["NEED"] = 0
        /\ \A q \in Relays : request[q][call[d].need] = "none"
        /\ \A x \in Calls : At(x, "need", "committed") /\ call[x].need = call[d].need => x = d
    BY <2>1 DEF LegacyInv, ReservedByOne
  <2>3. \A x \in Calls : At(x, "need", "committed")' => At(x, "need", "committed") /\ call'[x] = call[x]
    BY DEF At, NoCall
  <2> QED
    BY <2>1, <2>2, <2>3
<1>5. Unborn'
  <2> SUFFICES ASSUME NEW m \in Needs, ledger[m].status = "absent"
               PROVE  /\ \A e \in Events : sent'[m][e] = 0
                      /\ told'[m] = {}
                      /\ \A r \in Relays : request'[r][m] = "none"
                      /\ \A c \in Calls : call'[c].pc = "committed" => call'[c].need # m
    BY DEF Unborn
  <2>1. /\ \A e \in Events : sent[m][e] = 0
        /\ \A r \in Relays : request[r][m] = "none"
        /\ \A c \in Calls : call[c].pc = "committed" => call[c].need # m
    BY DEF LegacyInv, Unborn
  <2>2. told'[m] \in SUBSET Terminal /\ \A e \in Events : sent'[m][e] \in Nat
    BY DEF LegacyTypeOK
  <2>3. \A c \in Calls : ~ (At(c, "need", "committed") /\ call[c].need = m)
    BY <2>1 DEF At
  <2>4. told'[m] = {}
    BY <2>2 DEF Terminal
  <2>5. \A e \in Events : sent'[m][e] = 0
    BY <2>1, <2>2, <2>3 DEF Events
  <2> QED
    BY <2>1, <2>3, <2>4, <2>5 DEF NoCall
<1> QED
  BY <1>2, <1>3, <1>4, <1>5 DEF LegacyInv

\* The count of a relay follows one of its requests.
LEMMA CountFollows ==
    ASSUME IsFiniteSet(Needs), LegacyTypeOK, InFlightCounts, NEW r \in Relays, NEW n \in Needs,
           request' \in [Relays -> [Needs -> {"none", "matched"} \cup Terminal]],
           \A q \in Relays, m \in Needs : <<q, m>> # <<r, n>> => request'[q][m] = request[q][m],
           \/ /\ request[r][n] # "matched" /\ request'[r][n] = "matched"
              /\ inFlight' = [inFlight EXCEPT ![r] = @ + 1]
           \/ /\ request[r][n] = "matched" /\ request'[r][n] # "matched"
              /\ inFlight' = [inFlight EXCEPT ![r] = @ - 1]
           \/ /\ request[r][n] # "matched" /\ request'[r][n] # "matched"
              /\ inFlight' = [inFlight EXCEPT ![r] = @]
    PROVE  InFlightCounts' /\ inFlight' \in [Relays -> Nat]
<1> DEFINE of(q) == {m \in Needs : request[q][m] = "matched"}
           now(q) == {m \in Needs : request'[q][m] = "matched"}
<1>1. \A q \in Relays : /\ IsFiniteSet(of(q)) /\ Cardinality(of(q)) \in Nat
                        /\ IsFiniteSet(now(q)) /\ Cardinality(now(q)) \in Nat
  <2> TAKE q \in Relays
  <2>1. of(q) \in SUBSET Needs /\ now(q) \in SUBSET Needs
    OBVIOUS
  <2>2. IsFiniteSet(of(q)) /\ IsFiniteSet(now(q))
    BY <2>1, FS_Subset
  <2> HIDE DEF of, now
  <2> QED
    BY <2>2, FS_CardinalityType
<1>2. inFlight \in [Relays -> Nat] /\ \A q \in Relays : inFlight[q] = Cardinality(of(q))
  BY DEF LegacyTypeOK, InFlightCounts
<1>3. \A q \in Relays : q # r => now(q) = of(q) /\ inFlight'[q] = inFlight[q]
  BY <1>2
<1>4. inFlight'[r] = Cardinality(now(r))
  <2>1. CASE request[r][n] # "matched" /\ request'[r][n] = "matched"
    <3>1. now(r) = of(r) \cup {n} /\ n \notin of(r) /\ inFlight'[r] = inFlight[r] + 1
      BY <1>2, <2>1
    <3> QED
      BY ZenonT(60), <1>1, <1>2, <3>1, FS_AddElement
  <2>2. CASE request[r][n] = "matched" /\ request'[r][n] # "matched"
    <3>1. now(r) = of(r) \ {n} /\ n \in of(r) /\ inFlight'[r] = inFlight[r] - 1
      BY <1>2, <2>2
    <3> QED
      BY ZenonT(60), <1>1, <1>2, <3>1, FS_RemoveElement
  <2>3. CASE request[r][n] # "matched" /\ request'[r][n] # "matched"
    <3>1. now(r) = of(r) /\ inFlight'[r] = inFlight[r]
      BY <1>2, <2>3
    <3> QED
      BY <1>2, <3>1
  <2> QED
    BY <2>1, <2>2, <2>3
<1>5. \A q \in Relays : inFlight'[q] = Cardinality(now(q))
  BY ZenonT(60), <1>2, <1>3, <1>4
<1>6. DOMAIN inFlight' = Relays /\ inFlight' = [q \in Relays |-> inFlight'[q]]
  BY <1>2
<1>7. InFlightCounts'
  BY <1>5 DEF InFlightCounts
<1> HIDE DEF of, now
<1>8. \A q \in Relays : inFlight'[q] \in Nat
  BY <1>1, <1>5
<1> QED
  BY <1>6, <1>7, <1>8

\* markRequestStatus, with an end that the ledger holds.
LEMMA MarkMarks ==
    ASSUME LegacyAssumption, LegacyInv, NEW r \in Relays, NEW n \in Needs, NEW to \in Terminal,
           MarkRequestStatus(r, n, to)
    PROVE  /\ InFlightCounts' /\ inFlight' \in [Relays -> Nat]
           /\ request' \in [Relays -> [Needs -> {"none", "matched"} \cup Terminal]]
           /\ \A q \in Relays, m \in Needs : <<q, m>> # <<r, n>> => request'[q][m] = request[q][m]
           /\ request'[r][n] = IF request[r][n] = "none" THEN "none" ELSE to
<1>1. LegacyTypeOK /\ InFlightCounts /\ IsFiniteSet(Needs)
  BY DEF LegacyInv, LegacyAssumption
<1>2. /\ request' \in [Relays -> [Needs -> {"none", "matched"} \cup Terminal]]
      /\ \A q \in Relays, m \in Needs : <<q, m>> # <<r, n>> => request'[q][m] = request[q][m]
      /\ request'[r][n] = IF request[r][n] = "none" THEN "none" ELSE to
  BY <1>1 DEF LegacyTypeOK, MarkRequestStatus
<1>3. \/ /\ request[r][n] = "matched" /\ request'[r][n] # "matched"
         /\ inFlight' = [inFlight EXCEPT ![r] = @ - 1]
      \/ /\ request[r][n] # "matched" /\ request'[r][n] # "matched"
         /\ inFlight' = [inFlight EXCEPT ![r] = @]
  BY <1>2 DEF MarkRequestStatus, Terminal
<1> QED
  BY <1>1, <1>2, <1>3, CountFollows

\* A handler that was told of an end marks the request, sends the event or
\* leaves it to the outbox, and tells its caller.
LEMMA FinishKeeps ==
    ASSUME LegacyAssumption, LegacyInv, NEW c \in Calls,
           \/ ResultFinish(c) \/ RecoveredFinish(c) \/ RevokeDurableFinish(c)
           \/ \E room \in BOOLEAN : RevokeFinish(c, room)
    PROVE  LegacyInv'
<1> DEFINE r == call[c].relay
           n == call[c].need
<1>1. LegacyTypeOK /\ InFlightCounts
  BY DEF LegacyInv
<1>2. /\ r \in Relays /\ n \in Needs /\ call[c].pc = "committed"
      /\ UNCHANGED <<kind, ledger, reserved, restarts>> /\ Leaves(c)
  BY <1>1, CallTyped DEF ResultFinish, RecoveredFinish, RevokeDurableFinish, RevokeFinish, At
<1>3. PICK to \in {"completed", "cancelled"} :
        /\ to = "completed" => call[c].op \in {"result", "recovered"}
        /\ to = "cancelled" => call[c].op \in {"revoke", "revokeDurable"}
        /\ told' = [told EXCEPT ![n] = @ \cup {to}]
        /\ MarkRequestStatus(r, n, to) \/ UNCHANGED <<request, inFlight>>
        /\ \/ UNCHANGED sent
           \/ to = "completed" /\ SendLive(n, "RESULT")
           \/ to = "cancelled" /\ SendLive(n, "REVOKE")
  BY DEF ResultFinish, RecoveredFinish, RevokeDurableFinish, RevokeFinish, At
<1>4. ledger[n].status = to
  BY <1>2, <1>3 DEF LegacyInv, ToldTheEnd
<1> HIDE DEF r, n
<1>5. /\ call' \in [Calls -> {NoCall} \cup [pc : Pcs, op : Ops, relay : Relays, need : Needs]]
      /\ \A d \in Calls : call'[d] = call[d] \/ call'[d] = NoCall
  BY <1>1, <1>2 DEF Leaves, LegacyTypeOK
<1>6. /\ InFlightCounts' /\ inFlight' \in [Relays -> Nat]
      /\ request' \in [Relays -> [Needs -> {"none", "matched"} \cup Terminal]]
      /\ \A q \in Relays, m \in Needs :
            \/ request'[q][m] = request[q][m]
            \/ m = n /\ request[q][m] # "none" /\ request'[q][m] = to
  <2>1. CASE MarkRequestStatus(r, n, to)
    <3>1. to \in Terminal
      BY DEF Terminal
    <3>2. /\ InFlightCounts' /\ inFlight' \in [Relays -> Nat]
          /\ request' \in [Relays -> [Needs -> {"none", "matched"} \cup Terminal]]
          /\ \A q \in Relays, m \in Needs : <<q, m>> # <<r, n>> => request'[q][m] = request[q][m]
          /\ request'[r][n] = IF request[r][n] = "none" THEN "none" ELSE to
      BY <1>2, <2>1, <3>1, MarkMarks
    <3> QED
      BY <1>2, <3>2
  <2>2. CASE UNCHANGED <<request, inFlight>>
    BY <1>1, <2>2 DEF LegacyTypeOK, InFlightCounts
  <2> QED
    BY <1>3, <2>1, <2>2
<1>7. /\ sent' \in [Needs -> [Events -> Nat]]
      /\ \A m \in Needs : /\ sent'[m]["NEED"] = sent[m]["NEED"]
                          /\ m # n => sent'[m] = sent[m]
      /\ to = "completed" => sent'[n]["REVOKE"] = sent[n]["REVOKE"]
      /\ to = "cancelled" => sent'[n]["RESULT"] = sent[n]["RESULT"]
  <2>1. CASE UNCHANGED sent
    BY <1>1, <2>1 DEF LegacyTypeOK
  <2>2. CASE to = "completed" /\ SendLive(n, "RESULT")
    BY <1>1, <1>2, <2>2 DEF LegacyTypeOK, SendLive, Events
  <2>3. CASE to = "cancelled" /\ SendLive(n, "REVOKE")
    BY <1>1, <1>2, <2>3 DEF LegacyTypeOK, SendLive, Events
  <2> QED
    BY <1>3, <2>1, <2>2, <2>3
<1>8. told' \in [Needs -> SUBSET Terminal] /\ \A m \in Needs : told'[m] \subseteq told[m] \cup {ledger[m].status}
  BY <1>1, <1>2, <1>3, <1>4 DEF LegacyTypeOK, Terminal
<1>9. LegacyTypeOK'
  BY <1>1, <1>2, <1>5, <1>6, <1>7, <1>8 DEF LegacyTypeOK
<1>10. ASSUME NEW m \in Needs
       PROVE  /\ sent'[m]["NEED"] = sent[m]["NEED"] /\ sent'[m]["NEED"] <= 1
              /\ told'[m] \subseteq {ledger[m].status}
              /\ sent'[m]["RESULT"] > 0 => ledger[m].status = "completed"
              /\ sent'[m]["REVOKE"] > 0 => ledger[m].status = "cancelled"
              /\ \A q \in Relays : request'[q][m] \in Terminal => request'[q][m] = ledger[m].status
              /\ \A q \in Relays : request[q][m] = "none" => request'[q][m] = "none"
  <2>1. /\ sent[m]["NEED"] <= 1
        /\ told[m] \subseteq {ledger[m].status}
        /\ sent[m]["RESULT"] > 0 => ledger[m].status = "completed"
        /\ sent[m]["REVOKE"] > 0 => ledger[m].status = "cancelled"
        /\ \A q \in Relays : request[q][m] \in Terminal => request[q][m] = ledger[m].status
    BY DEF LegacyInv, OneEndEverywhere
  <2>2. /\ sent'[m]["RESULT"] > 0 => ledger[m].status = "completed"
        /\ sent'[m]["REVOKE"] > 0 => ledger[m].status = "cancelled"
    BY <1>4, <1>7, <2>1
  <2>3. /\ \A q \in Relays : request'[q][m] \in Terminal => request'[q][m] = ledger[m].status
        /\ \A q \in Relays : request[q][m] = "none" => request'[q][m] = "none"
    BY <1>4, <1>6, <2>1
  <2> QED
    BY <1>7, <1>8, <2>1, <2>2, <2>3
<1> QED
  BY <1>2, <1>5, <1>6, <1>9, <1>10, LedgerStands

\* The NEED becomes a request of its relay and goes out, for the first time.
LEMMA AdmittedKeeps ==
    ASSUME LegacyAssumption, LegacyInv, NEW c \in Calls, Admitted(c)
    PROVE  LegacyInv'
<1> DEFINE r == call[c].relay
           n == call[c].need
<1>1. LegacyTypeOK /\ InFlightCounts /\ IsFiniteSet(Needs)
  BY DEF LegacyInv, LegacyAssumption
<1>2. /\ r \in Relays /\ n \in Needs /\ call[c].pc = "committed" /\ call[c].op = "need"
      /\ UNCHANGED <<kind, ledger, told, restarts>> /\ Leaves(c) /\ SendLive(n, "NEED")
      /\ request' = [request EXCEPT ![r][n] = "matched"]
      /\ inFlight' = [inFlight EXCEPT ![r] = @ + 1]
      /\ reserved' = [reserved EXCEPT ![r] = @ \ {n}]
  BY <1>1, CallTyped DEF Admitted, At
<1>3. sent[n]["NEED"] = 0 /\ \A q \in Relays : request[q][n] = "none"
  BY <1>2 DEF LegacyInv, ReservedByOne, At
<1>4. At(c, "need", "committed") /\ call[c].need = n
  BY <1>2 DEF At
<1> HIDE DEF r, n
<1>5. /\ call' \in [Calls -> {NoCall} \cup [pc : Pcs, op : Ops, relay : Relays, need : Needs]]
      /\ \A d \in Calls : call'[d] = call[d] \/ call'[d] = NoCall
      /\ call'[c] = NoCall
  BY <1>1, <1>2 DEF Leaves, LegacyTypeOK
<1>6. /\ request' \in [Relays -> [Needs -> {"none", "matched"} \cup Terminal]]
      /\ \A q \in Relays, m \in Needs : <<q, m>> # <<r, n>> => request'[q][m] = request[q][m]
      /\ request'[r][n] = "matched"
  BY <1>1, <1>2 DEF LegacyTypeOK
<1>7. InFlightCounts' /\ inFlight' \in [Relays -> Nat]
  <2>1. request[r][n] # "matched"
    BY <1>2, <1>3
  <2>2. r \in Relays /\ n \in Needs /\ inFlight' = [inFlight EXCEPT ![r] = @ + 1]
    BY <1>2
  <2> QED
    BY <1>1, <1>6, <2>1, <2>2, CountFollows, Zenon
<1>8. /\ sent' \in [Needs -> [Events -> Nat]]
      /\ sent'[n]["NEED"] = 1
      /\ \A m \in Needs : m # n => sent'[m] = sent[m]
      /\ sent'[n]["RESULT"] = sent[n]["RESULT"] /\ sent'[n]["REVOKE"] = sent[n]["REVOKE"]
  BY <1>1, <1>2, <1>3 DEF LegacyTypeOK, SendLive, Events
<1>9. LegacyTypeOK'
  <2>1. reserved' \in [Relays -> SUBSET Needs]
    BY <1>1, <1>2 DEF LegacyTypeOK
  <2> QED
    BY <1>1, <1>2, <1>5, <1>6, <1>7, <1>8, <2>1 DEF LegacyTypeOK
<1>10. ASSUME NEW m \in Needs
       PROVE  /\ sent'[m]["NEED"] <= 1
              /\ told'[m] \subseteq {ledger[m].status}
              /\ sent'[m]["RESULT"] > 0 => ledger[m].status = "completed"
              /\ sent'[m]["REVOKE"] > 0 => ledger[m].status = "cancelled"
              /\ \A q \in Relays : request'[q][m] \in Terminal => request'[q][m] = ledger[m].status
              /\ m # n => /\ \A q \in Relays : request'[q][m] = request[q][m]
                          /\ sent'[m]["NEED"] = sent[m]["NEED"]
  <2>1. /\ sent[m]["NEED"] <= 1
        /\ told[m] \subseteq {ledger[m].status}
        /\ sent[m]["RESULT"] > 0 => ledger[m].status = "completed"
        /\ sent[m]["REVOKE"] > 0 => ledger[m].status = "cancelled"
        /\ \A q \in Relays : request[q][m] \in Terminal => request[q][m] = ledger[m].status
    BY DEF LegacyInv, OneEndEverywhere
  <2>2. \A q \in Relays : request'[q][m] \in Terminal => request'[q][m] = ledger[m].status
    BY <1>2, <1>6, <2>1 DEF Terminal
  <2>3. m # n => \A q \in Relays : request'[q][m] = request[q][m]
    BY <1>2, <1>6
  <2> QED
    BY <1>2, <1>8, <2>1, <2>2, <2>3
<1> QED
  BY <1>2, <1>4, <1>5, <1>7, <1>9, <1>10, LedgerStands

\* A caller asks again and is told the end the relay or the ledger holds.
LEMMA TellsKeeps ==
    ASSUME LegacyInv, NEW r \in Relays, NEW n \in Needs,
           LegacyStatus(r, n) \/ \E target \in {"auto", "need"} : RevokeAgain(r, n, target)
    PROVE  LegacyInv'
<1>1. LegacyTypeOK /\ InFlightCounts
  BY DEF LegacyInv
<1>2. /\ UNCHANGED <<kind, ledger, request, reserved, inFlight, call, restarts>>
      /\ \E to \in Terminal : /\ told' = [told EXCEPT ![n] = @ \cup {to}]
                              /\ to = ledger[n].status
                              /\ UNCHANGED sent \/ (SendLive(n, "REVOKE") /\ to = "cancelled")
  <2>1. request[r][n] \in Terminal => request[r][n] = ledger[n].status
    BY DEF LegacyInv, OneEndEverywhere
  <2>2. CASE LegacyStatus(r, n)
    BY <2>1, <2>2 DEF LegacyStatus, Shown
  <2>3. CASE \E target \in {"auto", "need"} : RevokeAgain(r, n, target)
    BY <2>1, <2>3 DEF RevokeAgain, Terminal
  <2> QED
    BY <2>2, <2>3
<1>3. /\ told' \in [Needs -> SUBSET Terminal]
      /\ \A m \in Needs : told'[m] \subseteq told[m] \cup {ledger[m].status}
  BY <1>1, <1>2 DEF LegacyTypeOK
<1>4. /\ sent' \in [Needs -> [Events -> Nat]]
      /\ \A m \in Needs : /\ sent'[m]["NEED"] = sent[m]["NEED"] /\ sent'[m]["RESULT"] = sent[m]["RESULT"]
                          /\ sent'[m]["REVOKE"] # sent[m]["REVOKE"] => ledger[m].status = "cancelled"
  <2>1. CASE UNCHANGED sent
    BY <1>1, <2>1 DEF LegacyTypeOK
  <2>2. CASE SendLive(n, "REVOKE") /\ ledger[n].status = "cancelled"
    <3>1. sent[n] \in [Events -> Nat] /\ "REVOKE" \in Events
      BY <1>1 DEF LegacyTypeOK, Events
    <3> DEFINE k == IF sent[n]["REVOKE"] = 0 THEN 1 ELSE sent[n]["REVOKE"]
    <3>2. k \in Nat /\ sent' = [sent EXCEPT ![n] = [sent[n] EXCEPT !["REVOKE"] = k]]
      <4>0. sent[n]["REVOKE"] \in Nat
        BY <3>1
      <4>1. k = IF sent[n]["REVOKE"] = 0 \/ ("REVOKE" = "NEED" /\ sent[n]["REVOKE"] = 1)
                THEN sent[n]["REVOKE"] + 1 ELSE sent[n]["REVOKE"]
        BY <4>0
      <4>2. sent' = [sent EXCEPT ![n]["REVOKE"] = k]
        <5> HIDE DEF k
        <5> QED
          BY <2>2, <4>1 DEF SendLive
      <4> QED
        BY <1>1, <3>1, <4>0, <4>2 DEF LegacyTypeOK
    <3> HIDE DEF k
    <3>3. sent' \in [Needs -> [Events -> Nat]]
      BY <1>1, <3>1, <3>2 DEF LegacyTypeOK
    <3>4. ASSUME NEW m \in Needs
          PROVE  /\ sent'[m]["NEED"] = sent[m]["NEED"] /\ sent'[m]["RESULT"] = sent[m]["RESULT"]
                 /\ sent'[m]["REVOKE"] # sent[m]["REVOKE"] => ledger[m].status = "cancelled"
      BY <1>1, <2>2, <3>1, <3>2 DEF LegacyTypeOK, Events
    <3> QED
      BY <3>3, <3>4
  <2> QED
    BY <1>2, <2>1, <2>2
<1>5. LegacyTypeOK' /\ InFlightCounts'
  BY <1>1, <1>2, <1>3, <1>4 DEF LegacyTypeOK, InFlightCounts
<1>6. \A m \in Needs :
        /\ sent'[m]["NEED"] <= 1
        /\ told'[m] \subseteq {ledger[m].status}
        /\ sent'[m]["RESULT"] > 0 => ledger[m].status = "completed"
        /\ sent'[m]["REVOKE"] > 0 => ledger[m].status = "cancelled"
        /\ \A q \in Relays : request'[q][m] \in Terminal => request'[q][m] = ledger[m].status
  BY <1>2, <1>3, <1>4 DEF LegacyInv, OneEndEverywhere
<1> QED
  BY <1>2, <1>4, <1>5, <1>6, LedgerStands

\* A recipient acknowledges an event.
LEMMA AcknowledgeKeeps ==
    ASSUME LegacyInv, NEW n \in Needs, NEW e \in Events, NEW by, Acknowledge(n, e, by)
    PROVE  LegacyInv'
<1>1. LegacyTypeOK
  BY DEF LegacyInv
<1>2. /\ ledger' \in [Needs -> [status : Statuses, pending : SUBSET Events, acked : SUBSET Events]]
      /\ \A m \in Needs : /\ ledger'[m].status = ledger[m].status
                          /\ ledger'[m].pending \cup ledger'[m].acked = ledger[m].pending \cup ledger[m].acked
  <2>1. ledger[n] \in [status : Statuses, pending : SUBSET Events, acked : SUBSET Events]
    BY <1>1 DEF LegacyTypeOK
  <2>2. ledger' = [ledger EXCEPT ![n] = [ledger[n] EXCEPT !.pending = @ \ {e}, !.acked = @ \cup {e}]]
    BY <1>1 DEF Acknowledge, LegacyTypeOK
  <2>3. e \in ledger[n].pending
    BY DEF Acknowledge
  <2> QED
    BY ZenonT(60), <1>1, <2>1, <2>2, <2>3 DEF LegacyTypeOK
<1>3. UNCHANGED <<kind, request, reserved, inFlight, call, sent, told, restarts>>
  BY DEF Acknowledge
<1>4. LegacyTypeOK' /\ OpsFit' /\ ReservedByOne' /\ InFlightCounts'
  BY <1>1, <1>2, <1>3 DEF LegacyInv, LegacyTypeOK, OpsFit, ReservedByOne, InFlightCounts, At
<1>5. Unborn' /\ OneEndEverywhere' /\ OutboxCarriesTheLife'
  BY <1>2, <1>3 DEF LegacyInv, Unborn, OneEndEverywhere, OutboxCarriesTheLife
<1>6. ToldTheEnd'
  <2>1. \A c \in Calls : call[c].pc = "committed" => call[c].need \in Needs
    BY <1>1, CallTyped
  <2> QED
    BY <1>2, <1>3, <2>1 DEF LegacyInv, ToldTheEnd
<1> QED
  BY <1>4, <1>5, <1>6 DEF LegacyInv

\* A relay that starts again has nothing.
LEMMA RestartKeeps ==
    ASSUME LegacyInv, NEW r \in Relays, Restart(r)
    PROVE  LegacyInv'
<1>1. LegacyTypeOK
  BY DEF LegacyInv
<1>2. /\ UNCHANGED <<kind, ledger, sent, told>>
      /\ request' \in [Relays -> [Needs -> {"none", "matched"} \cup Terminal]]
      /\ \A q \in Relays, m \in Needs : request'[q][m] = IF q = r THEN "none" ELSE request[q][m]
      /\ inFlight' \in [Relays -> Nat] /\ reserved' \in [Relays -> SUBSET Needs]
      /\ \A q \in Relays : inFlight'[q] = IF q = r THEN 0 ELSE inFlight[q]
  BY <1>1 DEF Restart, LegacyTypeOK
<1>3. /\ call' \in [Calls -> {NoCall} \cup [pc : Pcs, op : Ops, relay : Relays, need : Needs]]
      /\ \A d \in Calls : call'[d] = call[d] \/ call'[d] = NoCall
  BY <1>1 DEF Restart, LegacyTypeOK
<1>4. LegacyTypeOK'
  BY <1>1, <1>2, <1>3 DEF LegacyTypeOK
<1>5. InFlightCounts'
  <2> SUFFICES ASSUME NEW q \in Relays
               PROVE  inFlight'[q] = Cardinality({n \in Needs : request'[q][n] = "matched"})
    BY DEF InFlightCounts
  <2>1. CASE q = r
    <3>1. {n \in Needs : request'[q][n] = "matched"} = {}
      BY <1>2, <2>1
    <3> QED
      BY <1>2, <2>1, <3>1, FS_EmptySet
  <2>2. CASE q # r
    <3>1. {n \in Needs : request'[q][n] = "matched"} = {n \in Needs : request[q][n] = "matched"}
      BY <1>2, <2>2
    <3> QED
      BY <1>2, <2>2, <3>1 DEF LegacyInv, InFlightCounts
  <2> QED
    BY <2>1, <2>2
<1>6. \A m \in Needs :
        /\ sent'[m]["NEED"] <= 1
        /\ told'[m] \subseteq {ledger[m].status}
        /\ sent'[m]["RESULT"] > 0 => ledger[m].status = "completed"
        /\ sent'[m]["REVOKE"] > 0 => ledger[m].status = "cancelled"
        /\ \A q \in Relays : request'[q][m] \in Terminal => request'[q][m] = ledger[m].status
        /\ \A q \in Relays : request[q][m] = "none" => request'[q][m] = "none"
  BY <1>2 DEF LegacyInv, OneEndEverywhere, Terminal
<1> QED
  BY <1>2, <1>3, <1>4, <1>5, <1>6, LedgerStands

LEMMA LegacyInvNext ==
    ASSUME LegacyAssumption, LegacyInv, [LegacyNext]_legacyVars
    PROVE  LegacyInv'
<1>1. CASE UNCHANGED legacyVars
  <2>1. LegacyTypeOK' /\ OpsFit'
    BY <1>1 DEF legacyVars, LegacyInv, LegacyTypeOK, OpsFit
  <2> QED
    BY <1>1, <2>1, HandlersMove DEF legacyVars
<1>2. ASSUME NEW c \in Calls, NEW r \in Relays, NEW n \in Needs,
             \/ PostNeed(c, r, n) \/ PostResult(c, r, n) \/ PostRecovered(c, r, n)
             \/ \E target \in {"auto", "need"} : Revoke(c, r, n, target)
      PROVE  LegacyInv'
  BY <1>2, EnterOrLeaveKeeps, Zenon
<1>3. ASSUME NEW c \in Calls, Unmatched(c) \/ NeedThrown(c) \/ EndThrown(c)
      PROVE  LegacyInv'
  <2>1. \E r \in Relays, n \in Needs : TRUE
    <3>1. LegacyTypeOK /\ call[c].pc # "idle"
      BY <1>3 DEF LegacyInv, Unmatched, NeedThrown, EndThrown, At
    <3> QED
      BY <3>1, CallTyped
  <2> QED
    BY <1>3, <2>1, EnterOrLeaveKeeps, Zenon
<1>4. ASSUME NEW c \in Calls, Reserves(c) \/ Completes(c) \/ Cancels(c)
      PROVE  LegacyInv'
  BY <1>4, LedgerKeeps
<1>5. ASSUME NEW c \in Calls,
             \/ ResultFinish(c) \/ RecoveredFinish(c) \/ RevokeDurableFinish(c)
             \/ \E room \in BOOLEAN : RevokeFinish(c, room)
      PROVE  LegacyInv'
  BY <1>5, FinishKeeps
<1>6. ASSUME NEW c \in Calls, Matched(c) \/ Admitted(c)
      PROVE  LegacyInv'
  BY <1>6, MatchedKeeps, AdmittedKeeps
<1>7. ASSUME NEW r \in Relays, NEW n \in Needs,
             \/ ReservationExpires(r, n) \/ LegacyStatus(r, n)
             \/ \E target \in {"auto", "need"} : RevokeAgain(r, n, target)
      PROVE  LegacyInv'
  BY <1>7, ReservationExpiresKeeps, TellsKeeps, Zenon
<1>8. ASSUME NEW n \in Needs, NEW e \in Events, NEW by, Acknowledge(n, e, by)
      PROVE  LegacyInv'
  BY <1>8, AcknowledgeKeeps
<1>9. ASSUME NEW r \in Relays, Restart(r)
      PROVE  LegacyInv'
  BY <1>9, RestartKeeps
<1> QED
  BY <1>1, <1>2, <1>3, <1>4, <1>5, <1>6, <1>7, <1>8, <1>9, Zenon DEF LegacyNext

\* At any number of relays over one ledger, with handlers interrupted between any
\* two awaits, lost replies, pruned requests and restarts: a NEED goes out to its
\* provider at most once, and whoever is told or sent an end, and whatever relay
\* keeps one, has the end that the ledger holds.
THEOREM OneEnd ==
    ASSUME LegacyAssumption
    PROVE  LegacySpec => []OneEndEverywhere
<1>1. LegacyInit => LegacyInv
  BY LegacyInvInit
<1>2. LegacyInv /\ [LegacyNext]_legacyVars => LegacyInv'
  BY LegacyInvNext
<1>3. LegacyInv => OneEndEverywhere
  BY DEF LegacyInv
<1> QED
  BY <1>1, <1>2, <1>3, PTL DEF LegacySpec

\* The outbox of a NEED holds, delivered or not, exactly the events of the life
\* that transitionNeed and reserveNeed committed, whatever was sent live.
THEOREM OutboxComplete ==
    ASSUME LegacyAssumption
    PROVE  LegacySpec => []OutboxCarriesTheLife
<1>1. LegacyInit => LegacyInv
  BY LegacyInvInit
<1>2. LegacyInv /\ [LegacyNext]_legacyVars => LegacyInv'
  BY LegacyInvNext
<1>3. LegacyInv => OutboxCarriesTheLife
  BY DEF LegacyInv
<1> QED
  BY <1>1, <1>2, <1>3, PTL DEF LegacySpec

\* inFlightByProvider counts exactly the requests the relay holds as matched:
\* a late RESULT, a REVOKE that races it, pruning and a restart neither leak nor
\* release a place twice.
THEOREM InFlightIsExact ==
    ASSUME LegacyAssumption
    PROVE  LegacySpec => []InFlightCounts
<1>1. LegacyInit => LegacyInv
  BY LegacyInvInit
<1>2. LegacyInv /\ [LegacyNext]_legacyVars => LegacyInv'
  BY LegacyInvNext
<1>3. LegacyInv => InFlightCounts
  BY DEF LegacyInv
<1> QED
  BY <1>1, <1>2, <1>3, PTL DEF LegacySpec
=============================================================================
