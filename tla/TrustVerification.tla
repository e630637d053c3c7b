-------------------------- MODULE TrustVerification --------------------------
(***************************************************************************)
(* Attesters that serve NEEDs for an attestation, and the coordinators     *)
(* that ask them: of a claim (node/trust-verification.js) and of a claim   *)
(* under a challenge (node/active-trust-network.js).  The verifiers are    *)
(* found by their OFFERs (core/trust/network.js), which say the same of an *)
(* attester of either kind.  Coordinators that share a node share its      *)
(* inbox.  A NEED is named by its task and attester.                       *)
(***************************************************************************)
EXTENDS Naturals, Sequences, FiniteSets, FiniteSetsExt, SequencesExt

CONSTANTS
    Verifications, Challenges,   \* the calls of verify() and of challenge()
    ClaimAttesters, ChallengeAttesters,
    Rank,                        \* the order by trust score, then node id
    VerifierLimit, MaxStarts

Tasks == Verifications \cup Challenges
Attesters == ClaimAttesters \cup ChallengeAttesters
Loops == 1..MaxStarts

VARIABLES
    host,        \* of each attester: running, its loops that are alive, its offers
    starts,
    needInbox,   \* NEEDs for each attester at the relay
    batch,       \* NEEDs each of its loops has polled and not yet handled
    inbox,       \* RESULTs for the coordinators' node at the relay
    task,        \* of each: pc, its verifiers, those sent a NEED, the events it has
    unmatched,   \* unmatchedEvents of the claim coordinator
    dropped      \* events that a poll took and nobody kept

verificationVars == <<host, starts, needInbox, batch, inbox, task, unmatched, dropped>>

VerificationTypeOK ==
    /\ \A a \in Attesters :
          /\ host[a].running \in BOOLEAN /\ host[a].alive \subseteq Loops
          /\ host[a].offered \in {"none", "discovery", "both"}
          /\ needInbox[a] \in Seq(Tasks) /\ batch[a] \in [Loops -> Seq(Tasks)]
    /\ \A t \in Tasks :
          /\ task[t].pc \in {"new", "assign", "wait", "check", "done", "failed", "timeout"}
          /\ task[t].sent \subseteq task[t].verifiers /\ task[t].verifiers \subseteq Attesters
    /\ starts \in 0..MaxStarts

VerificationInit ==
    /\ host = [a \in Attesters |-> [running |-> FALSE, alive |-> {}, offered |-> "none"]]
    /\ starts = 0 /\ inbox = <<>> /\ unmatched = {} /\ dropped = {}
    /\ needInbox = [a \in Attesters |-> <<>>] /\ batch = [a \in Attesters |-> [l \in Loops |-> <<>>]]
    /\ task = [t \in Tasks |-> [pc |-> "new", verifiers |-> {}, sent |-> {}, events |-> {}]]

---------------------------------------------------------------------------

\* publish: two OFFERs, kept only when both are made.
OfferDiscovery(a) ==
    /\ ~host[a].running /\ host[a].offered = "none" /\ starts < MaxStarts
    /\ host' = [host EXCEPT ![a].offered = "discovery"]
    /\ UNCHANGED <<starts, needInbox, batch, inbox, task, unmatched, dropped>>

FreeLoop(a) == {l \in Loops : l \notin host[a].alive /\ 1..l-1 \subseteq host[a].alive}

\* The rest of start(), without effect on an attester that says it is running.  A
\* loop that stop() has not ended yet goes on beside the new one.
Start(a, l) ==
    /\ ~host[a].running /\ host[a].offered # "none" /\ starts < MaxStarts /\ l \in FreeLoop(a)
    /\ starts' = starts + 1
    /\ host' = [host EXCEPT ![a] = [running |-> TRUE, alive |-> @.alive \cup {l}, offered |-> "both"]]
    /\ UNCHANGED <<needInbox, batch, inbox, task, unmatched, dropped>>

Stop(a) ==
    /\ host[a].running
    /\ host' = [host EXCEPT ![a].running = FALSE]
    /\ UNCHANGED <<starts, needInbox, batch, inbox, task, unmatched, dropped>>

\* The loop ends after a poll that stop() came into, or when the answer cannot be
\* sent: then with the rest of the poll, and the attester goes on saying it runs.
LoopEnds(a, l) ==
    /\ l \in host[a].alive /\ (batch[a][l] # <<>> \/ ~host[a].running)
    /\ host' = [host EXCEPT ![a].alive = @ \ {l}]
    /\ batch' = [batch EXCEPT ![a][l] = <<>>]
    /\ UNCHANGED <<starts, needInbox, inbox, task, unmatched, dropped>>

ServeOnce(a, l) ==
    /\ l \in host[a].alive /\ host[a].running /\ batch[a][l] = <<>> /\ needInbox[a] # <<>>
    /\ batch' = [batch EXCEPT ![a][l] = needInbox[a]]
    /\ needInbox' = [needInbox EXCEPT ![a] = <<>>]
    /\ UNCHANGED <<host, starts, inbox, task, unmatched, dropped>>

Answer(a, l, out) ==
    /\ l \in host[a].alive /\ batch[a][l] # <<>>
    /\ inbox' = Append(inbox, [task |-> Head(batch[a][l]), from |-> a, out |-> out])
    /\ batch' = [batch EXCEPT ![a][l] = Tail(@)]
    /\ UNCHANGED <<host, starts, needInbox, task, unmatched, dropped>>

\* ClaimAttesterHost.handleNeed: denied, or its verifier threw: a RESULT without
\* output; otherwise an attestation of the claim.  A challenge in the NEED is not seen.
HandleClaimNeed(a, l, out) ==
    /\ a \in ClaimAttesters /\ out \in {"none", "attestation"}
    /\ Answer(a, l, out)

\* ActiveChallengeAttesterHost.handleNeed: a NEED without a challenge is not valid.
HandleChallengeNeed(a, l, out) ==
    /\ a \in ChallengeAttesters /\ out \in {"none", "proof"}
    /\ out = "proof" => batch[a][l] # <<>> /\ Head(batch[a][l]) \in Challenges
    /\ Answer(a, l, out)

\* A RESULT that does not verify, or that another node than the attester signed.
Forge(a, l) == Answer(a, l, "forged")

---------------------------------------------------------------------------

\* resolveAuthorizedTrustVerifiers: the first VerifierLimit of those that offer.
Resolved ==
    LET offering == {a \in Attesters : host[a].offered # "none"}
    IN {a \in offering : Cardinality({b \in offering : Rank[b] < Rank[a]}) < VerifierLimit}

\* A claim nobody verifies is assessed without attestations.
Discover(t) ==
    /\ task[t].pc = "new"
    /\ task' = [task EXCEPT ![t].pc = IF Resolved = {} THEN "check" ELSE "assign",
                            ![t].verifiers = Resolved]
    /\ UNCHANGED <<host, starts, needInbox, batch, inbox, unmatched, dropped>>

\* The NEEDs go out side by side; one that fails ends the call and the others go on.
SendNeed(t, a) ==
    LET sent == task[t].sent \cup {a}
    IN /\ task[t].pc \in {"assign", "failed"} /\ a \in task[t].verifiers \ task[t].sent
       /\ host[a].offered = "both"
       /\ needInbox' = [needInbox EXCEPT ![a] = Append(@, t)]
       /\ task' = [task EXCEPT ![t].sent = sent,
                     ![t].pc = IF @ = "assign" /\ sent = task[t].verifiers THEN "wait" ELSE @]
       /\ UNCHANGED <<host, starts, batch, inbox, unmatched, dropped>>

NeedFails(t, a) ==
    /\ task[t].pc = "assign" /\ a \in task[t].verifiers \ task[t].sent
    /\ task' = [task EXCEPT ![t].sent = @ \cup {a}, ![t].pc = "failed"]
    /\ UNCHANGED <<host, starts, needInbox, batch, inbox, unmatched, dropped>>

Pending(t, e) ==
    e.task = t /\ e.from \in task[t].verifiers /\ \A x \in task[t].events : x.from # e.from

\* One poll takes the whole inbox; the first RESULT of its own that does not verify
\* ends the call, and what came behind it is gone.
Forged(t) == {i \in DOMAIN inbox : Pending(t, inbox[i]) /\ inbox[i].out = "forged"}
Read(t) == IF Forged(t) = {} THEN ToSet(inbox) ELSE {inbox[i] : i \in 1..Min(Forged(t)) - 1}
Others(t) == {e \in Read(t) : ~Pending(t, e)}

Polled(t) ==
    LET events == task[t].events \cup (Read(t) \ Others(t))
    IN /\ task[t].pc = "wait" /\ inbox # <<>>
       /\ inbox' = <<>>
       /\ task' = [task EXCEPT ![t].events = events,
             ![t].pc = IF Forged(t) # {} THEN "failed"
                       ELSE IF Cardinality(events) = Cardinality(task[t].verifiers) THEN "check" ELSE @]
       /\ UNCHANGED <<host, starts, needInbox, batch>>

\* ClaimVerificationCoordinator.waitForResults: what is not its own is put aside.
PollClaim(t) ==
    /\ t \in Verifications /\ Polled(t)
    /\ unmatched' = unmatched \cup Others(t)
    /\ dropped' = dropped \cup (ToSet(inbox) \ Read(t))

\* ActiveTrustCoordinator.waitForResults: what is not its own is gone.
PollChallenge(t) ==
    /\ t \in Challenges /\ Polled(t)
    /\ dropped' = dropped \cup (ToSet(inbox) \ Read(t)) \cup Others(t)
    /\ UNCHANGED unmatched

Timeout(t) ==
    /\ task[t].pc = "wait"
    /\ task' = [task EXCEPT ![t].pc = "timeout"]
    /\ UNCHANGED <<host, starts, needInbox, batch, inbox, unmatched, dropped>>

Ends(t, ok) ==
    /\ task[t].pc = "check"
    /\ task' = [task EXCEPT ![t].pc = IF ok THEN "done" ELSE "failed"]
    /\ UNCHANGED <<host, starts, needInbox, batch, inbox, unmatched, dropped>>

\* The rest of verify: every answer is an attestation of the claim, then the receipt.
CheckClaim(t) ==
    t \in Verifications /\ Ends(t, \A e \in task[t].events : e.out # "none")

\* The rest of challenge: with every attestation its verification of this challenge.
CheckChallenge(t) ==
    t \in Challenges /\ Ends(t, \A e \in task[t].events : e.out = "proof")

VerificationNext ==
    \/ \E a \in Attesters :
          \/ OfferDiscovery(a) \/ Stop(a)
          \/ \E l \in Loops :
                \/ Start(a, l) \/ LoopEnds(a, l) \/ ServeOnce(a, l) \/ Forge(a, l)
                \/ \E out \in {"none", "attestation", "proof"} :
                      HandleClaimNeed(a, l, out) \/ HandleChallengeNeed(a, l, out)
    \/ \E t \in Tasks :
          \/ Discover(t) \/ PollClaim(t) \/ PollChallenge(t) \/ Timeout(t)
          \/ CheckClaim(t) \/ CheckChallenge(t)
          \/ \E a \in Attesters : SendNeed(t, a) \/ NeedFails(t, a)

VerificationSpec == VerificationInit /\ [][VerificationNext]_verificationVars

---------------------------------------------------------------------------

(* A receipt or an assessment that comes out rests on exactly one          *)
(* attestation of each verifier that was found, made for this very call,   *)
(* whatever late and foreign RESULTs were polled in between; a challenge   *)
(* is met only by attesters that answer challenges; and a call that was    *)
(* alone on its node finds every RESULT for it until it gives up           *)
(* (waitForResults, verify, challenge).                                    *)
AttestationsBelong ==
    \A t \in Tasks :
        /\ task[t].pc = "done" =>
              /\ \A a \in task[t].verifiers : Cardinality({e \in task[t].events : e.from = a}) = 1
              /\ t \in Challenges => task[t].verifiers \subseteq ChallengeAttesters
        /\ \A e \in task[t].events : e.task = t /\ e.from \in task[t].verifiers
        /\ task[t].pc # "failed" /\ (\A u \in Tasks \ {t} : task[u].pc = "new") =>
              \A e \in unmatched \cup dropped : e.task # t

=============================================================================
