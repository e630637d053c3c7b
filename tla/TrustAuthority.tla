--------------------------- MODULE TrustAuthority ---------------------------
(***************************************************************************)
(* The authority of a verifier: the owner's root certificate and the       *)
(* delegations under it (core/trust/source-owner-pki.js), the signed       *)
(* records by which delegated verifiers are found through the DHT          *)
(* (network/discovery/verifier-dht.js), and the receipts that bind an      *)
(* assessment to the owner's transparency log at one head                  *)
(* (core/trust/receipt-v2.js).                                             *)
(*                                                                         *)
(* The log is TransparencyLog's subject; here it is its sequence of        *)
(* entries.  Ids are of contents: a delegation made again for the same     *)
(* verifier has the id of the first, whatever its expiry.                  *)
(***************************************************************************)
EXTENDS Naturals, Sequences, FiniteSets, FiniteSetsExt

CONSTANTS
    Peers,          \* libp2p peers that serve a record
    VerifierOf,     \* the identity each of them signs with
    Limit, CandidateLimit,
    RootExpires, DelegationTtl, RecordTtl, MaxTime, MaxEntries

Verifiers == {VerifierOf[p] : p \in Peers}
Claim == "claim"
Subjects == Verifiers \cup {Claim}
NoRecord == [expires |-> 0]
NotRead == [sequence |-> MaxEntries + 1]

VARIABLES
    now,
    log,            \* entries: "event", or the subject of a REVOKE
    delegation,     \* when the delegation of each verifier expires; 0: none
    record,         \* the record each peer serves
    lookup,         \* discoverVerifiers: pc, the state it was given, peers asked, answers
    read,           \* lifecycleHead and revocationState the signer has read
    receipt         \* the receipt, or NoRecord

authorityVars == <<now, log, delegation, record, lookup, read, receipt>>

AuthorityTypeOK ==
    /\ now \in 0..MaxTime /\ log \in Seq(Subjects \cup {"event"}) /\ Len(log) <= MaxEntries
    /\ delegation \in [Verifiers -> 0..MaxTime + DelegationTtl]
    /\ DOMAIN record = Peers
    /\ lookup.pc \in {"idle", "collect", "ask", "done"} /\ lookup.asked \subseteq lookup.candidates

AuthorityInit ==
    /\ now = 0 /\ log = <<>>
    /\ delegation = [v \in Verifiers |-> 0]
    /\ record = [p \in Peers |-> NoRecord]
    /\ lookup = [pc |-> "idle", revoked |-> {}, candidates |-> {}, asked |-> {}, found |-> {}]
    /\ read = [head |-> NotRead, state |-> NotRead]
    /\ receipt = NoRecord

RevokedIn(n) == {log[i] : i \in 1..n} \cap Subjects

---------------------------------------------------------------------------

\* verifySourceOwnerCertificate, and createDelegationCertificate: not beyond the root.
OwnerValid == now < RootExpires

Delegate(v) ==
    /\ OwnerValid
    /\ \E e \in now + 1..now + DelegationTtl :
          /\ e <= RootExpires
          /\ delegation' = [delegation EXCEPT ![v] = e]
    /\ UNCHANGED <<now, log, record, lookup, read, receipt>>

\* verifyDelegationCertificate of one that expires at e
DelegationValid(e) == OwnerValid /\ now < e /\ e <= RootExpires

\* DecentralizedVerifierDiscovery.publish, createSignedVerifierRecord
Publish(p) ==
    /\ DelegationValid(delegation[VerifierOf[p]])
    /\ record' = [record EXCEPT ![p] = [peer |-> p, verifier |-> VerifierOf[p], issued |-> now,
                     expires |-> now + RecordTtl, delegated |-> delegation[VerifierOf[p]]]]
    /\ UNCHANGED <<now, log, delegation, lookup, read, receipt>>

\* An entry of the owner's log; nothing takes a REVOKE back.
AppendEntry(x) ==
    /\ Len(log) < MaxEntries
    /\ log' = Append(log, x)
    /\ UNCHANGED <<now, delegation, record, lookup, read, receipt>>

---------------------------------------------------------------------------

\* verifySignedVerifierRecord against the peer it was asked of and the given state
RecordValid(r, p) ==
    /\ r # NoRecord
    /\ r.peer = p
    /\ DelegationValid(r.delegated)
    /\ now < r.expires
    /\ r.verifier \notin lookup.revoked

\* discoverVerifiers: providers arrive until there are enough of them or time is up.
Discover ==
    /\ lookup.pc = "idle"
    /\ lookup' = [lookup EXCEPT !.pc = "collect", !.revoked = RevokedIn(Len(log))]
    /\ UNCHANGED <<now, log, delegation, record, read, receipt>>

Collect(p) ==
    /\ lookup.pc = "collect" /\ p \notin lookup.candidates
    /\ Cardinality(lookup.candidates) < CandidateLimit
    /\ record[p] # NoRecord
    /\ lookup' = [lookup EXCEPT !.candidates = @ \cup {p}]
    /\ UNCHANGED <<now, log, delegation, record, read, receipt>>

Collected ==
    /\ lookup.pc = "collect"
    /\ lookup' = [lookup EXCEPT !.pc = "ask"]
    /\ UNCHANGED <<now, log, delegation, record, read, receipt>>

\* An answer: the record of the peer, or one of another peer; what does not verify,
\* and no answer in time, count as none.
Answer(p, r) ==
    /\ lookup.pc = "ask" /\ p \in lookup.candidates \ lookup.asked
    /\ lookup' = [lookup EXCEPT !.asked = @ \cup {p},
                     !.found = IF RecordValid(r, p) THEN @ \cup {r} ELSE @]
    /\ UNCHANGED <<now, log, delegation, record, read, receipt>>

\* What may be returned: of each verifier its newest record, and of these the newest
\* Limit.  Which of two issued together comes first is the order of the providers.
Returnable(s, found) ==
    LET latest == {r \in found : \A q \in found : q.verifier = r.verifier => q.issued <= r.issued}
        verifiers == {r.verifier : r \in found}
        returned == {r.verifier : r \in s}
    IN /\ s \subseteq latest
       /\ Cardinality(s) = Cardinality(returned)
       /\ Cardinality(s) = Min({Limit, Cardinality(verifiers)})
       /\ \A r \in s, q \in latest : q.verifier \notin returned => q.issued <= r.issued

Return ==
    /\ lookup.pc = "ask" /\ lookup.asked = lookup.candidates
    /\ \E s \in SUBSET lookup.found :
          /\ Returnable(s, lookup.found)
          /\ lookup' = [lookup EXCEPT !.pc = "done", !.found = s]
    /\ UNCHANGED <<now, log, delegation, record, read, receipt>>

---------------------------------------------------------------------------

\* head() and revocationState(relevant) are read one after the other.
ReadHead ==
    /\ read' = [read EXCEPT !.head = [sequence |-> Len(log)]]
    /\ UNCHANGED <<now, log, delegation, record, lookup, receipt>>

ReadState(relevant) ==
    /\ read' = [read EXCEPT !.state = [sequence |-> Len(log), relevant |-> relevant,
                                       revoked |-> RevokedIn(Len(log)) \cap relevant]]
    /\ UNCHANGED <<now, log, delegation, record, lookup, receipt>>

\* validateCommittedState
CommittedState(head, state, v) ==
    /\ head # NotRead /\ state # NotRead
    /\ head.sequence = state.sequence
    /\ {v, Claim} \subseteq state.relevant
    /\ {v, Claim} \cap state.revoked = {}

\* createTrustReceiptV2
SignReceiptV2(v) ==
    /\ receipt = NoRecord
    /\ DelegationValid(delegation[v])
    /\ CommittedState(read.head, read.state, v)
    /\ receipt' = [verifier |-> v, delegated |-> delegation[v], head |-> read.head, state |-> read.state]
    /\ UNCHANGED <<now, log, delegation, record, lookup, read>>

Tick ==
    /\ now < MaxTime
    /\ now' = now + 1
    /\ UNCHANGED <<log, delegation, record, lookup, read, receipt>>

AuthorityNext ==
    \/ \E v \in Verifiers : Delegate(v) \/ SignReceiptV2(v)
    \/ \E p \in Peers : Publish(p) \/ Collect(p) \/ \E q \in Peers : Answer(p, record[q])
    \/ \E x \in Subjects \cup {"event"} : AppendEntry(x)
    \/ Discover \/ Collected \/ Return \/ ReadHead \/ Tick
    \/ \E v \in Verifiers : \E relevant \in {{v, Claim}, {v}} : ReadState(relevant)

AuthoritySpec == AuthorityInit /\ [][AuthorityNext]_authorityVars

---------------------------------------------------------------------------

\* verifyTrustReceiptV2 now, against the current head, the current state, or neither
ReceiptValid(withHead, withState) ==
    /\ receipt # NoRecord
    /\ DelegationValid(receipt.delegated)
    /\ CommittedState(receipt.head, receipt.state, receipt.verifier)
    /\ withHead => receipt.head.sequence = Len(log)
    /\ withState => /\ receipt.state.sequence = Len(log)
                    /\ {receipt.verifier, Claim} \cap RevokedIn(Len(log)) = {}

(* Discovery returns at most one record of a verifier, and as many         *)
(* verifiers as were found up to the limit; each was served by the very    *)
(* peer it names, and its delegation was not revoked in the state that     *)
(* discovery was given, though peers answer with each other's records and  *)
(* republish meanwhile.  A receipt that verifies against the current head  *)
(* or the current state, in whatever order its signer read the two while   *)
(* the log grew, is of a claim and a delegation that are not revoked now   *)
(* and of a delegation within the root's time (discoverVerifiers,          *)
(* createTrustReceiptV2, verifyTrustReceiptV2).                            *)
AuthoritySound ==
    /\ lookup.pc = "done" =>
          /\ Cardinality({r.verifier : r \in lookup.found}) = Cardinality(lookup.found)
          /\ Cardinality(lookup.found) <= Limit
          /\ \A r \in lookup.found : /\ r.peer \in lookup.asked /\ r.verifier = VerifierOf[r.peer]
                                     /\ r.verifier \notin lookup.revoked
    /\ \A h, s \in BOOLEAN : (h \/ s) /\ ReceiptValid(h, s) =>
          /\ {receipt.verifier, Claim} \cap RevokedIn(Len(log)) = {}
          /\ now < receipt.delegated /\ now < RootExpires

=============================================================================
