----------------------------- MODULE MCOverlay -----------------------------
(*****************************************************************************)
(* The overlay network seen from one node, in one run: each behaviour is     *)
(* one of one part, and focus tells which.                                   *)
(*   discovery  three peers in two buckets of one, a walk, a refresh         *)
(*   cache      three peers of one bucket with room for one record more      *)
(*   quic       two requests over two connections, a ledger and a restart    *)
(*   memory     two requests with the NEED ids in memory, one remembered     *)
(*   lanes      three requests over one connection with room for one         *)
(*   placement  one holder, three directories of which two are asked         *)
(*   agreeing   one holder, three directories of which two are to agree      *)
(*   federated  a read from replicas of two partitions, one holder lying     *)
(*   context    two retrievals that share two holders and one inbox          *)
(*   trust      a claim with four possible attestations and two lineages     *)
(*   authority  a root, a delegation, a record and two peers that serve it   *)
(*   verify     two verifications on one node, that ask two attesters each   *)
(*   challenged a challenge that asks two attesters                          *)
(*   restarted  a verification and a challenge that ask one attester each,   *)
(*              whose loops die and start again                              *)
(* Requests, retrievals and the peers are the interchangeable Pair.          *)
(*****************************************************************************)
EXTENDS Naturals, TLC

CONSTANTS Pair, Near, Far, Publisher, OneNeed

VARIABLES
    focus,
    peerRecord, recency, bucket, walk, refresh, walksLeft,
    client, server, replay, request, waiting, seen, handled, starts,
    v1, v2, v3, v4, v5, v6, v7, v8  \* shared by the other parts

\* Identifiers of three bits; the node itself is 0.
Bit(a, b) == IF a % 2 = b % 2 THEN 0 ELSE 1

Xor ==
    [p \in (0..7) \X (0..7) |->
        Bit(p[1], p[2]) + 2 * Bit(p[1] \div 2, p[2] \div 2) + 4 * Bit(p[1] \div 4, p[2] \div 4)]

Offer == [protocols |-> 1..2, semantics |-> {"a"}, required |-> {}]

Rank == [h \in {Near, Far} |-> IF h = Near THEN 1 ELSE 2]

\* Replicas of a context of three blocks in one or two partitions; holder 1 lies.
Replica(id, holder, index, count, blocks, trust, domain) ==
    [id |-> id, holder |-> holder, index |-> index, count |-> count,
     blockCount |-> blocks, trust |-> trust, domain |-> domain]

Replicas ==
    {Replica(1, 1, 0, 2, 2, 1, 1), Replica(2, 2, 0, 2, 2, 0, 1), Replica(3, 3, 0, 2, 2, 0, 2),
     Replica(4, 1, 1, 2, 1, 1, 1), Replica(5, 2, 1, 2, 1, 0, 0), Replica(6, 1, 0, 2, 2, 0, 1),
     Replica(7, 3, 1, 1, 3, 0, 0), Replica(8, 4, 0, 2, 2, 0, 0)}

\* Attestations of a claim about the source s: a and b are independent, c shares
\* a token with each of them, d contradicts.
Body(node, verdict, tokens) == [by |-> node, verdict |-> verdict, tokens |-> tokens, source |-> "s"]

Bodies ==
    {Body("a", "support", {"x"}), Body("b", "support", {"y"}),
     Body("c", "support", {"x", "y"}), Body("d", "contradict", {"z"})}

Lineages ==
    {[owner |-> "o", source |-> "s", tokens |-> {"x", "y"}],
     [owner |-> "p", source |-> "s", tokens |-> {"y", "z"}]}

Revocations ==
    {[type |-> "claim", target |-> "claim", by |-> "i"],
     [type |-> "attestation", target |-> Body("a", "support", {"x"}), by |-> "a"],
     [type |-> "certificate", target |-> [owner |-> "o", source |-> "s", tokens |-> {"x", "y"}], by |-> "o"]}

Discovery == INSTANCE PeerDiscovery WITH
    Peers <- 1..3, Distance <- Xor, Bucket <- <<0, 1, 1>>, K <- 1, Alpha <- 1, MaxRounds <- 2,
    MaxCached <- 1, MaxSequence <- 1, MaxWalks <- 1, MaxTargets <- 2, IdleWalks <- 1,
    record <- peerRecord

Cache == INSTANCE PeerDiscovery WITH
    Peers <- 4..6, Distance <- Xor, Bucket <- [p \in 4..6 |-> 2], K <- 1, Alpha <- 1,
    MaxRounds <- 1, MaxCached <- 1, MaxSequence <- 1, MaxWalks <- 1, MaxTargets <- 1,
    IdleWalks <- 1, record <- peerRecord

Quic == INSTANCE QuicTransport WITH
    Conns <- 1..2, Requests <- Pair, Needs <- {OneNeed}, Protocols <- 1..2, Semantics <- {"a"},
    ServerOffer <- Offer, MaxInFlight <- 2, MaxQueued <- 1, MaxEntries <- 1,
    MaxSeenNeedIds <- 1, DurableNeeds <- TRUE, MaxServerStarts <- 2

Memory == INSTANCE QuicTransport WITH
    Conns <- 1..2, Requests <- Pair, Needs <- Pair, Protocols <- 1..2, Semantics <- {"a"},
    ServerOffer <- Offer, MaxInFlight <- 1, MaxQueued <- 1, MaxEntries <- 1,
    MaxSeenNeedIds <- 1, DurableNeeds <- FALSE, MaxServerStarts <- 1

Lanes == INSTANCE QuicTransport WITH
    Conns <- {1}, Requests <- Pair \cup {OneNeed}, Needs <- Pair, Protocols <- {1}, Semantics <- {},
    ServerOffer <- [protocols |-> {1}, semantics |-> {}, required |-> {}], MaxInFlight <- 1,
    MaxQueued <- 1, MaxEntries <- 1, MaxSeenNeedIds <- 2, DurableNeeds <- FALSE,
    MaxServerStarts <- 1

Placed == INSTANCE Placement WITH
    Ranking <- <<Near, Far, Publisher>>, ReplicationFactor <- 2, Holders <- {OneNeed},
    Outsider <- "outsider", MinDirectoryAgreement <- 1, MaxSequence <- 2, Ttl <- 1,
    MaxTime <- 1, MaxRequests <- 2, MaxGossips <- 1, now <- v1, requests <- v2, made <- v3,
    records <- v4, revoked <- v5, lookup <- v6, gossips <- v7

Agreeing == INSTANCE Placement WITH
    Ranking <- <<Near, Far, Publisher>>, ReplicationFactor <- 3, Holders <- {OneNeed},
    Outsider <- OneNeed, MinDirectoryAgreement <- 2, MaxSequence <- 2, Ttl <- 1,
    MaxTime <- 1, MaxRequests <- 2, MaxGossips <- 0, now <- v1, requests <- v2, made <- v3,
    records <- v4, revoked <- v5, lookup <- v6, gossips <- v7

Federated == INSTANCE FederatedRetrieval WITH
    Blocks <- 0..2, Offers <- Replicas, Faulty <- {1}, Relevant <- 0..1, ReplicaReads <- 3,
    Quorum <- 2, offers <- v1, fed <- v2

Context == INSTANCE DistributedContext WITH
    Retrievals <- Pair, Holders <- {Near, Far}, Partitions <- 0..1,
    PartOf <- [h \in {Near, Far} |-> IF h = Near THEN 0 ELSE 1], Rank <- Rank, MaxStarts <- 2,
    host <- v1, starts <- v2, needInbox <- v3, batch <- v4, inbox <- v5, retrieval <- v6,
    unmatched <- v7, lost <- v8

Trust == INSTANCE TrustAssessment WITH
    Bodies <- Bodies, Lineages <- Lineages, Revocations <- Revocations, Issuer <- "i",
    Disputers <- {"m"}, AuthorizedDisputers <- {"m"}, Retrieval <- "verified",
    MinIndependentSupport <- 2, MaxContradictForVerified <- 0, RequireKnownLineage <- TRUE,
    MaxAge <- 0, Ttl <- 1, MaxTime <- 1, MaxAttestations <- 3, MaxCertificates <- 1,
    MaxRevocations <- 1, now <- v1, attestations <- v2, certificates <- v3, revocations <- v4,
    disputes <- v5, receipt <- v6

Authority == INSTANCE TrustAuthority WITH
    Peers <- Pair, VerifierOf <- [p \in Pair |-> "v"], Limit <- 2, CandidateLimit <- 2,
    RootExpires <- 2, DelegationTtl <- 2, RecordTtl <- 2, MaxTime <- 1, MaxEntries <- 1,
    now <- v1, log <- v2, delegation <- v3, record <- v4, lookup <- v5, read <- v6,
    receipt <- v7

Verification == INSTANCE TrustVerification WITH
    Verifications <- Pair, Challenges <- {}, ClaimAttesters <- {Near, Far},
    ChallengeAttesters <- {}, Rank <- Rank, VerifierLimit <- 2, MaxStarts <- 2, host <- v1,
    starts <- v2, needInbox <- v3, batch <- v4, inbox <- v5, task <- v6, unmatched <- v7,
    dropped <- v8

Challenged == INSTANCE TrustVerification WITH
    Verifications <- {}, Challenges <- {OneNeed}, ClaimAttesters <- {Near},
    ChallengeAttesters <- {Near, Far}, Rank <- Rank, VerifierLimit <- 2, MaxStarts <- 2, host <- v1,
    starts <- v2, needInbox <- v3, batch <- v4, inbox <- v5, task <- v6, unmatched <- v7,
    dropped <- v8

Restarted == INSTANCE TrustVerification WITH
    Verifications <- {Publisher}, Challenges <- {OneNeed}, ClaimAttesters <- {Near},
    ChallengeAttesters <- {Far}, Rank <- Rank, VerifierLimit <- 1, MaxStarts <- 2, host <- v1,
    starts <- v2, needInbox <- v3, batch <- v4, inbox <- v5, task <- v6, unmatched <- v7,
    dropped <- v8

discoveryVars == <<peerRecord, recency, bucket, walk, refresh, walksLeft>>
quicVars == <<client, server, replay, request, waiting, seen, handled, starts>>

\* The variables of a part that is not in focus have no meaning.
DiscoveryUnused ==
    /\ peerRecord = 0 /\ recency = 0 /\ bucket = 0 /\ walk = 0 /\ refresh = 0
    /\ walksLeft = 0

QuicUnused ==
    /\ client = 0 /\ server = 0 /\ replay = 0 /\ request = 0 /\ waiting = 0 /\ seen = 0
    /\ handled = 0 /\ starts = 0

\* Of the shared variables a part uses the first ones; the rest stay 0.
UnusedFrom8 == v8 = 0
UnusedFrom7 == v7 = 0 /\ UnusedFrom8
UnusedFrom3 == v3 = 0 /\ v4 = 0 /\ v5 = 0 /\ v6 = 0 /\ UnusedFrom7
UnusedFrom1 == v1 = 0 /\ v2 = 0 /\ UnusedFrom3
from8 == <<v8>>
from7 == <<v7, from8>>
from3 == <<v3, v4, v5, v6, from7>>
from1 == <<v1, v2, from3>>

NamedUnused == DiscoveryUnused /\ QuicUnused

namedVars == <<discoveryVars, quicVars>>

MCInit ==
    \/ focus = "discovery" /\ Discovery!DiscoveryInit /\ QuicUnused /\ UnusedFrom1
    \/ focus = "cache" /\ Cache!DiscoveryInit /\ QuicUnused /\ UnusedFrom1
    \/ focus = "quic" /\ Quic!QuicInit /\ DiscoveryUnused /\ UnusedFrom1
    \/ focus = "memory" /\ Memory!QuicInit /\ DiscoveryUnused /\ UnusedFrom1
    \/ focus = "lanes" /\ Lanes!QuicInit /\ DiscoveryUnused /\ UnusedFrom1
    \/ focus = "placement" /\ Placed!PlacementInit /\ NamedUnused /\ UnusedFrom8
    \/ focus = "agreeing" /\ Agreeing!PlacementInit /\ NamedUnused /\ UnusedFrom8
    \/ focus = "federated" /\ Federated!FederatedInit /\ NamedUnused /\ UnusedFrom3
    \/ focus = "context" /\ Context!ContextInit /\ NamedUnused
    \/ focus = "trust" /\ Trust!TrustInit /\ NamedUnused /\ UnusedFrom7
    \/ focus = "authority" /\ Authority!AuthorityInit /\ NamedUnused /\ UnusedFrom8
    \/ focus = "verify" /\ Verification!VerificationInit /\ NamedUnused
    \/ focus = "challenged" /\ Challenged!VerificationInit /\ NamedUnused
    \/ focus = "restarted" /\ Restarted!VerificationInit /\ NamedUnused

MCNext ==
    \/ focus = "discovery" /\ Discovery!DiscoveryNext /\ UNCHANGED <<focus, quicVars, from1>>
    \/ focus = "cache" /\ Cache!DiscoveryNext /\ UNCHANGED <<focus, quicVars, from1>>
    \/ focus = "quic" /\ Quic!QuicNext /\ UNCHANGED <<focus, discoveryVars, from1>>
    \/ focus = "memory" /\ Memory!QuicNext /\ UNCHANGED <<focus, discoveryVars, from1>>
    \/ focus = "lanes" /\ Lanes!QuicNext /\ UNCHANGED <<focus, discoveryVars, from1>>
    \/ focus = "placement" /\ Placed!PlacementNext /\ UNCHANGED <<focus, namedVars, from8>>
    \/ focus = "agreeing" /\ Agreeing!PlacementNext /\ UNCHANGED <<focus, namedVars, from8>>
    \/ focus = "federated" /\ Federated!FederatedNext /\ UNCHANGED <<focus, namedVars, from3>>
    \/ focus = "context" /\ Context!ContextNext /\ UNCHANGED <<focus, namedVars>>
    \/ focus = "trust" /\ Trust!TrustNext /\ UNCHANGED <<focus, namedVars, from7>>
    \/ focus = "authority" /\ Authority!AuthorityNext /\ UNCHANGED <<focus, namedVars, from8>>
    \/ focus = "verify" /\ Verification!VerificationNext /\ UNCHANGED <<focus, namedVars>>
    \/ focus = "challenged" /\ Challenged!VerificationNext /\ UNCHANGED <<focus, namedVars>>
    \/ focus = "restarted" /\ Restarted!VerificationNext /\ UNCHANGED <<focus, namedVars>>

MCSpec == MCInit /\ [][MCNext]_<<focus, namedVars, from1>>

PairSymmetry == Permutations(Pair)

-----------------------------------------------------------------------------
\* RoutingBacked and NothingStalls of PeerDiscovery: the routing table names only
\* peers with a record, and a walk or a refresh that has work left goes on.
DiscoverySound ==
    /\ focus = "discovery" => Discovery!RoutingBacked /\ Discovery!NothingStalls
    /\ focus = "cache" => Cache!RoutingBacked /\ Cache!NothingStalls

\* SessionsAgree, NeedHandledOnce and BackgroundNeverWaits of QuicTransport.
QuicSound ==
    CASE focus = "quic" ->
            Quic!QuicTypeOK /\ Quic!SessionsAgree /\ Quic!NeedHandledOnce /\ Quic!BackgroundNeverWaits
      [] focus = "memory" -> Memory!SessionsAgree /\ Memory!NeedHandledOnce /\ Memory!BackgroundNeverWaits
      [] focus = "lanes" -> Lanes!SessionsAgree /\ Lanes!NeedHandledOnce /\ Lanes!BackgroundNeverWaits
      [] OTHER -> TRUE

\* LookupSound of Placement, QuorumBacked and ReplicasDiverse of
\* FederatedRetrieval, AnswersBelong of DistributedContext: a lookup returns only
\* live records that enough directories hold, a block is accepted only with the
\* quorum of replicas it names, and a retrieval never uses an answer to another.
ContextSound ==
    CASE focus = "placement" -> Placed!PlacementTypeOK /\ Placed!LookupSound
      [] focus = "agreeing" -> Agreeing!PlacementTypeOK /\ Agreeing!LookupSound
      [] focus = "federated" ->
            Federated!FederatedTypeOK /\ Federated!QuorumBacked /\ Federated!ReplicasDiverse
      [] focus = "context" -> Context!ContextTypeOK /\ Context!AnswersBelong
      [] OTHER -> TRUE

\* VerifiedIsIndependent and OnlyLiveEvidenceCounts of TrustAssessment,
\* AuthoritySound of TrustAuthority, AttestationsBelong of TrustVerification:
\* a claim is verified only by live and independent evidence, a record is
\* believed only under a delegation that is committed and not revoked, and an
\* attestation counts only for the verification that asked for it.
TrustSound ==
    CASE focus = "trust" ->
            Trust!TrustTypeOK /\ Trust!VerifiedIsIndependent /\ Trust!OnlyLiveEvidenceCounts
      [] focus = "authority" -> Authority!AuthorityTypeOK /\ Authority!AuthoritySound
      [] focus = "verify" -> Verification!VerificationTypeOK /\ Verification!AttestationsBelong
      [] focus = "challenged" -> Challenged!VerificationTypeOK /\ Challenged!AttestationsBelong
      [] focus = "restarted" -> Restarted!VerificationTypeOK /\ Restarted!AttestationsBelong
      [] OTHER -> TRUE
=============================================================================
