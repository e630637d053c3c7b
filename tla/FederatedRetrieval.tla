------------------------ MODULE FederatedRetrieval -------------------------
(***************************************************************************)
(* One retrieval of the federated coordinator (node/federated-context.js)  *)
(* over replicated partitions: offers are parsed and grouped, replicas     *)
(* chosen by trust and failure domain, asked partition by partition, and   *)
(* what they return is accepted only when a quorum of holders agrees       *)
(* (core/context/byzantine-retrieval.js, distributed-retrieval.js).        *)
(*                                                                         *)
(* Blocks and holders are numbers: the partition of a block is its number  *)
(* modulo the partition count, and holders are compared by number where    *)
(* the code compares node ids.  Honest holders of a partition run the same *)
(* retrieval on the same blocks; a faulty one answers anything.            *)
(***************************************************************************)
EXTENDS Naturals, FiniteSets

CONSTANTS
    Blocks,       \* the blocks of the manifest
    Offers,       \* offers the resolver may find: id, holder, index, count, blockCount,
                  \* trust, domain (0: none declared)
    Faulty,       \* the holders that answer anything
    Relevant,     \* the blocks an honest holder returns for the question
    ReplicaReads, Quorum

VARIABLES
    offers,       \* what findOffers returned
    fed           \* the retrieval: pc, the partition it reads, the holders it waits for,
                  \* responses, verified candidates and the result

federatedVars == <<offers, fed>>

\* distributedPartitionForBlockCid, expectedManifestPartition.
PartitionOf(b, count) == b % count
ExpectedPartition(index, count) == {b \in Blocks : PartitionOf(b, count) = index}

\* parsePlacementOffer.
Parsed == {o \in offers : /\ o.index < o.count
                          /\ o.blockCount = Cardinality(ExpectedPartition(o.index, o.count))}
Counts == {o.count : o \in Parsed}
Count == CHOOSE n \in Counts : TRUE

\* groupPlacementCoverage: holders there are, of one contract, for every partition.
Covered == /\ Cardinality(Counts) = 1
           /\ \A i \in 0..Count - 1 : \E o \in Parsed : o.index = i
Holding(i) == {o \in Parsed : o.index = i}

\* holderOperationalTrust, then the node id, then the order of the offers.
Better(a, b) ==
    \/ a.trust > b.trust
    \/ a.trust = b.trust /\ (a.holder < b.holder \/ (a.holder = b.holder /\ a.id < b.id))
First(n, os) == {o \in os : Cardinality({p \in os : Better(p, o)}) < n}

\* selectTrustedReplicaSet: the best of every failure domain first, then the best of
\* the others.
SelectTrustedReplicaSet(os) ==
    LET diverse == First(ReplicaReads,
                         {o \in os : o.domain = 0 \/ \A p \in os : p.domain = o.domain => ~Better(p, o)})
    IN diverse \cup First(ReplicaReads - Cardinality(diverse), os \ diverse)

---------------------------------------------------------------------------

Idle == [pc |-> "idle", part |-> 0, waiting |-> {}, asked |-> {}, responses |-> [i \in {} |-> 0],
         responders |-> {}, verified |-> {}, result |-> {}]

FederatedTypeOK ==
    /\ offers \subseteq Offers
    /\ fed.pc \in {"idle", "ask", "decide", "done", "failed"}
    /\ fed.waiting \subseteq offers /\ fed.asked \subseteq offers /\ fed.result \subseteq Blocks
    /\ \A v \in fed.verified : v[1] \in Blocks

FederatedInit == offers \in SUBSET Offers /\ fed = Idle

Ask(i, f) ==
    LET chosen == SelectTrustedReplicaSet(Holding(i))
    IN [f EXCEPT !.pc = "ask", !.part = i, !.waiting = chosen, !.asked = @ \cup chosen,
                 !.responses = [j \in DOMAIN f.responses \cup {i} |-> IF j = i THEN 0 ELSE f.responses[j]]]

\* discover: without coverage, or with fewer holders than the quorum, it fails.
Discover ==
    /\ fed.pc = "idle"
    /\ fed' = IF Covered /\ \A i \in 0..Count - 1 : Cardinality(Holding(i)) >= Quorum
              THEN Ask(0, fed) ELSE [fed EXCEPT !.pc = "failed"]
    /\ UNCHANGED offers

\* When every replica of a partition has answered or failed, the next one is read.
Move(f) ==
    IF f.waiting # {} THEN f
    ELSE IF f.part + 1 < Count THEN Ask(f.part + 1, f) ELSE [f EXCEPT !.pc = "decide"]

\* holderRequester throws or returns nothing, or what it returns is of another
\* holder, root, query or partition.
HolderFails(o) ==
    /\ fed.pc = "ask" /\ o \in fed.waiting
    /\ fed' = Move([fed EXCEPT !.waiting = @ \ {o}])
    /\ UNCHANGED offers

\* verifyDistributedCandidate: of the manifest, of the holder's partition, with a
\* receipt of the holder.
Verified(o, bs, signed) ==
    {<<b, o.holder, o.index>> : b \in {c \in bs : signed /\ PartitionOf(c, o.count) = o.index}}

HolderAnswers(o, bs, signed) ==
    /\ fed.pc = "ask" /\ o \in fed.waiting
    /\ o.holder \notin Faulty => signed /\ bs = Relevant \cap ExpectedPartition(o.index, o.count)
    /\ fed' = Move([fed EXCEPT !.waiting = @ \ {o}, !.responses[o.index] = @ + 1,
                               !.responders = @ \cup {<<o.holder, o.index>>},
                               !.verified = @ \cup Verified(o, bs, signed)])
    /\ UNCHANGED offers

\* buildCandidateQuorum: how many holders returned the block.
Supporters(b) == {v[2] : v \in {w \in fed.verified : w[1] = b}}
EveryCandidate == {v[1] : v \in fed.verified}
\* Mutant: one holder too few is enough.
NearQuorumCandidates == {b \in EveryCandidate : Cardinality(Supporters(b)) >= Quorum - 1}

QuorumCandidates == {b \in EveryCandidate : Cardinality(Supporters(b)) >= Quorum}

\* The response quorum of every partition, the candidate quorum, and the selector,
\* which may choose what it was not given.
Decide ==
    /\ fed.pc = "decide"
    /\ \/ /\ \/ \E i \in 0..Count - 1 : fed.responses[i] < Quorum
             \/ QuorumCandidates = {}
          /\ fed' = [fed EXCEPT !.pc = "failed"]
       \/ /\ \A i \in 0..Count - 1 : fed.responses[i] >= Quorum
          /\ \E b \in Blocks :
                fed' = IF b \in QuorumCandidates
                       THEN [fed EXCEPT !.pc = "done", !.result = {b}]
                       ELSE [fed EXCEPT !.pc = "failed"]
    /\ UNCHANGED offers

FederatedNext ==
    \/ Discover \/ Decide
    \/ \E o \in Offers :
          \/ HolderFails(o)
          \/ \E bs \in SUBSET Blocks, signed \in BOOLEAN : HolderAnswers(o, bs, signed)

FederatedSpec == FederatedInit /\ [][FederatedNext]_federatedVars

---------------------------------------------------------------------------

HoldersOf(i) == {o.holder : o \in {p \in fed.asked : p.index = i}}
Doubled(i) == \E o, p \in fed.asked : o # p /\ o.index = i /\ p.index = i /\ o.holder = p.holder

(* A returned block comes from as many holders of its partition as the     *)
(* quorum says, so from an honest one while fewer are faulty, however      *)
(* trusted the faulty ones are.  Every partition answered with a quorum of *)
(* holders, unless one holder is asked under two placement records: its    *)
(* answers count twice (retrieve, buildCandidateQuorum).                   *)
QuorumBacked ==
    fed.pc = "done" =>
        /\ \A b \in fed.result :
              LET i == PartitionOf(b, Count)
              IN /\ Cardinality(Supporters(b) \cap HoldersOf(i)) >= Quorum
                 /\ Cardinality(HoldersOf(i) \cap Faulty) < Quorum => b \in Relevant
        /\ \A i \in 0..Count - 1 :
              ~Doubled(i) => Cardinality({r \in fed.responders : r[2] = i}) >= Quorum

Domains(os) == {o.domain : o \in os} \ {0}
Undeclared(os) == {o \in os : o.domain = 0}

(* The replicas of a partition are as many as wanted or as there are, the  *)
(* most trusted among them, and no choice of as many would reach more      *)
(* failure domains (selectTrustedReplicaSet).                              *)
ReplicasDiverse ==
    fed.pc \in {"ask", "decide", "done"} =>
        \A i \in 0..fed.part :
            LET os == Holding(i)
                chosen == {o \in fed.asked : o.index = i}
                spread(s) == Cardinality(Domains(s)) + Cardinality(Undeclared(s))
            IN /\ Cardinality(chosen) =
                      IF Cardinality(os) < ReplicaReads THEN Cardinality(os) ELSE ReplicaReads
               /\ \A o \in os : (\A p \in os \ {o} : Better(o, p)) => o \in chosen
               /\ \A s \in SUBSET os : Cardinality(s) <= ReplicaReads => spread(s) <= spread(chosen)

=============================================================================
