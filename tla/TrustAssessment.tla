--------------------------- MODULE TrustAssessment ---------------------------
(***************************************************************************)
(* How one claim is assessed from the attestations, lineage certificates,  *)
(* revocations and disputes known at the moment (core/trust/lifecycle.js,  *)
(* core/trust/claim-verification.js, core/provenance/index.js,             *)
(* core/claims/index.js).                                                  *)
(*                                                                         *)
(* Signatures and content ids are abstracted: an object is what its signer *)
(* said.  The id of an attestation covers its body and signer and not the  *)
(* time of signing, so the same body signed again has the same id.         *)
(***************************************************************************)
EXTENDS Naturals, Sequences, FiniteSets, FiniteSetsExt, SequencesExt, Relation, TLC

CONSTANTS
    Bodies,           \* [by, verdict, tokens, source] an attester may sign
    Lineages,         \* [owner, source, tokens] that may be certified
    Revocations,      \* [type, target, by] that may be signed
    Issuer,           \* issuedBy of the claim
    Disputers, AuthorizedDisputers,
    Retrieval,        \* the retrieval basis: "free", "verified" or "mismatch"
    MinIndependentSupport, MaxContradictForVerified, RequireKnownLineage,
    MaxAge, Ttl, MaxTime, MaxAttestations, MaxCertificates, MaxRevocations

VARIABLES
    now,
    attestations,     \* sequence of [body, at]
    certificates,     \* sequence of [lineage, expires]
    revocations,      \* set of Revocations
    disputes,         \* signers of a DISPUTE
    receipt           \* the trust receipt, or NoReceipt

trustVars == <<now, attestations, certificates, revocations, disputes, receipt>>

NoReceipt == [status |-> "none", over |-> <<>>]

TrustTypeOK ==
    /\ now \in 0..MaxTime /\ disputes \subseteq Disputers /\ revocations \subseteq Revocations
    /\ \A i \in DOMAIN attestations : attestations[i].body \in Bodies /\ attestations[i].at \in 0..now
    /\ \A i \in DOMAIN certificates : certificates[i].lineage \in Lineages
    /\ Len(attestations) <= MaxAttestations /\ Len(certificates) <= MaxCertificates

TrustInit ==
    /\ now = 0 /\ attestations = <<>> /\ certificates = <<>>
    /\ revocations = {} /\ disputes = {} /\ receipt = NoReceipt

---------------------------------------------------------------------------

\* unionFind: find without the path halving, which moves no root; union.
FindRoot(parent, v) ==
    LET find[u \in DOMAIN parent] == IF parent[u] = u THEN u ELSE find[parent[u]] IN find[v]

Union(parent, a, b) ==
    LET ra == FindRoot(parent, a)
        rb == FindRoot(parent, b)
    IN IF ra = rb THEN parent ELSE [parent EXCEPT ![rb] = ra]

\* tokenOwner over the attestations in their order; all of unknown lineage are one group.
Roots(atts) ==
    LET Claimed(i, t, acc) ==
            IF t \in DOMAIN acc.owner
            THEN [acc EXCEPT !.parent = Union(@, i, acc.owner[t])]
            ELSE [acc EXCEPT !.owner = @ @@ (t :> i)]
        Seen(acc, i) == FoldSet(LAMBDA t, a : Claimed(i, t, a), acc, atts[i].body.tokens)
        start == [parent |-> [i \in DOMAIN atts |-> i], owner |-> <<>>]
        known == FoldLeftDomain(Seen, start, atts).parent
        unknown == {i \in DOMAIN atts : atts[i].body.tokens = {}}
    IN IF unknown = {} THEN known
       ELSE FoldSet(LAMBDA i, p : Union(p, Min(unknown), i), known, unknown)

\* A supporter and a contradictor of the same lineage cancel out.
GroupVerdict(verdicts) ==
    IF {"support", "contradict"} \subseteq verdicts THEN "mixed"
    ELSE IF "support" \in verdicts THEN "support"
    ELSE IF "contradict" \in verdicts THEN "contradict" ELSE "uncertain"

\* Mutant: every attestation stands for itself.
EachItsOwn(atts) == {{i} : i \in DOMAIN atts}

Groups(atts) ==
    LET parent == Roots(atts)
    IN {{i \in DOMAIN atts : FindRoot(parent, i) = r} : r \in {FindRoot(parent, i) : i \in DOMAIN atts}}

\* analyzeAttestationIndependence
Independence(atts) ==
    LET groups == Groups(atts)
        known == {g \in groups : \E i \in g : atts[i].body.tokens # {}}
        Of(v) == Cardinality({g \in known : GroupVerdict({atts[i].body.verdict : i \in g}) = v})
    IN [known |-> Cardinality(known), unknown |-> Cardinality(groups \ known),
        support |-> Of("support"), contradict |-> Of("contradict"), mixed |-> Of("mixed")]

\* verifyRetrievalBinding: verified must hold of a claim that was drawn from retrieved
\* context, with the same root, query, digest and selection.
RetrievalRefused == Retrieval = "mismatch"

\* What the counts n of independent groups amount to (assessClaimEvidence).
EvidenceStatus(n) ==
    IF n.mixed > 0 \/ (n.support > 0 /\ n.contradict > 0) THEN "disputed"
    ELSE IF n.contradict >= MinIndependentSupport /\ n.support = 0 THEN "contradicted"
    ELSE IF /\ n.support >= MinIndependentSupport
            /\ n.contradict <= MaxContradictForVerified
            /\ RequireKnownLineage => n.known >= MinIndependentSupport
    THEN "verified" ELSE "insufficient_independence"

\* assessClaimEvidence
ClaimStatus(atts) ==
    CASE RetrievalRefused -> "retrieval_unverified"
      [] ~RetrievalRefused /\ atts = <<>> -> "unsupported"
      [] OTHER -> EvidenceStatus(Independence(atts))

---------------------------------------------------------------------------

\* revokedByIssuer: a revocation by anyone else has no effect.
RevokedByIssuer(type, target, issuer) ==
    [type |-> type, target |-> target, by |-> issuer] \in revocations

\* certificateIndex: of the certificates of a source that hold, the last one.
CertificateOf(source) ==
    LET valid == {i \in DOMAIN certificates :
                    /\ certificates[i].lineage.source = source
                    /\ now < certificates[i].expires
                    /\ ~RevokedByIssuer("certificate", certificates[i].lineage, certificates[i].lineage.owner)}
    IN IF valid = {} THEN {} ELSE {certificates[Max(valid)].lineage}

\* declaredLineageIsCertified: every declared token is certified, and there is one.
Certified(att) ==
    /\ att.body.tokens # {}
    /\ \E c \in CertificateOf(att.body.source) : att.body.tokens \subseteq c.tokens

Revoked(att) == RevokedByIssuer("attestation", att.body, att.body.by)
Stale(att) == now - att.at > MaxAge

IsActive(att) == ~Revoked(att) /\ ~Stale(att) /\ Certified(att)

Active == SelectSeq(attestations, IsActive)

\* assessActiveTrust
ActiveStatus ==
    LET base == ClaimStatus(Active)
    IN IF RevokedByIssuer("claim", "claim", Issuer) THEN "revoked"
       ELSE IF disputes \cap AuthorizedDisputers # {} /\ base # "retrieval_unverified" THEN "disputed"
       ELSE IF Active = <<>> /\ attestations # <<>> THEN "stale_or_uncertified"
       ELSE base

---------------------------------------------------------------------------

\* createAttestation
Attest(b) ==
    /\ Len(attestations) < MaxAttestations
    /\ attestations' = Append(attestations, [body |-> b, at |-> now])
    /\ UNCHANGED <<now, certificates, revocations, disputes, receipt>>

\* createLineageCertificate: anyone may certify any source.
Certify(l) ==
    /\ Len(certificates) < MaxCertificates
    /\ certificates' = Append(certificates, [lineage |-> l, expires |-> now + Ttl])
    /\ UNCHANGED <<now, attestations, revocations, disputes, receipt>>

\* createTrustRevocation: anyone may sign one.
Revoke(r) ==
    /\ r \notin revocations /\ Cardinality(revocations) < MaxRevocations
    /\ revocations' = revocations \cup {r}
    /\ UNCHANGED <<now, attestations, certificates, disputes, receipt>>

\* createDispute
Dispute(n) ==
    /\ n \notin disputes
    /\ disputes' = disputes \cup {n}
    /\ UNCHANGED <<now, attestations, certificates, revocations, receipt>>

\* createTrustReceipt: over the attestations as they were gathered, without the
\* lifecycle checks of assessActiveTrust.
SignReceipt ==
    /\ receipt = NoReceipt
    /\ receipt' = [status |-> ClaimStatus(attestations), over |-> attestations]
    /\ UNCHANGED <<now, attestations, certificates, revocations, disputes>>

Tick ==
    /\ now < MaxTime
    /\ now' = now + 1
    /\ UNCHANGED <<attestations, certificates, revocations, disputes, receipt>>

TrustNext ==
    \/ \E b \in Bodies : Attest(b)
    \/ \E l \in Lineages : Certify(l)
    \/ \E r \in Revocations : Revoke(r)
    \/ \E n \in Disputers : Dispute(n)
    \/ SignReceipt \/ Tick

TrustSpec == TrustInit /\ [][TrustNext]_trustVars

---------------------------------------------------------------------------

\* The reference: attestations are linked when a chain of shared tokens joins them.
Linked(atts) ==
    LET tokens == [i \in DOMAIN atts |-> atts[i].body.tokens]
    IN ReflexiveTransitiveClosure([i, j \in DOMAIN atts |->
          tokens[i] \cap tokens[j] # {} \/ tokens[i] = tokens[j]], DOMAIN atts)

\* n attestations of atts with a known lineage, all in support, no two of them linked.
IndependentSupport(atts, n) ==
    LET linked == Linked(atts) IN
    \E s \in SUBSET DOMAIN atts :
        /\ Cardinality(s) >= n
        /\ \A i \in s : atts[i].body.verdict = "support" /\ atts[i].body.tokens # {}
        /\ \A i, j \in s : i # j => ~linked[i, j]

(* The union-find over first owners of a token finds exactly the groups    *)
(* that chains of shared origins, publishers and generators form, in every *)
(* order of arrival (analyzeAttestationIndependence); and what is assessed *)
(* as verified, now or in a receipt, is supported by enough attestations   *)
(* no two of which go back to a common lineage, with no one of a known     *)
(* lineage contradicting (assessClaimEvidence).                            *)
VerifiedIsIndependent ==
    /\ LET groups == Groups(attestations)
           linked == Linked(attestations)
       IN \A i, j \in DOMAIN attestations : (\E g \in groups : {i, j} \subseteq g) <=> linked[i, j]
    /\ \A x \in {[status |-> ActiveStatus, over |-> Active], receipt} :
          x.status = "verified" =>
              /\ IndependentSupport(x.over, MinIndependentSupport)
              /\ \A i \in DOMAIN x.over :
                    x.over[i].body.verdict = "contradict" => x.over[i].body.tokens = {}

(* While the claim, an attestation or a certificate is revoked by the one  *)
(* who issued it, an attestation is too old, or an authorized node         *)
(* disputes, the claim is not verified on that account: every attestation  *)
(* that counts is of the last MaxAge, stands, and declares only lineage    *)
(* that a certificate in force vouches for; and revocations by others      *)
(* change nothing (assessActiveTrust).                                     *)
OnlyLiveEvidenceCounts ==
    ActiveStatus = "verified" =>
        /\ RevokedByIssuer("claim", "claim", Issuer) = FALSE /\ disputes \cap AuthorizedDisputers = {}
        /\ Cardinality({i \in DOMAIN attestations :
              LET b == attestations[i].body IN
                /\ b.verdict = "support" /\ now <= attestations[i].at + MaxAge
                /\ \A r \in revocations : r.by = b.by /\ r.type = "attestation" => r.target # b
                /\ \A t \in b.tokens : \E k \in DOMAIN certificates :
                      LET l == certificates[k].lineage IN
                        /\ l.source = b.source /\ t \in l.tokens /\ certificates[k].expires > now
                        /\ [type |-> "certificate", target |-> l, by |-> l.owner] \notin revocations})
           >= MinIndependentSupport

=============================================================================
