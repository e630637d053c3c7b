----------------------------- MODULE Placement -----------------------------
(***************************************************************************)
(* Where the partitions of a context are held: signed placement records    *)
(* and revocations, published to the directories responsible for the root  *)
(* (node/placement-directory.js), gossiped between directories, and looked *)
(* up by a resolver that wants several of them to agree (core/network/     *)
(* placement-discovery.js).                                                *)
(*                                                                         *)
(* One root with one partition per holder, so that a holder is a placement *)
(* key.  A record is its sequence number, what else its body says, who     *)
(* signed it and when it expires; its recordId covers the body only.  A    *)
(* request that is never served is one that was lost or came too late for  *)
(* the client's timeout.                                                   *)
(***************************************************************************)
EXTENDS Naturals, Sequences, FiniteSets

CONSTANTS
    Ranking,            \* the directories, in the order of their hash with the root
    ReplicationFactor,
    Holders,
    Outsider,           \* a signer that is not a holder
    MinDirectoryAgreement,
    MaxSequence, Ttl, MaxTime, MaxRequests, MaxGossips

NoRecord == [seq |-> 0]
Directories == {Ranking[i] : i \in 1..Len(Ranking)}
Smaller(a, b) == IF a < b THEN a ELSE b

\* placementResponsiblePeers.
Responsible == SubSeq(Ranking, 1, Smaller(ReplicationFactor, Len(Ranking)))
Asked == {Responsible[i] : i \in 1..Len(Responsible)}

VARIABLES
    now,
    requests,   \* publish and revoke requests to a directory, not yet served
    made,       \* how many records and revocations holders made
    records,    \* of each directory: records, per holder
    revoked,    \* of each directory: revocations, the sequence number per holder
    lookup,     \* findRecords of the resolver
    gossips

placementVars == <<now, requests, made, records, revoked, lookup, gossips>>

Record == [holder : Holders, seq : 1..MaxSequence, body : {"a", "b"},
           signer : Holders \cup {Outsider}, expires : Nat]
NoLookup == [pc |-> "idle", now |-> 0, next |-> 1, seen |-> {}, found |-> {},
             floor |-> [h \in Holders |-> 0], dead |-> [h \in Holders |-> 0]]

PlacementTypeOK ==
    /\ now \in 0..MaxTime /\ made \in 0..MaxRequests /\ gossips \in 0..MaxGossips
    /\ \A d \in Directories, h \in Holders :
          /\ records[d][h] # NoRecord => records[d][h] \in Record /\ records[d][h].holder = h
          /\ revoked[d][h] \in 0..MaxSequence
    /\ lookup.pc \in {"idle", "asking", "done"} /\ lookup.found \subseteq Record
    /\ lookup.seen \subseteq Record \X Directories

PlacementInit ==
    /\ now = 0 /\ requests = {} /\ made = 0 /\ gossips = 0
    /\ records = [d \in Directories |-> [h \in Holders |-> NoRecord]]
    /\ revoked = [d \in Directories |-> [h \in Holders |-> 0]]
    /\ lookup = NoLookup

---------------------------------------------------------------------------

\* verifyPlacementRecord: signed by the key of its holder and not expired.
VerifyPlacementRecord(r, t) == r.signer = r.holder /\ t < r.expires

\* createPlacementRecord and publishPlacementAcrossDirectories: one request to each
\* responsible directory.  A holder may say two things under one sequence number.
PublishPlacement(h, n, body, signer) ==
    LET r == [holder |-> h, seq |-> n, body |-> body, signer |-> signer, expires |-> now + Ttl]
    IN /\ made < MaxRequests /\ made' = made + 1
       /\ requests' = requests \cup {[kind |-> "publish", to |-> d, record |-> r] : d \in Asked}
       /\ UNCHANGED <<now, records, revoked, lookup, gossips>>

\* createPlacementRevocation and revokePlacementAcrossDirectories.
RevokePlacement(h, n) ==
    /\ made < MaxRequests /\ made' = made + 1
    /\ requests' = requests \cup {[kind |-> "revoke", to |-> d, holder |-> h, seq |-> n] : d \in Asked}
    /\ UNCHANGED <<now, records, revoked, lookup, gossips>>

\* ingestRecord: never back to an older sequence number, nor to another body of the
\* same one; a second issue of the same body replaces the first.
IngestRecord(held, r) ==
    LET older == held.seq > r.seq
        equivocation == held.seq = r.seq /\ held.body # r.body
    IN IF VerifyPlacementRecord(r, now) /\ ~older /\ ~equivocation THEN r ELSE held

\* ingestRevocation: the highest sequence number wins.
IngestRevocation(held, n) == IF held <= n THEN n ELSE held

\* placementDirectoryHandler.
ServePublish(q) ==
    /\ q \in requests /\ q.kind = "publish"
    /\ requests' = requests \ {q}
    /\ records' = [records EXCEPT ![q.to][q.record.holder] = IngestRecord(@, q.record)]
    /\ UNCHANGED <<now, made, revoked, lookup, gossips>>

ServeRevoke(q) ==
    /\ q \in requests /\ q.kind = "revoke"
    /\ requests' = requests \ {q}
    /\ revoked' = [revoked EXCEPT ![q.to][q.holder] = IngestRevocation(@, q.seq)]
    /\ UNCHANGED <<now, made, records, lookup, gossips>>

\* gossipWith: both export, then each imports what the other exported.
ImportRecords(d, e) ==
    [h \in Holders |-> IF records[e][h] = NoRecord THEN records[d][h]
                       ELSE IngestRecord(records[d][h], records[e][h])]

ImportRevocations(d, e) ==
    [h \in Holders |-> IF revoked[e][h] = 0 THEN revoked[d][h]
                       ELSE IngestRevocation(revoked[d][h], revoked[e][h])]

GossipWith(d, e) ==
    /\ d # e /\ gossips < MaxGossips /\ gossips' = gossips + 1
    /\ records' = [records EXCEPT ![d] = ImportRecords(d, e), ![e] = ImportRecords(e, d)]
    /\ revoked' = [revoked EXCEPT ![d] = ImportRevocations(d, e), ![e] = ImportRevocations(e, d)]
    /\ UNCHANGED <<now, requests, made, lookup>>

\* find at a directory: neither expired nor revoked.
Find(d, t) ==
    {records[d][h] : h \in {g \in Holders : /\ records[d][g] # NoRecord
                                            /\ VerifyPlacementRecord(records[d][g], t)
                                            /\ revoked[d][g] < records[d][g].seq}}

---------------------------------------------------------------------------

\* What every directory the resolver asks knows already when it begins; for the
\* properties only.
Least(f, h) == CHOOSE n \in {f[d][h] : d \in Asked} : \A d \in Asked : n <= f[d][h]
HeldSeq == [d \in Directories |-> [h \in Holders |-> records[d][h].seq]]

\* findRecords asks the responsible directories one after the other ...
FindRecords ==
    /\ lookup.pc = "idle"
    /\ lookup' = [NoLookup EXCEPT !.pc = "asking", !.now = now,
                                  !.floor = [h \in Holders |-> Least(HeldSeq, h)],
                                  !.dead = [h \in Holders |-> Least(revoked, h)]]
    /\ UNCHANGED <<now, requests, made, records, revoked, gossips>>

\* ... and keeps what it can verify itself.
AskDirectory ==
    LET d == Responsible[lookup.next]
        sighted == {r \in Find(d, lookup.now) : VerifyPlacementRecord(r, lookup.now)}
    IN /\ lookup.pc = "asking" /\ lookup.next <= Len(Responsible)
       /\ lookup' = [lookup EXCEPT !.next = @ + 1, !.seen = @ \cup (sighted \X {d})]
       /\ UNCHANGED <<now, requests, made, records, revoked, gossips>>

SameId(r, s) == r.holder = s.holder /\ r.seq = s.seq /\ r.body = s.body
Sightings(r) == {d \in Directories : \E s \in lookup.seen : s[2] = d /\ SameId(s[1], r)}

\* A record enough directories agree on is found; of several issues of a recordId
\* the first sighted.
Agreed ==
    LET At(d) == CHOOSE i \in 1..Len(Responsible) : Responsible[i] = d
        first == {s \in lookup.seen : \A z \in lookup.seen : SameId(s[1], z[1]) => At(s[2]) <= At(z[2])}
    IN {s[1] : s \in {z \in first : Cardinality(Sightings(z[1])) >= MinDirectoryAgreement}}

LookupEnds ==
    /\ lookup.pc = "asking" /\ lookup.next > Len(Responsible)
    /\ lookup' = [lookup EXCEPT !.pc = "done", !.found = Agreed]
    /\ UNCHANGED <<now, requests, made, records, revoked, gossips>>

Tick ==
    /\ now < MaxTime /\ now' = now + 1
    /\ UNCHANGED <<requests, made, records, revoked, lookup, gossips>>

PlacementNext ==
    \/ \E h \in Holders, n \in 1..MaxSequence :
          \/ \E body \in {"a", "b"}, signer \in {h, Outsider} : PublishPlacement(h, n, body, signer)
          \/ RevokePlacement(h, n)
    \/ \E q \in requests : ServePublish(q) \/ ServeRevoke(q)
    \/ \E d, e \in Directories : GossipWith(d, e)
    \/ FindRecords \/ AskDirectory \/ LookupEnds \/ Tick

PlacementSpec == PlacementInit /\ [][PlacementNext]_placementVars

---------------------------------------------------------------------------

(* Directories never go back: whatever is published, revoked, delayed,     *)
(* reordered and gossiped while a resolver asks around, it finds no record *)
(* that all the directories it asks knew to be revoked when it began, none *)
(* older than what all of them had and none that had expired then; as many *)
(* of the responsible directories as must agree have this record or a      *)
(* newer statement of its holder; and of one holder and sequence number it *)
(* finds two records only if their bodies contradict each other            *)
(* (ingestRecord, ingestRevocation, gossipWith, findRecords).              *)
Backing(r) ==
    {d \in Asked : \/ records[d][r.holder].seq > r.seq
                   \/ records[d][r.holder] # NoRecord /\ SameId(records[d][r.holder], r)}

LookupSound ==
    \A r \in lookup.found :
        /\ r.seq >= lookup.floor[r.holder] /\ r.seq > lookup.dead[r.holder]
        /\ r.signer = r.holder /\ lookup.now < r.expires
        /\ Cardinality(Backing(r)) >= MinDirectoryAgreement
        /\ \A s \in lookup.found : r # s => ~SameId(r, s)

=============================================================================
